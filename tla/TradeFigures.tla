----------------------------- MODULE TradeFigures -----------------------------
(***************************************************************************)
(* Two calculations of the journal, step by step: the allocation of a      *)
(* fill's commission to its legs (journal/trade_normalizer.py), and the    *)
(* statistics of the trades closed in a window                             *)
(* (journal/trade_stats_service.py).  Money is counted in whole quanta, the *)
(* last decimal place of the commission.                                   *)
(***************************************************************************)
EXTENDS Integers, Sequences, FiniteSets

CONSTANTS
    Legs,          \* the legs to consider: sequences of absolute units
    Commissions,   \* commissions of a fill
    Closed         \* closed trades to consider: sequences of [at, pnl] in the
                   \* order the store lists them

VARIABLES
    legs, commission, allocations, running,
    trades, counted,       \* the trades of the window, those already counted
    cumulative, peak, maxDrawdown,
    curve                  \* the profits summed so far, from 0 (history)

figureVars == <<legs, commission, allocations, running, trades, counted,
                cumulative, peak, maxDrawdown, curve>>
legVars   == <<legs, commission, allocations, running>>
statsVars == <<trades, counted, cumulative, peak, maxDrawdown, curve>>

ASSUME Figures == /\ Legs \subseteq Seq(Nat) /\ Commissions \subseteq Int
                  /\ Closed \subseteq Seq([at : Int, pnl : Int])

FInit ==
    /\ legs \in Legs /\ commission \in Commissions
    /\ allocations = <<>> /\ running = 0
    /\ trades \in Closed /\ counted = {}
    /\ cumulative = 0 /\ peak = 0 /\ maxDrawdown = 0
    /\ curve = <<0>>

-----------------------------------------------------------------------------
(* _allocate_commission *)

\* The sum of the first n members of s.
Total(s, n) ==
    LET sum[k \in 0 .. Len(s)] == IF k = 0 THEN 0 ELSE sum[k - 1] + s[k] IN sum[n]

TotalUnits == Total(legs, Len(legs))

\* a / b rounded to the nearest whole number, halves up (ROUND_HALF_UP).
RoundHalfUp(a, b) == (2 * a + b) \div (2 * b)

\* (mutant) The last leg is rounded like the others.
AllocateLegRounded ==
    LET i == Len(allocations) + 1
        share == IF TotalUnits = 0 THEN 0 ELSE RoundHalfUp(commission * legs[i], TotalUnits)
    IN  /\ i <= Len(legs)
        /\ allocations' = Append(allocations, share)
        /\ running' = running + share
        /\ UNCHANGED <<legs, commission, statsVars>>

\* A rounded share for every leg but the last, which takes what is left.
AllocateLeg ==
    LET i == Len(allocations) + 1
        share == CASE TotalUnits = 0 -> 0
                   [] TotalUnits # 0 /\ i = Len(legs) -> commission - running
                   [] OTHER -> RoundHalfUp(commission * legs[i], TotalUnits)
    IN  /\ i <= Len(legs)
        /\ allocations' = Append(allocations, share)
        /\ running' = running + share
        /\ UNCHANGED <<legs, commission, statsVars>>

-----------------------------------------------------------------------------
(* _closed_trades_for_window and _max_drawdown *)

Uncounted == (1 .. Len(trades)) \ counted

\* (mutant) The trades in the order of the store.
FirstListed(i) == i \in Uncounted /\ \A j \in Uncounted : i <= j

\* The sort by closing time keeps the order of the store among equals.
FirstClosed(i) ==
    /\ i \in Uncounted
    /\ \A j \in Uncounted : \/ trades[i].at < trades[j].at
                            \/ trades[i].at = trades[j].at /\ i <= j

CountTrade(i) ==
    LET pnl == trades[i].pnl
        sum == cumulative + pnl
        top == IF sum > peak THEN sum ELSE peak
    IN  /\ FirstClosed(i)
        /\ counted' = counted \cup {i}
        /\ cumulative' = sum /\ peak' = top
        /\ maxDrawdown' = IF top - sum > maxDrawdown THEN top - sum ELSE maxDrawdown
        /\ curve' = Append(curve, sum)
        /\ UNCHANGED <<trades, legVars>>

FNext == AllocateLeg \/ \E i \in DOMAIN trades : CountTrade(i)

FSpec == FInit /\ [][FNext]_figureVars

-----------------------------------------------------------------------------
(* Properties. *)

Abs(n) == IF n < 0 THEN -n ELSE n

\* The shares of a commission add up to it, and no leg is far from its part:
\* within half a quantum for every leg, and for the last one within half a
\* quantum for each of the others (_allocate_commission).
CommissionShared ==
    LET n == Len(legs)
        units == TotalUnits
    IN  Len(allocations) = n /\ units > 0 =>
        /\ Total(allocations, n) = commission
        /\ \A i \in 1 .. n :
             2 * Abs(allocations[i] * units - commission * legs[i])
               <= units * (IF i = n THEN n - 1 ELSE 1)

\* The account's profit just after time t: the trades closed by then.
ProfitBy(t) ==
    LET upTo == {i \in 1 .. Len(trades) : trades[i].at <= t}
        sum[k \in 0 .. Len(trades)] ==
            IF k = 0 THEN 0 ELSE sum[k - 1] + (IF k \in upTo THEN trades[k].pnl ELSE 0)
    IN  sum[Len(trades)]

\* The reported drawdown is at least the deepest fall of the profit between
\* two moments, from its start at 0, whatever order the store lists the trades
\* in, and is one that the curve of the counted trades shows (_max_drawdown).
DrawdownIsWorst ==
    /\ counted = 1 .. Len(trades) =>
         \A i, j \in 1 .. Len(trades) : trades[i].at <= trades[j].at =>
            /\ maxDrawdown >= ProfitBy(trades[i].at) - ProfitBy(trades[j].at)
            /\ maxDrawdown >= 0 - ProfitBy(trades[j].at)
    /\ \E i, j \in DOMAIN curve : i <= j /\ maxDrawdown = curve[i] - curve[j]
=============================================================================
