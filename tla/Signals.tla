------------------------------- MODULE Signals -------------------------------
(***************************************************************************)
(* When a chart is a reason to buy or to sell short: the market structure  *)
(* (bot/structure.py), levels (bot/levels.py), patterns (bot/patterns.py)  *)
(* and the eight criteria that are made of them (bot/signal.py).  All of   *)
(* it is a function of the closed candles; the short side is written out   *)
(* beside the long one in the code, and so it is here.                     *)
(*                                                                         *)
(* Prices and ATRs are integers, and the fractions of the configuration    *)
(* are multiplied out.  RSI, EMA and volume are left out: the criteria     *)
(* made from them are arguments.  So is the least number of candles that   *)
(* a signal, unlike an exit, needs.                                        *)
(***************************************************************************)
EXTENDS Integers, Sequences, SequencesExt

Candle == [o : Int, h : Int, l : Int, c : Int]

IsBull(k) == k.c > k.o
IsBear(k) == k.c < k.o
Top(k) == IF k.o > k.c THEN k.o ELSE k.c
Bottom(k) == IF k.o > k.c THEN k.c ELSE k.o
Body(k) == Top(k) - Bottom(k)
LowerWick(k) == Bottom(k) - k.l
UpperWick(k) == k.h - Top(k)

-----------------------------------------------------------------------------
(* Structure: swings, and the closes that break them *)

Pivots(chart, left, right) == (left + 1)..(Len(chart) - right)

SwingHighs(chart, left, right) ==
    {i \in Pivots(chart, left, right) :
        \A j \in (i - left)..(i + right) : chart[i].h >= chart[j].h}

SwingLows(chart, left, right) ==
    {i \in Pivots(chart, left, right) :
        \A j \in (i - left)..(i + right) : chart[i].l <= chart[j].l}

\* The last of some candles, and the last two.
IsLast(i, S) == i \in S /\ \A j \in S : j <= i
LastTwo(i, j, S) == IsLast(j, S) /\ IsLast(i, S \ {j})

HigherHigh(chart, S) == \E i, j \in S : LastTwo(i, j, S) /\ chart[j].h > chart[i].h
LowerHigh(chart, S)  == \E i, j \in S : LastTwo(i, j, S) /\ chart[j].h < chart[i].h
HigherLow(chart, S)  == \E i, j \in S : LastTwo(i, j, S) /\ chart[j].l > chart[i].l
LowerLow(chart, S)   == \E i, j \in S : LastTwo(i, j, S) /\ chart[j].l < chart[i].l

SwingTrend(chart, highs, lows) ==
    CASE HigherHigh(chart, highs) /\ HigherLow(chart, lows) -> "up"
      [] LowerHigh(chart, highs) /\ LowerLow(chart, lows) -> "down"
      [] OTHER -> "range"

\* A close beyond the last high, or the last low, that is not yet broken.
BreakUp(st, chart, k) ==
    IF \E i \in st.high : k.c > chart[i].h
    THEN [st EXCEPT !.event = IF st.trend = "up" THEN "bos_up" ELSE "choch_up",
                    !.trend = "up", !.high = {}]
    ELSE st

BreakDown(st, chart, k) ==
    IF \E i \in st.low : k.c < chart[i].l
    THEN [st EXCEPT !.event = IF st.trend = "down" THEN "bos_down" ELSE "choch_down",
                    !.trend = "down", !.low = {}]
    ELSE st

\* analyze_structure: the trend of the swings, then the closes since the last.
Structure(chart, left, right) ==
    LET highs == SwingHighs(chart, left, right)
        lows  == SwingLows(chart, left, right)
        since == {i \in 1..Len(chart) : \A j \in highs \cup lows : i > j}
        start == [trend |-> SwingTrend(chart, highs, lows), event |-> "none",
                  high |-> {i \in highs : IsLast(i, highs)},
                  low  |-> {i \in lows : IsLast(i, lows)}]
        walk(st, k) == BreakDown(BreakUp(st, chart, k), chart, k)
    IN  FoldLeft(walk, start, SubSeq(chart, Len(chart) + 1 - Cardinality(since), Len(chart)))

BullishBias(st) == st.trend = "up" \/ st.event \in {"bos_up", "choch_up"}
BearishBias(st) == st.trend = "down" \/ st.event \in {"bos_down", "choch_down"}

\* The exits on a change of character: one of the last candles has closed
\* beyond the last low, or high, from before them, against the trend of then.
Before(chart, lookback) == SubSeq(chart, 1, Len(chart) - lookback)
Recent(chart, lookback) == (Len(chart) - lookback + 1)..Len(chart)

BearishChochRecent(chart, left, right, lookback) ==
    LET base == Before(chart, lookback)
        lows == SwingLows(base, left, right)
    IN  /\ Len(chart) >= left + right + lookback + 2
        /\ Structure(base, left, right).trend # "down"
        /\ \E i \in lows, j \in Recent(chart, lookback) :
               IsLast(i, lows) /\ chart[j].c < chart[i].l

BullishChochRecent(chart, left, right, lookback) ==
    LET base  == Before(chart, lookback)
        highs == SwingHighs(base, left, right)
    IN  /\ Len(chart) >= left + right + lookback + 2
        /\ Structure(base, left, right).trend # "up"
        /\ \E i \in highs, j \in Recent(chart, lookback) :
               IsLast(i, highs) /\ chart[j].c > chart[i].h

-----------------------------------------------------------------------------
(* Patterns of the last candles *)

BullishEngulfing(a, b) == IsBear(a) /\ IsBull(b) /\ b.c >= a.o /\ b.o <= a.c /\ Body(b) > Body(a)
BearishEngulfing(a, b) == IsBull(a) /\ IsBear(b) /\ b.o >= a.c /\ b.c <= a.o /\ Body(b) > Body(a)

\* A wick of two bodies at least, and half a body at most on the other side.
BullishPinbar(k) == LowerWick(k) >= 2 * Body(k) /\ 2 * UpperWick(k) <= Body(k)
BearishPinbar(k) == UpperWick(k) >= 2 * Body(k) /\ 2 * LowerWick(k) <= Body(k)

\* The same shape, after a decline or advance or near its end.
Hammer(window, k) ==
    /\ LowerWick(k) >= 2 * Body(k) /\ 2 * UpperWick(k) <= Body(k)
    /\ \/ window[1].c > window[Len(window)].c
       \/ \A i \in DOMAIN window : 1000 * k.l <= 1005 * window[i].l
ShootingStar(window, k) ==
    /\ UpperWick(k) >= 2 * Body(k) /\ 2 * LowerWick(k) <= Body(k)
    /\ \/ window[1].c < window[Len(window)].c
       \/ \A i \in DOMAIN window : 1000 * k.h >= 995 * window[i].h

\* A small body apart from the first one's, and back beyond its middle.
MorningStar(a, b, k) ==
    /\ IsBear(a) /\ IsBull(k) /\ 10 * Body(b) <= 3 * Body(a)
    /\ Top(b) < Bottom(a) /\ 2 * k.c >= a.o + a.c
EveningStar(a, b, k) ==
    /\ IsBull(a) /\ IsBear(k) /\ 10 * Body(b) <= 3 * Body(a)
    /\ Bottom(b) > Top(a) /\ 2 * k.c <= a.o + a.c

\* detect_pattern, of which a signal asks whether there is any.
HammerLookback == 5
AnyBullish(chart) ==
    LET n == Len(chart)
    IN  \/ n >= 3 /\ MorningStar(chart[n - 2], chart[n - 1], chart[n])
        \/ n >= 2 /\ BullishEngulfing(chart[n - 1], chart[n])
        \/ n > HammerLookback /\ Hammer(SubSeq(chart, n - HammerLookback, n - 1), chart[n])
        \/ n >= 1 /\ BullishPinbar(chart[n])
AnyBearish(chart) ==
    LET n == Len(chart)
    IN  \/ n >= 3 /\ EveningStar(chart[n - 2], chart[n - 1], chart[n])
        \/ n >= 2 /\ BearishEngulfing(chart[n - 1], chart[n])
        \/ n > HammerLookback /\ ShootingStar(SubSeq(chart, n - HammerLookback, n - 1), chart[n])
        \/ n >= 1 /\ BearishPinbar(chart[n])

-----------------------------------------------------------------------------
(* Levels: zones of prices *)

Zone(top, bottom, for) == [top |-> top, bottom |-> bottom, for |-> for]
TwiceMid(z) == z.top + z.bottom
Abs(n) == IF n < 0 THEN -n ELSE n

SrLookback == 120
ZoneLookback == 60
Newest(chart, n) == IF Len(chart) > n THEN SubSeq(chart, Len(chart) + 1 - n, Len(chart)) ELSE chart

\* find_sr_levels: a swing joins the first zone whose middle is within half an
\* ATR.  Those touched most are kept, the older one where two were as often.
SrZones(chart, atr) ==
    LET window == Newest(chart, SrLookback)
        highs  == SwingHighs(window, 2, 2)
        lows   == SwingLows(window, 2, 2)
        pricesAt(i) == (IF i \in highs THEN <<window[i].h>> ELSE <<>>)
                       \o (IF i \in lows THEN <<window[i].l>> ELSE <<>>)
        swings == FlattenSeq([i \in DOMAIN window |-> pricesAt(i)])
        near(z, p) == Abs(TwiceMid(z) - 2 * p) <= atr
        joined(z, p) == [z EXCEPT !.top = IF p > @ THEN p ELSE @, !.touches = @ + 1,
                                  !.bottom = IF p < @ THEN p ELSE @]
        add(zones, p) ==
            IF \E i \in DOMAIN zones : near(zones[i], p)
            THEN LET first == CHOOSE i \in DOMAIN zones :
                         near(zones[i], p) /\ \A j \in 1..(i - 1) : ~near(zones[j], p)
                 IN  [zones EXCEPT ![first] = joined(@, p)]
            ELSE Append(zones, [top |-> p, bottom |-> p, for |-> "both", touches |-> 1])
        zones == FoldLeft(add, <<>>, swings)
        before(i) == {j \in DOMAIN zones : \/ zones[j].touches > zones[i].touches
                                           \/ zones[j].touches = zones[i].touches /\ j < i}
    IN  {Zone(zones[i].top, zones[i].bottom, "both") :
            i \in {j \in DOMAIN zones : Cardinality(before(j)) < 8}}

\* Of zones that are too near to each other the newest is kept; four at most.
Apart(zones, tenths, atr) ==
    LET add(kept, z) ==
            IF \E i \in DOMAIN kept : 10 * Abs(TwiceMid(kept[i]) - TwiceMid(z)) < 2 * tenths * atr
            THEN kept ELSE Append(kept, z)
        kept == FoldLeft(add, <<>>, Reverse(zones))
    IN  {kept[i] : i \in {j \in DOMAIN kept : j <= 4}}

\* Zones in the order of the candles that they are found at.
Ordered(zoneAt, n) == FlattenSeq([i \in 1..n |-> IF i \in DOMAIN zoneAt THEN <<zoneAt[i]>> ELSE <<>>])

\* The last candle before an impulse the other way; a gap around an impulse.
OrderBlocks(chart, atr) ==
    LET w == Newest(chart, ZoneLookback)
        at == {i \in 2..(Len(w) - 1) : IsBear(w[i - 1]) /\ IsBull(w[i]) /\ 2 * Body(w[i]) >= 3 * atr}
    IN  Apart(Ordered([i \in at |-> Zone(Top(w[i - 1]), Bottom(w[i - 1]), "bull")], Len(w)), 5, atr)

OrderBlocksBear(chart, atr) ==
    LET w == Newest(chart, ZoneLookback)
        at == {i \in 2..(Len(w) - 1) : IsBull(w[i - 1]) /\ IsBear(w[i]) /\ 2 * Body(w[i]) >= 3 * atr}
    IN  Apart(Ordered([i \in at |-> Zone(Top(w[i - 1]), Bottom(w[i - 1]), "bear")], Len(w)), 5, atr)

Gaps(chart, atr) ==
    LET w == Newest(chart, ZoneLookback)
        at == {i \in 3..Len(w) : IsBull(w[i - 1]) /\ w[i].l > w[i - 2].h /\ 10 * (w[i].l - w[i - 2].h) >= atr}
    IN  Apart(Ordered([i \in at |-> Zone(w[i].l, w[i - 2].h, "bull")], Len(w)), 3, atr)

GapsBear(chart, atr) ==
    LET w == Newest(chart, ZoneLookback)
        at == {i \in 3..Len(w) : IsBear(w[i - 1]) /\ w[i].h < w[i - 2].l /\ 10 * (w[i - 2].l - w[i].h) >= atr}
    IN  Apart(Ordered([i \in at |-> Zone(w[i - 2].l, w[i].h, "bear")], Len(w)), 3, atr)

AtLevel(zones, for, price, atr) ==
    \E z \in zones : /\ z.for \in {for, "both"}
                     /\ 2 * z.bottom - atr <= 2 * price /\ 2 * price <= 2 * z.top + atr

\* Twice the middle of the nearest zone below, and above; at most one.
Support(zones, price) ==
    {TwiceMid(z) : z \in {y \in zones : /\ TwiceMid(y) <= 2 * price
                                        /\ \A x \in zones : TwiceMid(x) <= 2 * price => TwiceMid(x) <= TwiceMid(y)}}
Resistance(zones, price) ==
    {TwiceMid(z) : z \in {y \in zones : /\ TwiceMid(y) >= 2 * price
                                        /\ \A x \in zones : TwiceMid(x) >= 2 * price => TwiceMid(x) >= TwiceMid(y)}}

-----------------------------------------------------------------------------
(* The signal *)

\* What is risked and what there is to gain, in quarters: an ATR and a half, or
\* a quarter of one beyond the nearest level that is not as far but farther
\* than 0.3 ATR; up to the next level, if there is one, or 1.5 times the risk.
RiskOf(atr, levels, price) ==
    LET away(m) == Abs(2 * price - m)                        \* twice the distance
        close == {m \in levels : away(m) < 3 * atr /\ 10 * away(m) >= 6 * atr}
    IN  IF close = {} THEN 6 * atr ELSE 2 * away(CHOOSE m \in close : TRUE) + atr

\* 0.8 to 4 ATR.
StopOk(risk, atr) == 10 * risk >= 32 * atr /\ risk <= 16 * atr

\* min_confirmations of the eight, the five vital ones among them.
Score(vital, others) == Cardinality({i \in DOMAIN vital : vital[i]}) + Cardinality({i \in DOMAIN others : others[i]})
Eligible(vital, others) == (\A i \in DOMAIN vital : vital[i]) /\ Score(vital, others) >= 6

\* build_signal: `others` are the criteria on momentum, RSI and volume.
BuildSignal(trendChart, chart, atr, others) ==
    LET price  == chart[Len(chart)].c
        zones  == SrZones(chart, atr) \cup OrderBlocks(chart, atr) \cup Gaps(chart, atr)
        risk   == RiskOf(atr, Support(zones, price), price)
        target == {m \in Resistance(zones, price) : m > 2 * price}
        vital  == << BullishBias(Structure(trendChart, 2, 2)),
                     AtLevel(zones, "bull", price, atr),
                     AnyBullish(chart),
                     StopOk(risk, atr),
                     \A m \in target : 4 * (m - 2 * price) >= 3 * risk >>
    IN  [eligible |-> Eligible(vital, others), risk |-> risk, vital |-> vital]

\* build_signal_short.
BuildSignalShort(trendChart, chart, atr, others) ==
    LET price  == chart[Len(chart)].c
        zones  == SrZones(chart, atr) \cup OrderBlocksBear(chart, atr) \cup GapsBear(chart, atr)
        risk   == RiskOf(atr, Resistance(zones, price), price)
        target == {m \in Support(zones, price) : m < 2 * price}
        vital  == << BearishBias(Structure(trendChart, 2, 2)),
                     AtLevel(zones, "bear", price, atr),
                     AnyBearish(chart),
                     StopOk(risk, atr),
                     \A m \in target : 4 * (2 * price - m) >= 3 * risk >>
    IN  [eligible |-> Eligible(vital, others), risk |-> risk, vital |-> vital]

-----------------------------------------------------------------------------
(* What the short side should be: the long side of the chart upside down *)

Mirror(k) == [o |-> -k.o, h |-> -k.l, l |-> -k.h, c |-> -k.c]
Mirrored(chart) == [i \in DOMAIN chart |-> Mirror(chart[i])]
=============================================================================
