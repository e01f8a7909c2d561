------------------------------ MODULE MCSignals ------------------------------
(***************************************************************************)
(* Signals on all charts of a few small candles.  What the walk along the  *)
(* closes finds, and what signals find upside down, is beyond the provers; *)
(* here TLC evaluates it.                                                  *)
(***************************************************************************)
EXTENDS Signals

Sticks == {k \in [o : 0..2, h : 0..2, l : 0..2, c : 0..2] : k.o = k.c /\ k.l <= k.c /\ k.c <= k.h}
StructureCharts == [1..5 -> Sticks]

\* What BOS and CHoCH are said to be: a close beyond the last swing, the first
\* of each kind since the swings, with or against the trend that it finds.
Breaks(chart, highs, lows, up) ==
    {n \in 1..Len(chart) : /\ \A j \in highs \cup lows : n > j
                           /\ IF up THEN \E i \in highs : IsLast(i, highs) /\ chart[n].c > chart[i].h
                                    ELSE \E i \in lows : IsLast(i, lows) /\ chart[n].c < chart[i].l}
FirstBreak(B) == {n \in B : \A m \in B : n <= m}

TrendAfterBreaks(chart) ==
    LET highs == SwingHighs(chart, 1, 1)
        lows  == SwingLows(chart, 1, 1)
        up    == FirstBreak(Breaks(chart, highs, lows, TRUE))
        down  == FirstBreak(Breaks(chart, highs, lows, FALSE))
    IN  CASE up = {} /\ down = {} -> SwingTrend(chart, highs, lows)
          [] \E n \in up : \A m \in down : n > m -> "up"
          [] \E m \in down : \A n \in up : m > n -> "down"

Opposite(s) ==
    CASE s = "up" -> "down" [] s = "down" -> "up"
      [] s = "bos_up" -> "bos_down" [] s = "bos_down" -> "bos_up"
      [] s = "choch_up" -> "choch_down" [] s = "choch_down" -> "choch_up"
      [] OTHER -> s

\* The walk finds that trend; it is never both bullish and bearish; and upside
\* down it finds the opposite, although breaks up are always looked for first.
ASSUME StructureIsSound ==
    \A chart \in StructureCharts :
        LET st == Structure(chart, 1, 1)
            mirrored == Structure(Mirrored(chart), 1, 1)
        IN  /\ st.trend = TrendAfterBreaks(chart)
            /\ ~(BullishBias(st) /\ BearishBias(st))
            /\ mirrored.trend = Opposite(st.trend) /\ mirrored.event = Opposite(st.event)

\* A chart whose last close breaks its one swing high.
Rising == <<[o |-> 0, h |-> 1, l |-> 0, c |-> 1], [o |-> 1, h |-> 1, l |-> 0, c |-> 1],
            [o |-> 1, h |-> 2, l |-> 0, c |-> 1], [o |-> 1, h |-> 1, l |-> 0, c |-> 1],
            [o |-> 1, h |-> 1, l |-> 0, c |-> 1], [o |-> 1, h |-> 3, l |-> 1, c |-> 3]>>

Down == [o |-> 4, h |-> 4, l |-> 0, c |-> 0]
Impulse == [o |-> 0, h |-> 8, l |-> 0, c |-> 8]
Return == [o |-> 8, h |-> 8, l |-> 3, c |-> 3]
PinBar == [o |-> 4, h |-> 5, l |-> 0, c |-> 5]
Leap == [o |-> 6, h |-> 12, l |-> 6, c |-> 11]
SignalCharts == [1..4 -> {Down, Impulse, Return, PinBar, Leap}]
                \cup [1..6 -> {Down, Impulse, PinBar, Leap}]

\* signal.py:156 "Mirror of build_signal": a short is taken where a long would
\* be on the chart upside down, at the same risk, for the same reasons.
ASSUME ShortMirrorsLong ==
    \A chart \in SignalCharts, momentum \in BOOLEAN :
        LET others == <<momentum, FALSE, FALSE>>
        IN  BuildSignalShort(Mirrored(Rising), Mirrored(chart), 4, others)
            = BuildSignal(Rising, chart, 4, others)

\* There are such charts, and there momentum decides.
ASSUME SomeSignals ==
    LET chart == <<Down, Impulse, Return, PinBar>>
    IN  /\ BuildSignal(Rising, chart, 4, <<TRUE, FALSE, FALSE>>).eligible
        /\ ~BuildSignal(Rising, chart, 4, <<FALSE, FALSE, FALSE>>).eligible
=============================================================================
