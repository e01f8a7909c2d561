------------------------------ MODULE Backtest ------------------------------
(***************************************************************************)
(* bot/backtest.py: the simulation of a history, by the rules that         *)
(* EngineTick models, on a paper account of its own.  There are two paths  *)
(* through a history: run_backtest goes through the times and, at each,    *)
(* through the symbols; the fast path, which every backtest of the server  *)
(* takes, goes through the symbols and, for each, through its times.       *)
(*                                                                         *)
(* A time is the close of a candle of the path that comes after those only *)
(* there to warm up.  What the candles say is open, and which signals      *)
(* there are; both are looked at when their time has come.  The metrics    *)
(* made from the report are left out.                                      *)
(***************************************************************************)
EXTENDS EngineTick, FiniteSetsExt

CONSTANTS
    NTimes,        \* times 1..NTimes
    HourTimes,     \* those of them at which an hour closes too
    Cooldown       \* cooldown_bars of the strategy: the fast path observes them

Times == 1..NTimes

ASSUME HistoryAssumption ==
    /\ NTimes \in Nat /\ HourTimes \subseteq Times
    /\ Cooldown \in Nat
    /\ \A s \in Symbols : PricesOf[s] # {}

VARIABLES
    fast,      \* the path
    candles,   \* the times at which each symbol has a candle
    clock,     \* the time simulated
    trade,     \* what is known of each position besides what EngineTick says
    report,    \* the positions that the report is made from
    pricedAt,  \* when the price of each symbol is from
    entered,   \* when each symbol was last entered
    finished

btVars == <<fast, candles, clock, trade, report, pricedAt, entered, finished>>
allVars == <<vars, btVars>>

Never == 0

\* opened: when; how it ended, and the price it got; result: when it last changed
\* the balance; knew: the newest information it was sized by.
NoTrade == [opened |-> Never, how |-> "open", fill |-> 0, pnl |-> 0,
            sold |-> FALSE, result |-> Never, knew |-> Never]

\* Since 1970, where peak_ts begins, every peak has decayed to nothing.
SinceEpoch == StaleDays + 1000

-----------------------------------------------------------------------------
(* The way through the history *)

VisitsOf(c) == {v \in Symbols \X Times : v[2] \in c[v[1]]}
Visits == VisitsOf(candles)

\* Seeded fault: the symbols are simulated one after the other.
RankBySymbol(f, v) == v[1] * (NTimes + 1) + v[2]

Rank(f, v) == IF f THEN v[1] * (NTimes + 1) + v[2] ELSE v[2] * (NSymbols + 1) + v[1]

FirstOf(f, visits) == CHOOSE v \in visits : \A w \in visits : Rank(f, v) <= Rank(f, w)
Ahead == {v \in Visits : Rank(fast, v) > Rank(fast, <<scan, clock>>)}

Simulating == ~finished /\ scan \in Symbols

Advance ==
    /\ scan' = IF Ahead = {} THEN NSymbols + 1 ELSE FirstOf(fast, Ahead)[1]
    /\ clock' = IF Ahead = {} THEN clock ELSE FirstOf(fast, Ahead)[2]
    /\ managed' = FALSE

\* The equity point that ends a time, or a candle of the fast path.
PointNow == fast \/ \A v \in Ahead : v[2] # clock

Point ==
    IF PointNow
    THEN /\ peak' = PeakAfter(Equity')
         /\ stale' = (IF Equity' > peak THEN 0 ELSE stale) + clock' - clock
    ELSE UNCHANGED <<peak, stale>>

\* In the cooldown of its symbol a candle of the fast path ends without one.
CoolingDown == fast /\ entered[scan] # Never /\ clock - entered[scan] < Cooldown

-----------------------------------------------------------------------------
(* Open positions *)

HourCloses == fast \/ clock \in HourTimes

\* Seeded fault: whoever is stopped gets the price of the stop.
ExitPriceOfStop(p, px) == p.stop

\* On the 15m path an exit for whatever reason is filled at the stop or at the
\* close, the worse one; on the fast path there is nothing but the close.
ExitPrice(p, px) ==
    IF fast THEN px
    ELSE IF p.side = "short" THEN Higher(px, p.stop) ELSE Lower(px, p.stop)

\* Seeded fault: the last result is taken for the result of the trade.
BookedLast(t, gain) == [t EXCEPT !.pnl = gain, !.result = clock]

\* What a sale of units of a position adds to its record.
Booked(t, gain) == [t EXCEPT !.pnl = @ + gain, !.result = clock]

\* What tick_maintenance takes: a liquidation overwrites the result.
TakenTrade(i, liquidated) ==
    LET gain == TakenFor(i, liquidated, price'[positions[i].sym])
        t    == IF i \in liquidated THEN [trade[i] EXCEPT !.pnl = gain, !.result = clock]
                ELSE Booked(trade[i], gain)
    IN  [t EXCEPT !.how = IF i \in liquidated THEN "liquidated" ELSE "expired"]

\* set_price, tick_maintenance over all positions, then check_stop, the turn of
\* the structure and manage for those of the symbol, on a candle low..high
\* that closed at px.  The fast path reports nothing of what is taken.
ManageCandle(low, px, high, atr, turned, taken, liquidated) ==
    LET mine(i)  == IsOpen(i) /\ i \notin taken /\ positions[i].sym = scan
        exits(i) == StopTouched(positions[i], low, high) \/ positions[i].side \in turned
        gain(i)  == IF exits(i)
                    THEN positions[i].qty * Gain(positions[i], ExitPrice(positions[i], px))
                    ELSE PartialDue(positions[i], px) * Gain(positions[i], px)
    IN  /\ Simulating /\ ~managed
        /\ low <= px /\ px <= high /\ (fast => low = px /\ high = px)
        /\ turned # {} => HourCloses /\ ~fast
        /\ taken # {} => Margin
        /\ price' = [price EXCEPT ![scan] = px]
        /\ pricedAt' = [pricedAt EXCEPT ![scan] = clock]
        /\ positions' = [i \in PosIds |->
               IF i \in taken \/ (mine(i) /\ exits(i)) THEN Closed
               ELSE IF mine(i) THEN Managed(positions[i], px, IF HourCloses THEN atr ELSE 0)
               ELSE positions[i]]
        /\ trade' = [i \in PosIds |->
               IF i \in taken THEN TakenTrade(i, liquidated)
               ELSE IF ~mine(i) THEN trade[i]
               ELSE IF exits(i)
                    THEN [Booked(trade[i], gain(i)) EXCEPT !.how = "exit", !.fill = ExitPrice(positions[i], px)]
               ELSE IF PartialDue(positions[i], px) > 0
                    THEN [Booked(trade[i], gain(i)) EXCEPT !.sold = TRUE]
               ELSE trade[i]]
        /\ balance' = balance + SumTo([i \in PosIds |->
               IF i \in taken THEN TakenFor(i, liquidated, price'[positions[i].sym])
               ELSE IF mine(i) THEN gain(i) ELSE 0], NPos)
        /\ report' = IF fast THEN report \ taken ELSE report
        /\ managed' = TRUE
        /\ UNCHANGED <<peak, stale, scan, fast, candles, clock, entered, finished>>

-----------------------------------------------------------------------------
(* Entries *)

\* The newest of what the equity is made from: prices and results.
NewestKnown == Max({Never} \cup {pricedAt[positions[j].sym] : j \in Opened}
                           \cup {trade[j].result : j \in PosIds})

\* The drawdown does not count on the fast path, and nothing splits the
\* capital there.
BtSizedQty(px, dist, gf) ==
    IF fast THEN SizedQty(Equity, 0, px, dist, 100) ELSE SizedQty(Equity, peak, px, dist, gf)

\* A signal at the close, with the stop `dist` away.  The account may fill
\* fewer units than asked for.
EnterCandle(i, side, dist, gf, slip, qty, atr) ==
    LET px == price[scan]
        fill == IF side = "long" THEN px + slip ELSE px - slip
    IN  /\ Simulating /\ managed /\ HourCloses /\ ~CoolingDown /\ ~HasPosition(scan)
        /\ positions[i].state = "none" /\ \A j \in 1..(i - 1) : positions[j].state # "none"
        /\ side = "short" => Margin
        /\ qty \in 1..BtSizedQty(px, dist, gf)
        /\ positions' = [positions EXCEPT ![i] =
               [state |-> "open", sym |-> scan, side |-> side, bought |-> qty, qty |-> qty,
                entry |-> fill, stop |-> IF side = "long" THEN px - dist ELSE px + dist,
                atr |-> atr, best |-> fill, breakeven |-> FALSE, partial |-> FALSE]]
        /\ trade' = [trade EXCEPT ![i] = [NoTrade EXCEPT !.opened = clock, !.knew = NewestKnown]]
        /\ report' = report \cup {i}
        /\ entered' = [entered EXCEPT ![scan] = clock]
        /\ UNCHANGED <<price, balance, fast, candles, pricedAt, finished>>
        /\ Advance /\ Point

\* No hour has closed, there is no signal, or no entry comes of it.
NoEntryOnCandle ==
    /\ Simulating /\ managed
    /\ UNCHANGED <<positions, price, balance, fast, candles, trade, report, pricedAt, entered, finished>>
    /\ Advance
    /\ IF CoolingDown THEN UNCHANGED peak /\ stale' = stale + clock' - clock ELSE Point

-----------------------------------------------------------------------------
(* The end *)

\* What is still open is closed at the last price of its symbol.
Finish ==
    LET gain(i) == positions[i].qty * Gain(positions[i], price[positions[i].sym])
    IN  /\ scan = NSymbols + 1 /\ ~finished
        /\ finished' = TRUE
        /\ positions' = [i \in PosIds |-> IF IsOpen(i) THEN Closed ELSE positions[i]]
        /\ trade' = [i \in PosIds |->
               IF IsOpen(i) THEN [Booked(trade[i], gain(i)) EXCEPT !.how = "end"]
               ELSE trade[i]]
        /\ balance' = balance + SumTo([i \in PosIds |-> IF IsOpen(i) THEN gain(i) ELSE 0], NPos)
        /\ UNCHANGED <<price, peak, stale, scan, managed, fast, candles, clock, report, pricedAt, entered>>

-----------------------------------------------------------------------------
\* No backtest has been run.
BtInit ==
    /\ fast = FALSE /\ candles = [s \in Symbols |-> {}]
    /\ scan = NSymbols + 1 /\ clock = Never
    /\ managed = FALSE /\ finished = TRUE
    /\ positions = [i \in PosIds |-> NoPosition]
    /\ trade = [i \in PosIds |-> NoTrade]
    /\ report = {}
    /\ price = [s \in Symbols |-> Min(PricesOf[s])]
    /\ pricedAt = [s \in Symbols |-> Never]
    /\ entered = [s \in Symbols |-> Never]
    /\ balance = Capital /\ peak = Capital /\ stale = SinceEpoch

\* A backtest begins, on candles of which there is at least one.  One backtest
\* is followed.
RunBacktest(f, c) ==
    /\ clock = Never /\ VisitsOf(c) # {}
    /\ fast' = f /\ candles' = c /\ finished' = FALSE
    /\ scan' = FirstOf(f, VisitsOf(c))[1] /\ clock' = FirstOf(f, VisitsOf(c))[2]
    /\ UNCHANGED <<positions, price, balance, peak, stale, managed, trade, report, pricedAt, entered>>

ManageAnyCandle ==
    \E low, px, high \in PricesOf[scan], atr \in Atrs, taken \in SUBSET Opened,
       turned \in SUBSET {positions[i].side : i \in Opened} :
        \E liquidated \in SUBSET taken :
            ManageCandle(low, px, high, atr, turned, taken, liquidated)

EnterOnAnySignal ==
    \E i \in PosIds, side \in Sides, dist \in StopDistances, gf \in GridFactors,
       slip \in Slips, atr \in Atrs :
        \E qty \in 1..BtSizedQty(price[scan], dist, gf) :
            EnterCandle(i, side, dist, gf, slip, qty, atr)

BtNext ==
    \/ Simulating /\ (ManageAnyCandle \/ EnterOnAnySignal \/ NoEntryOnCandle)
    \/ Finish

-----------------------------------------------------------------------------
(* Properties *)

Entered == {i \in PosIds : trade[i].opened # Never}
TakenOnes == {i \in PosIds : trade[i].how \in {"liquidated", "expired"}}
OneSymbol == Cardinality({s \in Symbols : candles[s] # {}}) = 1

\* backtest.py:1 "NO look-ahead bias, guaranteed by construction": the equity
\* that sizes an entry is made from prices and results no newer than the entry.
\* The fast path has to be excepted unless there is only one symbol: it runs
\* the next one on the account that the last one left behind.
NoLookAhead == ~fast \/ OneSymbol => \A i \in Entered : trade[i].knew <= trade[i].opened

\* The trades that are reported explain the money that was made or lost.  Two
\* cases have to be excepted: the fast path forgets what is taken from it, and
\* a liquidation overwrites what a partial sale has brought.
ReportAddsUp ==
    finished /\ ~(fast /\ TakenOnes # {})
             /\ (\A i \in PosIds : ~(trade[i].sold /\ trade[i].how = "liquidated"))
    => SumTo([i \in PosIds |-> IF i \in report THEN trade[i].pnl ELSE 0], NPos) = balance - Capital

\* backtest.py:8 "fills at stop price minus slippage": an exit never gets a
\* better price than its candle closed at, nor, where the stop was touched
\* within the candle, than the stop.
ExitsArePessimistic ==
    [][\A i \in PosIds : IsOpen(i) /\ trade'[i].how = "exit" =>
          LET p == positions[i]
          IN  /\ AsTight(p.side, price'[p.sym], trade'[i].fill)
              /\ ~fast => AsTight(p.side, p.stop, trade'[i].fill)]_allVars

=============================================================================
