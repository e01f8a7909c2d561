------------------------------ MODULE EngineTick ------------------------------
(***************************************************************************)
(* bot/engine.py and bot/risk.py: what one tick of the engine does with    *)
(* its positions.  A tick goes through the symbols; for each one it looks  *)
(* at the last closed candle, closes positions whose stop it touched or    *)
(* whose structure turned, moves the stops of the others, and opens a      *)
(* position if there is a signal and the risk rules allow it.              *)
(*                                                                         *)
(* Ticks exclude each other (EngineLoop); HTTP handlers may come between   *)
(* two symbols, or between managing and entering.  Prices and money are    *)
(* integers.  The account is abstract: it fills at the price of the candle *)
(* plus slippage, may refuse an order or fill less of it, and charges      *)
(* nothing (PaperBroker and PaperMargin have the details).  Which signals  *)
(* there are is open.  Trades, events and files are written for reports.   *)
(***************************************************************************)
EXTENDS Integers, FiniteSets, Sums

CONSTANTS
    NSymbols,       \* symbols 1..NSymbols, in the order of engine.symbols
    NPos,           \* positions 1..NPos: a bound on the entries per account
    PricesOf,       \* the prices of each symbol
    Atrs,           \* the values of the ATR
    StopDistances,  \* how far a signal puts the stop from the price
    Slips,          \* what slippage may cost per unit when opening
    GridFactors,    \* grid_size_factor, in percent
    Margin,         \* margin_mode: shorts are traded and positions leveraged
    RiskCoef,       \* leverage in margin mode
    RiskPct, MaxExposurePct, MaxPositions,        \* config: risk
    BeRR, PartialRR,                              \* in tenths
    TrailMult,                                    \* in tenths of an ATR
    PartialPct, HalfPct, StopPct,                 \* in percent
    StaleDays, DecayRate,   \* the peak decays by DecayRate/1000 per day after StaleDays
    MaxStale,               \* bound on the days counted
    Capital, Amounts, MaxBalance  \* MaxBalance bounds the deposits

Symbols == 1..NSymbols
PosIds  == 1..NPos
Sides   == {"long", "short"}

ASSUME SizeAssumption == NSymbols \in Nat \ {0} /\ NPos \in Nat
ASSUME PriceAssumption ==
    /\ \A s \in Symbols : PricesOf[s] \subseteq Nat
    /\ Atrs \subseteq Nat /\ Slips \subseteq Nat /\ StopDistances \subseteq Nat
ASSUME RuleAssumption ==
    /\ Margin \in BOOLEAN
    /\ RiskCoef \in Nat \ {0}
    /\ {RiskPct, MaxExposurePct, MaxPositions} \subseteq Nat
    /\ {BeRR, PartialRR, TrailMult, PartialPct, HalfPct, StopPct} \subseteq Nat
    /\ PartialPct <= 100
    /\ GridFactors \subseteq Nat
ASSUME MoneyAssumption ==
    /\ {StaleDays, DecayRate, MaxStale, Capital, MaxBalance} \subseteq Nat
    /\ Amounts \subseteq Nat

VARIABLES
    positions,   \* self.positions
    price,       \* broker._prices
    balance,     \* what the account would hold with every position sold at its entry
    peak,        \* self.peak_equity
    stale,       \* days since self._peak_ts; Unset before the first look
    scan,        \* the symbol the tick is at; 0 between ticks
    managed      \* its positions have been managed, an entry may follow

vars == <<positions, price, balance, peak, stale, scan, managed>>

Position == [state : {"none", "open", "closed"}, sym : Symbols, side : Sides,
             bought : Nat, qty : Nat, entry : Int, stop : Int, atr : Nat, best : Int,
             breakeven : BOOLEAN, partial : BOOLEAN]
NoPosition == [state |-> "none", sym |-> 1, side |-> "long",
               bought |-> 0, qty |-> 0, entry |-> 0, stop |-> 0, atr |-> 0, best |-> 0,
               breakeven |-> FALSE, partial |-> FALSE]

IsOpen(i) == positions[i].state = "open"
Opened == {i \in PosIds : IsOpen(i)}
HasPosition(s) == \E i \in Opened : positions[i].sym = s

Higher(x, y) == IF x > y THEN x ELSE y
Lower(x, y)  == IF x < y THEN x ELSE y
AtLeastZero(x) == Higher(x, 0)

\* The better of two stops, and of two prices, for a side.
Tighter(side, x, y) == IF side = "long" THEN Higher(x, y) ELSE Lower(x, y)

\* What a position gains per unit at a price.
Gain(p, px) == IF p.side = "long" THEN px - p.entry ELSE p.entry - px

-----------------------------------------------------------------------------
(* Equity and drawdown *)

Coef == IF Margin THEN RiskCoef ELSE 1

Equity == balance + SumTo([i \in PosIds |->
    IF IsOpen(i) THEN positions[i].qty * Gain(positions[i], price[positions[i].sym]) ELSE 0], NPos)

\* What open positions keep from the cash: their cost, or their collateral.
Locked(i) == (positions[i].qty * positions[i].entry) \div Coef
Cash == balance - SumTo([i \in PosIds |-> IF IsOpen(i) THEN Locked(i) ELSE 0], NPos)

Unset == -1

\* _drawdown_pct: a peak that is not reached again for long decays, by the
\* whole time since it was set, each time the drawdown is looked at.
Decayed(pk) == (pk * AtLeastZero(1000 - DecayRate * (stale - StaleDays))) \div 1000

PeakAfter(eq) ==
    IF eq <= peak /\ stale > StaleDays THEN Higher(eq, Decayed(peak)) ELSE Higher(eq, peak)

\* Seeded fault: every look restarts the time.
StaleAfterEveryLook(eq) == 0

StaleAfter(eq) == IF eq > peak \/ stale = Unset THEN 0 ELSE stale

DrawdownAtLeast(pct, pk, eq) == pk > 0 /\ (pk - eq) * 100 >= pct * pk

LookAtDrawdown ==
    /\ peak' = PeakAfter(Equity)
    /\ stale' = StaleAfter(Equity)

-----------------------------------------------------------------------------
(* Sizing: RiskManager.size_position *)

\* Exposure of the open positions times the leverage.  Without leverage the
\* units of every symbol are valued at the price of the one to be entered.
Deployed(entry) == SumTo([i \in PosIds |->
    IF ~IsOpen(i) THEN 0
    ELSE positions[i].qty * (IF Coef > 1 THEN positions[i].entry ELSE entry)], NPos)

\* Equity that may be exposed, less what is, both times 100 and the leverage.
Room(eq, entry) == eq * MaxExposurePct * Coef - 100 * Deployed(entry)

Blocked == DrawdownAtLeast(StopPct, peak, Equity)

\* The number of units, or 0 if the risk rules forbid the entry.
SizedQty(eq, pk, entry, dist, gf) ==
    LET halved == IF DrawdownAtLeast(HalfPct, pk, eq) THEN 2 ELSE 1
        byRisk == (eq * RiskPct) \div (100 * dist * halved)
        byRoom == Room(eq, entry) \div (100 * entry)
        byGrid == (eq * gf) \div (100 * entry)
    IN  IF \/ DrawdownAtLeast(StopPct, pk, eq)
           \/ Cardinality(Opened) >= MaxPositions
           \/ Room(eq, entry) <= 0
           \/ dist = 0 \/ entry = 0
        THEN 0
        ELSE AtLeastZero(Lower(byRisk, Lower(byRoom, byGrid)))

-----------------------------------------------------------------------------
(* Open positions: RiskManager.check_stop and manage *)

StopTouched(p, low, high) == IF p.side = "long" THEN low <= p.stop ELSE high >= p.stop

\* The risk that gains are measured by: the stop as it is now, or the ATR at
\* entry when the stop is at the entry.
RiskNow(p) == IF p.stop = p.entry THEN p.atr
              ELSE Higher(p.stop - p.entry, p.entry - p.stop)

RRAtLeast(tenths, p, px) ==
    IF RiskNow(p) = 0 THEN Gain(p, px) > 0 ELSE Gain(p, px) * 10 >= tenths * RiskNow(p)

WithBest(p, px) == [p EXCEPT !.best = Tighter(p.side, @, px)]

\* Seeded fault: the stop of a short is moved like that of a long.
AtBreakevenLong(p, px) ==
    IF ~p.breakeven /\ RRAtLeast(BeRR, p, px)
    THEN [p EXCEPT !.breakeven = TRUE, !.stop = Higher(@, p.entry)]
    ELSE p

AtBreakeven(p, px) ==
    IF ~p.breakeven /\ RRAtLeast(BeRR, p, px)
    THEN [p EXCEPT !.breakeven = TRUE, !.stop = Tighter(p.side, @, p.entry)]
    ELSE p

\* The stop that trails a price.
TrailStop(side, px, atr) ==
    LET distance == (TrailMult * atr) \div 10
    IN  IF side = "long" THEN px - distance ELSE px + distance

\* Seeded fault: the stop follows the ATR both ways.
TrailedBothWays(p, atr) ==
    IF p.breakeven /\ atr > 0
    THEN [p EXCEPT !.stop = TrailStop(p.side, p.best, atr)]
    ELSE p

Trailed(p, atr) ==
    IF p.breakeven /\ atr > 0
    THEN [p EXCEPT !.stop = Tighter(p.side, @, TrailStop(p.side, p.best, atr))]
    ELSE p

PartialOf(qty) == (qty * PartialPct) \div 100

\* Units sold at px because the position has gained enough; at most once.
PartialDue(p, px) == IF ~p.partial /\ RRAtLeast(PartialRR, p, px) THEN PartialOf(p.qty) ELSE 0

AfterPartial(p, px) ==
    [p EXCEPT !.qty = @ - PartialDue(p, px), !.partial = @ \/ RRAtLeast(PartialRR, p, px)]

\* manage() and the sale it asks for.  Gains are measured by the stop as it
\* was, and the units are those before: the two parts of the record that the
\* stop and the partial sale change do not meet.
Managed(p, px, atr) ==
    LET moved == Trailed(AtBreakeven(WithBest(p, px), px), atr)
        sold  == AfterPartial(p, px)
    IN  [moved EXCEPT !.qty = sold.qty, !.partial = sold.partial]

\* Nothing reads the rest of a closed position but reports.
Closed == [NoPosition EXCEPT !.state = "closed"]

-----------------------------------------------------------------------------
(* The tick *)

NextSymbol ==
    /\ scan' = IF scan = NSymbols THEN NSymbols + 1 ELSE scan + 1
    /\ managed' = FALSE

Scanning == scan \in Symbols

\* The exchange may take a margin position: it is liquidated and loses its
\* collateral, or it is too old and is closed at the price.
TakenFor(i, liquidated, px) ==
    IF i \in liquidated THEN -Locked(i) ELSE positions[i].qty * Gain(positions[i], px)

\* _tick_once_inner up to the symbols: margin maintenance takes the positions
\* in `taken`; a spot account has no such thing.
TickBegin(taken, liquidated) ==
    /\ scan = 0
    /\ scan' = 1
    /\ taken # {} => Margin
    /\ positions' = [i \in PosIds |-> IF i \in taken THEN Closed ELSE positions[i]]
    /\ balance' = balance + SumTo([i \in PosIds |->
           IF i \in taken THEN TakenFor(i, liquidated, price[positions[i].sym]) ELSE 0], NPos)
    /\ UNCHANGED <<price, peak, stale, managed>>

\* No candles, too few of them, or an exception.
SkipSymbol ==
    /\ Scanning
    /\ NextSymbol
    /\ UNCHANGED <<positions, price, balance, peak, stale>>

\* set_price, check_price_extremes and _manage_positions on the candle
\* low..high that closed at px: the exchange takes some of the positions of
\* the symbol; `turned` are the sides that the structure or a level speaks
\* against.
Manage(low, px, high, atr, turned, taken, liquidated) ==
    LET mine(i) == IsOpen(i) /\ positions[i].sym = scan
        exits(i) == StopTouched(positions[i], low, high) \/ positions[i].side \in turned
        gained(i) == (IF exits(i) THEN positions[i].qty ELSE PartialDue(positions[i], px))
                       * Gain(positions[i], px)
    IN  /\ Scanning /\ ~managed
        /\ low <= px /\ px <= high
        /\ taken # {} => Margin
        /\ price' = [price EXCEPT ![scan] = px]
        /\ positions' = [i \in PosIds |->
               IF ~mine(i) THEN positions[i]
               ELSE IF i \in taken \/ exits(i) THEN Closed
               ELSE Managed(positions[i], px, atr)]
        /\ balance' = balance + SumTo([i \in PosIds |->
               IF ~mine(i) THEN 0
               ELSE IF i \in taken THEN TakenFor(i, liquidated, px)
               ELSE gained(i)], NPos)
        /\ managed' = TRUE
        /\ UNCHANGED <<peak, stale, scan>>

\* There is no eligible signal, or the symbol has a position.
NoEntry ==
    /\ Scanning /\ managed
    /\ NextSymbol
    /\ UNCHANGED <<positions, price, balance, peak, stale>>

\* The risk rules or the account refuse the entry.
EntryBlocked ==
    /\ Scanning /\ managed /\ ~HasPosition(scan)
    /\ LookAtDrawdown
    /\ NextSymbol
    /\ UNCHANGED <<positions, price, balance>>

\* _try_enter on a signal at the price, the stop `dist` away.  The account
\* may fill fewer units than asked for.
Enter(i, side, dist, gf, slip, qty, atr) ==
    LET px == price[scan]
    IN  /\ Scanning /\ managed /\ ~HasPosition(scan)
        /\ positions[i].state = "none" /\ \A j \in 1..(i - 1) : positions[j].state # "none"
        /\ side = "short" => Margin
        /\ qty \in 1..SizedQty(Equity, PeakAfter(Equity), px, dist, gf)
        /\ positions' = [positions EXCEPT ![i] =
               [state |-> "open", sym |-> scan, side |-> side, bought |-> qty, qty |-> qty,
                entry |-> IF side = "long" THEN px + slip ELSE px - slip,
                stop |-> IF side = "long" THEN px - dist ELSE px + dist,
                atr |-> atr, best |-> IF side = "long" THEN px + slip ELSE px - slip,
                breakeven |-> FALSE, partial |-> FALSE]]
        /\ LookAtDrawdown
        /\ NextSymbol
        /\ UNCHANGED <<price, balance>>

\* The equity point at the end of the tick.
TickEnd ==
    /\ scan = NSymbols + 1
    /\ scan' = 0
    /\ LookAtDrawdown
    /\ UNCHANGED <<positions, price, balance, managed>>

-----------------------------------------------------------------------------
(* Handlers and time *)

\* Funds are moved, by the user or by the other traders' results; the peak
\* is not told.
Deposit(a) ==
    /\ balance + a <= MaxBalance
    /\ balance' = balance + a
    /\ UNCHANGED <<positions, price, peak, stale, scan, managed>>

Withdraw(a) ==
    /\ a <= Cash
    /\ balance' = balance - a
    /\ UNCHANGED <<positions, price, peak, stale, scan, managed>>

\* /api/risk/reset
ResetDrawdown ==
    /\ peak' = Equity
    /\ stale' = 0
    /\ UNCHANGED <<positions, price, balance, scan, managed>>

\* A fresh paper account (/api/paper-mode, /api/paper-balance): the time of
\* the peak is kept.
NewAccount ==
    /\ positions' = [i \in PosIds |-> NoPosition]
    /\ balance' = Capital
    /\ peak' = Capital
    /\ UNCHANGED <<price, stale, scan, managed>>

DayPasses ==
    /\ stale # Unset /\ stale < MaxStale
    /\ stale' = stale + 1
    /\ UNCHANGED <<positions, price, balance, peak, scan, managed>>

Init ==
    /\ positions = [i \in PosIds |-> NoPosition]
    /\ price \in [Symbols -> UNION {PricesOf[s] : s \in Symbols}]
    /\ \A s \in Symbols : price[s] \in PricesOf[s]
    /\ balance = Capital
    /\ peak = Capital
    /\ stale = Unset
    /\ scan = 0
    /\ managed = FALSE

BeginAny ==
    \E taken \in SUBSET Opened : \E liquidated \in SUBSET taken : TickBegin(taken, liquidated)
ManageAny ==
    LET mine == {i \in Opened : positions[i].sym = scan}
    IN  \E low, px, high \in PricesOf[scan], atr \in Atrs, taken \in SUBSET mine,
           turned \in SUBSET {positions[i].side : i \in mine} :
            \E liquidated \in SUBSET taken :
                Manage(low, px, high, atr, turned, taken, liquidated)
EnterAny ==
    \E i \in PosIds, side \in Sides, dist \in StopDistances, gf \in GridFactors,
       slip \in Slips, atr \in Atrs :
        \E qty \in 1..SizedQty(Equity, PeakAfter(Equity), price[scan], dist, gf) :
            Enter(i, side, dist, gf, slip, qty, atr)

Scan == Scanning /\ (SkipSymbol \/ ManageAny \/ NoEntry \/ EntryBlocked \/ EnterAny)
Tick == BeginAny \/ Scan \/ TickEnd
MoveFunds == \E a \in Amounts : Deposit(a) \/ Withdraw(a)

Next == Tick \/ MoveFunds \/ ResetDrawdown \/ NewAccount \/ DayPasses

Spec == Init /\ [][Next]_vars

\* The loop ticks every quarter of an hour, and the days go by.
FairSpec == Spec /\ WF_vars(Tick) /\ WF_vars(DayPasses)

-----------------------------------------------------------------------------
(* Properties *)

\* Types; a tick manages only the symbol it is at.
TickTypeOK ==
    /\ positions \in [PosIds -> Position]
    /\ price \in [Symbols -> Nat] /\ \A s \in Symbols : price[s] \in PricesOf[s]
    /\ balance \in Int
    /\ peak \in Int
    /\ stale \in Nat \cup {Unset}
    /\ scan \in 0..(NSymbols + 1)
    /\ managed \in BOOLEAN
    /\ managed => scan \in Symbols

\* What is no worse a stop for the side.
AsTight(side, new, old) == IF side = "long" THEN new >= old ELSE new <= old

\* The stop of an open position is only ever moved in its favour, whatever
\* the price and the ATR do and whichever rule moves it.
StopsOnlyTighten ==
    [][\A i \in PosIds : IsOpen(i) /\ IsOpen(i)' =>
          AsTight(positions[i].side, positions'[i].stop, positions[i].stop)]_vars

\* A position that has been moved to breakeven cannot lose any more, at the
\* price of its stop: not even one that slippage filled beyond its signal.
BreakevenProtects ==
    \A i \in PosIds : IsOpen(i) /\ positions[i].breakeven =>
        AsTight(positions[i].side, positions[i].stop, positions[i].entry)

\* The comment in _drawdown_pct: the peak decays, so that a drawdown does not
\* block entries forever.
DrawdownUnblocks == []<>~Blocked

\* bot/risk.py, rules implemented: "max 12% of equity deployed", on the spot
\* account whose config.yaml calls it 12% notional.  When a position has been
\* entered, the open ones have not cost more than that.
ExposureCapped ==
    [][(\E i \in PosIds : ~IsOpen(i) /\ IsOpen(i)') =>
         100 * SumTo([i \in PosIds |->
             IF IsOpen(i)' THEN positions'[i].qty * positions'[i].entry ELSE 0], NPos)
           <= MaxExposurePct * Coef * Equity]_vars
=============================================================================
