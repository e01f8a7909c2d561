--------------------------- MODULE Backtest_proofs ---------------------------
(***************************************************************************)
(* Proofs about the engine's tick, the signals it acts on, the candle      *)
(* files they are made from, and the backtest that goes through such a     *)
(* file by the rules of the tick: the stops, for every set of prices,      *)
(* every ATR, every slippage and every risk configuration; the signals,    *)
(* for every chart of any length; the files, for every number of bars and  *)
(* every size of requests; the simulation, for every history.              *)
(*                                                                         *)
(* The tick and the simulation share their positions and what becomes of   *)
(* one on a candle, hence the one module.                                  *)
(***************************************************************************)
EXTENDS BacktestJob, Signals, Sums_proofs

(***************************************************************************)
(* Part 1.  The engine's tick, and the signals                             *)
(***************************************************************************)

\* A stop at breakeven protects its position.
Protected(p) == p.breakeven => AsTight(p.side, p.stop, p.entry)

\* The inductive invariant.
TickInv == TickTypeOK /\ \A i \in PosIds : Protected(positions[i])

\* What a step may do with the stops.
StopStep == \A i \in PosIds : IsOpen(i) /\ IsOpen(i)' =>
                AsTight(positions[i].side, positions'[i].stop, positions[i].stop)

\* What a step keeps of the positions.
PositionsStep ==
    /\ positions' \in [PosIds -> Position]
    /\ \A i \in PosIds : Protected(positions'[i])
    /\ StopStep

-----------------------------------------------------------------------------
(* Moving a stop *)

\* The tighter of two stops is as tight as both.
LEMMA TighterIsTight ==
  ASSUME NEW side \in Sides, NEW x \in Int, NEW y \in Int
  PROVE  /\ Tighter(side, x, y) \in Int
         /\ AsTight(side, Tighter(side, x, y), x)
         /\ AsTight(side, Tighter(side, x, y), y)
BY DEF Tighter, AsTight, Higher, Lower, Sides

\* Tighter than what is tighter is tighter.
LEMMA TightIsTransitive ==
  ASSUME NEW side \in Sides, NEW x \in Int, NEW y \in Int, NEW z \in Int,
         AsTight(side, x, y), AsTight(side, y, z)
  PROVE  AsTight(side, x, z)
BY DEF AsTight, Sides

\* A stop that trails an integer is an integer.
LEMMA TrailStopType ==
  ASSUME NEW side, NEW px \in Int, NEW atr \in Nat
  PROVE  TrailStop(side, px, atr) \in Int
<1>1. TrailMult \in Nat
  BY RuleAssumption
<1>2. TrailMult * atr \in Nat
  BY <1>1
<1>3. (TrailMult * atr) \div 10 \in Int
  BY <1>2
<1> QED  BY <1>3 DEF TrailStop

\* A part of q units, in percent, is not more than q.
LEMMA PartIsPart ==
  ASSUME NEW q \in Nat, NEW c \in Nat, c <= 100
  PROVE  (q * c) \div 100 \in Nat /\ (q * c) \div 100 <= q
<1> DEFINE y == q * c
<1>1. y \in Nat /\ y <= q * 100
  <2>1. q * 100 = q * c + q * (100 - c)
    OBVIOUS
  <2>2. q * c \in Nat /\ q * (100 - c) \in Nat
    OBVIOUS
  <2> QED  BY <2>1, <2>2
<1> HIDE DEF y
<1>2. y \div 100 \in Nat /\ y \div 100 <= q
  BY <1>1
<1> QED  BY <1>2 DEF y

\* A partial sale leaves no less than nothing.
LEMMA PartialType ==
  ASSUME NEW p \in Position, NEW px
  PROVE  /\ PartialDue(p, px) \in Nat
         /\ p.qty - PartialDue(p, px) \in Nat
<1> DEFINE q == p.qty
           d == PartialOf(q)
<1>1. q \in Nat
  BY DEF Position
<1> HIDE DEF q
<1>2. d \in Nat /\ d <= q
  BY <1>1, PartIsPart, RuleAssumption DEF PartialOf
<1>3. PartialDue(p, px) \in {0, d}
  BY DEF PartialDue, q, d
<1> HIDE DEF d
<1>4. q - PartialDue(p, px) \in Nat /\ PartialDue(p, px) \in Nat
  BY <1>1, <1>2, <1>3
<1> QED  BY <1>4 DEF q

\* Managing a position keeps it well-typed, keeps what it is, tightens its
\* stop and keeps it protected.
LEMMA ManagedType ==
  ASSUME NEW p \in Position, NEW px \in Int, NEW atr \in Nat, Protected(p)
  PROVE  /\ Managed(p, px, atr) \in Position
         /\ Managed(p, px, atr).side = p.side
         /\ AsTight(p.side, Managed(p, px, atr).stop, p.stop)
         /\ Protected(Managed(p, px, atr))
<1> DEFINE b == WithBest(p, px)
           e == AtBreakeven(b, px)
           t == Trailed(e, atr)
           a == AfterPartial(p, px)
<1>1. /\ p.side \in Sides /\ p.best \in Int /\ p.stop \in Int /\ p.entry \in Int
      /\ p.partial \in BOOLEAN /\ p.breakeven \in BOOLEAN
  BY DEF Position
<1>2. /\ b \in Position /\ b.side = p.side /\ b.stop = p.stop /\ b.entry = p.entry
      /\ b.breakeven = p.breakeven
  <2>1. Tighter(p.side, p.best, px) \in Int
    BY <1>1, TighterIsTight
  <2> QED  BY <2>1 DEF WithBest, Position
<1> HIDE DEF b
<1>3. /\ e \in Position /\ e.side = p.side /\ e.entry = p.entry
      /\ AsTight(p.side, e.stop, p.stop) /\ Protected(e)
  <2>1. /\ Tighter(p.side, p.stop, p.entry) \in Int
        /\ AsTight(p.side, Tighter(p.side, p.stop, p.entry), p.stop)
        /\ AsTight(p.side, Tighter(p.side, p.stop, p.entry), p.entry)
    BY <1>1, TighterIsTight
  <2>2. CASE ~b.breakeven /\ RRAtLeast(BeRR, b, px)
    <3>1. e = [b EXCEPT !.breakeven = TRUE, !.stop = Tighter(p.side, p.stop, p.entry)]
      BY <1>2, <2>2 DEF AtBreakeven
    <3>2. /\ e \in Position /\ e.side = p.side /\ e.entry = p.entry
          /\ e.stop = Tighter(p.side, p.stop, p.entry)
      BY <1>2, <2>1, <3>1 DEF Position
    <3>3. AsTight(e.side, e.stop, e.entry)
      BY <2>1, <3>2, Zenon
    <3> QED  BY <2>1, <3>2, <3>3, Zenon DEF Protected
  <2>3. CASE ~(~b.breakeven /\ RRAtLeast(BeRR, b, px))
    <3>1. e = b
      BY <2>3 DEF AtBreakeven
    <3>2. AsTight(p.side, p.stop, p.stop)
      BY <1>1 DEF AsTight
    <3> QED  BY <1>2, <3>1, <3>2 DEF Protected
  <2> QED  BY <2>2, <2>3
<1> HIDE DEF e
<1>4. /\ t \in Position /\ t.side = p.side /\ t.entry = p.entry
      /\ AsTight(p.side, t.stop, p.stop) /\ Protected(t)
  <2>1. e.stop \in Int /\ e.best \in Int /\ e.breakeven \in BOOLEAN
    BY <1>3 DEF Position
  <2> DEFINE s == TrailStop(e.side, e.best, atr)
  <2>2. s \in Int
    BY <2>1, TrailStopType
  <2> HIDE DEF s
  <2>3. /\ Tighter(p.side, e.stop, s) \in Int
        /\ AsTight(p.side, Tighter(p.side, e.stop, s), e.stop)
    BY <1>1, <2>1, <2>2, TighterIsTight
  <2>4. CASE e.breakeven /\ atr > 0
    <3>1. t = [e EXCEPT !.stop = Tighter(p.side, e.stop, s)]
      BY <1>3, <2>4 DEF Trailed, s
    <3>2. /\ t \in Position /\ t.side = p.side /\ t.entry = p.entry
          /\ t.stop = Tighter(p.side, e.stop, s)
      BY <1>3, <2>3, <3>1 DEF Position
    <3>3. AsTight(p.side, t.stop, p.stop)
      BY <1>1, <1>3, <2>1, <2>3, <3>2, TightIsTransitive
    <3>4. AsTight(p.side, e.stop, p.entry)
      BY <1>3, <2>4 DEF Protected
    <3>5. AsTight(p.side, t.stop, p.entry)
      BY <1>1, <2>1, <2>3, <3>2, <3>4, TightIsTransitive
    <3> QED  BY <3>2, <3>3, <3>5 DEF Protected
  <2>5. CASE ~(e.breakeven /\ atr > 0)
    <3>1. t = e
      BY <2>5 DEF Trailed
    <3> QED  BY <1>3, <3>1
  <2> QED  BY <2>4, <2>5
<1> HIDE DEF t
<1>5. a.qty \in Nat /\ a.partial \in BOOLEAN
  <2>1. /\ a.qty = p.qty - PartialDue(p, px)
        /\ a.partial = (p.partial \/ RRAtLeast(PartialRR, p, px))
    BY DEF AfterPartial, Position
  <2>2. a.qty \in Nat
    BY <2>1, PartialType
  <2>3. a.partial \in BOOLEAN
    BY <2>1, Zenon
  <2> QED  BY <2>2, <2>3
<1> HIDE DEF a
<1>6. Managed(p, px, atr) = [t EXCEPT !.qty = a.qty, !.partial = a.partial]
  BY DEF Managed, b, e, t, a
<1> QED  BY <1>4, <1>5, <1>6 DEF Position, Protected

-----------------------------------------------------------------------------
(* Money *)

\* The leverage is a positive number.
LEMMA CoefType == Coef \in Nat \ {0}
BY RuleAssumption DEF Coef

\* What a position has gained, and what it keeps from the cash.
LEMMA WorthType ==
  ASSUME NEW p \in Position, NEW px \in Int, NEW q \in Nat
  PROVE  /\ q * Gain(p, px) \in Int
         /\ (p.qty * p.entry) \div Coef \in Int
<1>1. p.entry \in Int /\ p.qty \in Nat
  BY DEF Position
<1>2. Gain(p, px) \in Int
  BY <1>1 DEF Gain
<1>3. q * Gain(p, px) \in Int
  BY <1>2
<1> DEFINE c == p.qty * p.entry
<1>4. c \in Int
  BY <1>1
<1> HIDE DEF c
<1>5. c \div Coef \in Int
  BY <1>4, CoefType
<1> QED  BY <1>3, <1>5 DEF c

\* The equity is an integer.
LEMMA EquityType ==
  ASSUME TickTypeOK
  PROVE  Equity \in Int
<1> DEFINE f == [i \in PosIds |->
             IF IsOpen(i) THEN positions[i].qty * Gain(positions[i], price[positions[i].sym]) ELSE 0]
<1>1. NPos \in Nat /\ balance \in Int
  BY SizeAssumption DEF TickTypeOK
<1>2. ASSUME NEW i \in PosIds
      PROVE  positions[i].qty * Gain(positions[i], price[positions[i].sym]) \in Int
  <2>1. positions[i] \in Position
    BY DEF TickTypeOK
  <2>2. positions[i].qty \in Nat /\ positions[i].sym \in Symbols
    BY <2>1 DEF Position
  <2>3. price[positions[i].sym] \in Int
    BY <2>2 DEF TickTypeOK
  <2> QED  BY <2>1, <2>2, <2>3, WorthType
<1>3. f \in [1..NPos -> Int]
  BY <1>2 DEF PosIds
<1>4. SumTo(f, NPos) \in Int
  BY <1>1, <1>3, SumInt
<1> QED  BY <1>1, <1>4 DEF Equity

\* The peak stays a number, and its age one of days.
LEMMA PeakType ==
  ASSUME TickTypeOK
  PROVE  PeakAfter(Equity) \in Int /\ StaleAfter(Equity) \in Nat
<1> DEFINE left == AtLeastZero(1000 - DecayRate * (stale - StaleDays))
<1>1. peak \in Int /\ stale \in Nat \cup {-1} /\ Equity \in Int
  BY EquityType DEF TickTypeOK, Unset
<1>2. left \in Int
  <2>1. DecayRate * (stale - StaleDays) \in Int
    BY <1>1, MoneyAssumption
  <2> QED  BY <2>1 DEF AtLeastZero, Higher
<1> HIDE DEF left
<1>3. (peak * left) \div 1000 \in Int
  <2>1. peak * left \in Int
    BY <1>1, <1>2
  <2> QED  BY <2>1
<1>4. Decayed(peak) \in Int
  BY <1>3 DEF Decayed, left
<1> QED  BY <1>1, <1>4 DEF PeakAfter, StaleAfter, Higher, Unset

-----------------------------------------------------------------------------
(* The steps *)

\* A position that was never opened, and one that is closed.
LEMMA EmptyType ==
  /\ NoPosition \in Position /\ Protected(NoPosition) /\ NoPosition.state = "none"
  /\ Closed \in Position /\ Protected(Closed) /\ Closed.state = "closed"
<1>1. 1 \in Symbols /\ "long" \in Sides
  BY SizeAssumption DEF Symbols, Sides
<1>2. /\ NoPosition \in Position /\ NoPosition.breakeven = FALSE
      /\ NoPosition.state = "none"
  BY <1>1 DEF NoPosition, Position
<1>3. /\ Closed \in Position /\ Closed.breakeven = FALSE
      /\ Closed.state = "closed"
  BY <1>2 DEF Closed, Position
<1> QED  BY <1>2, <1>3 DEF Protected

\* Positions that do not change keep what they are to keep.
LEMMA SamePositions ==
  ASSUME TickInv, positions' = positions
  PROVE  PositionsStep
<1>1. \A i \in PosIds : AsTight(positions[i].side, positions[i].stop, positions[i].stop)
  <2> TAKE i \in PosIds
  <2>1. positions[i].stop \in Int
    BY DEF TickInv, TickTypeOK, Position
  <2> QED  BY <2>1 DEF AsTight
<1> QED  BY <1>1 DEF TickInv, TickTypeOK, PositionsStep, StopStep

\* On to the next symbol, or to the end of the tick.
LEMMA NextSymbolType ==
  ASSUME Scanning, NextSymbol
  PROVE  scan' \in 0..(NSymbols + 1) /\ managed' = FALSE
BY SizeAssumption DEF Scanning, NextSymbol, Symbols

\* What is got for a position that is taken is an integer.
LEMMA TakenForType ==
  ASSUME NEW i, positions[i] \in Position, NEW liquidated, NEW px \in Int
  PROVE  TakenFor(i, liquidated, px) \in Int
<1>1. positions[i].qty \in Nat
  BY DEF Position
<1>2. positions[i].qty * Gain(positions[i], px) \in Int /\ Locked(i) \in Int
  BY <1>1, WorthType DEF Locked
<1> QED  BY <1>2 DEF TakenFor

\* Maintenance closes positions and leaves the others alone.
LEMMA TickBeginType ==
  ASSUME TickInv, NEW taken, NEW liquidated, TickBegin(taken, liquidated)
  PROVE  TickInv' /\ StopStep
<1> DEFINE f == [i \in PosIds |->
             IF i \in taken THEN TakenFor(i, liquidated, price[positions[i].sym]) ELSE 0]
<1>1. /\ positions' = [i \in PosIds |-> IF i \in taken THEN Closed ELSE positions[i]]
      /\ balance' = balance + SumTo(f, NPos)
      /\ scan = 0 /\ scan' = 1
      /\ price' = price /\ peak' = peak /\ stale' = stale /\ managed' = managed
  BY DEF TickBegin
<1>2. \A i \in PosIds : positions[i] \in Position /\ Protected(positions[i])
  BY DEF TickInv, TickTypeOK
<1>3. positions' \in [PosIds -> Position] /\ \A i \in PosIds : Protected(positions'[i])
  BY <1>1, <1>2, EmptyType
<1>4. StopStep
  <2> SUFFICES ASSUME NEW i \in PosIds, IsOpen(i)'
               PROVE  AsTight(positions[i].side, positions'[i].stop, positions[i].stop)
    BY DEF StopStep
  <2>1. positions'[i] = positions[i]
    BY <1>1, EmptyType DEF IsOpen
  <2>2. positions[i].stop \in Int
    BY <1>2 DEF Position
  <2> QED  BY <2>1, <2>2 DEF AsTight
<1>5. balance' \in Int
  <2>1. ASSUME NEW i \in PosIds
        PROVE  TakenFor(i, liquidated, price[positions[i].sym]) \in Int
    <3>1. positions[i].sym \in Symbols
      BY <1>2 DEF Position
    <3>2. price[positions[i].sym] \in Int
      BY <3>1 DEF TickInv, TickTypeOK
    <3> QED  BY <1>2, <3>2, TakenForType
  <2>2. f \in [1..NPos -> Int]
    BY <2>1 DEF PosIds
  <2>3. SumTo(f, NPos) \in Int
    BY <2>2, SumInt, SizeAssumption
  <2> HIDE DEF f
  <2> QED  BY <1>1, <2>3 DEF TickInv, TickTypeOK
<1>6. 1 \in 0..(NSymbols + 1) /\ managed = FALSE
  BY <1>1, SizeAssumption DEF TickInv, TickTypeOK, Symbols
<1>7. TickTypeOK'
  BY <1>1, <1>3, <1>5, <1>6 DEF TickInv, TickTypeOK
<1> QED  BY <1>3, <1>4, <1>7 DEF TickInv

\* Every position that a candle does not close is managed or left alone.
LEMMA ManageType ==
  ASSUME TickInv, NEW low, NEW px \in PricesOf[scan], NEW high, NEW atr \in Atrs,
         NEW turned, NEW taken, NEW liquidated,
         Manage(low, px, high, atr, turned, taken, liquidated)
  PROVE  TickInv' /\ StopStep
<1> DEFINE mine(i) == IsOpen(i) /\ positions[i].sym = scan
           exits(i) == StopTouched(positions[i], low, high) \/ positions[i].side \in turned
           sold(i) == IF exits(i) THEN positions[i].qty ELSE PartialDue(positions[i], px)
           f == [i \in PosIds |->
               IF ~mine(i) THEN 0
               ELSE IF i \in taken THEN TakenFor(i, liquidated, px)
               ELSE sold(i) * Gain(positions[i], px)]
<1>1. /\ scan \in Symbols
      /\ price' = [price EXCEPT ![scan] = px]
      /\ \A i \in PosIds : positions'[i] = IF ~mine(i) THEN positions[i]
                                            ELSE IF i \in taken \/ exits(i) THEN Closed
                                            ELSE Managed(positions[i], px, atr)
      /\ positions' = [i \in PosIds |-> positions'[i]]
      /\ balance' = balance + SumTo(f, NPos)
      /\ managed' = TRUE /\ peak' = peak /\ stale' = stale /\ scan' = scan
  BY DEF Manage, Scanning
<1>2. px \in Nat /\ atr \in Nat
  BY <1>1, PriceAssumption
<1>3. \A i \in PosIds : positions[i] \in Position /\ Protected(positions[i])
  BY DEF TickInv, TickTypeOK
<1> HIDE DEF mine, exits
<1>4. ASSUME NEW i \in PosIds
      PROVE  /\ positions'[i] \in Position
             /\ Protected(positions'[i])
             /\ IsOpen(i)' => AsTight(positions[i].side, positions'[i].stop, positions[i].stop)
  <2>1. CASE ~mine(i)
    <3>1. positions'[i] = positions[i] /\ positions[i].stop \in Int
      BY <1>1, <1>3, <2>1 DEF Position
    <3> QED  BY <1>3, <3>1 DEF AsTight
  <2>2. CASE mine(i) /\ (i \in taken \/ exits(i))
    <3>1. positions'[i] = Closed
      BY <1>1, <2>2
    <3> QED  BY <3>1, EmptyType DEF IsOpen
  <2>3. CASE mine(i) /\ ~(i \in taken \/ exits(i))
    <3>1. positions'[i] = Managed(positions[i], px, atr)
      BY <1>1, <2>3
    <3>2. positions[i] \in Position /\ Protected(positions[i]) /\ px \in Int
      BY <1>2, <1>3
    <3>3. /\ Managed(positions[i], px, atr) \in Position
          /\ AsTight(positions[i].side, Managed(positions[i], px, atr).stop, positions[i].stop)
          /\ Protected(Managed(positions[i], px, atr))
      BY <1>2, <3>2, ManagedType
    <3> QED  BY <3>1, <3>3
  <2> QED  BY <2>1, <2>2, <2>3
<1>5. balance' \in Int
  <2>1. ASSUME NEW i \in PosIds PROVE sold(i) * Gain(positions[i], px) \in Int
    <3>1. sold(i) \in Nat
      BY <1>3, PartialType DEF Position
    <3> HIDE DEF sold
    <3> QED  BY <1>2, <1>3, <3>1, WorthType
  <2>2. \A i \in PosIds : TakenFor(i, liquidated, px) \in Int
    BY <1>2, <1>3, TakenForType
  <2>3. f \in [1..NPos -> Int]
    BY <2>1, <2>2 DEF PosIds
  <2>4. SumTo(f, NPos) \in Int
    BY <2>3, SumInt, SizeAssumption
  <2> HIDE DEF f
  <2> QED  BY <1>1, <2>4 DEF TickInv, TickTypeOK
<1>6. /\ price' \in [Symbols -> Nat] /\ \A s \in Symbols : price'[s] \in PricesOf[s]
  BY <1>1, <1>2 DEF TickInv, TickTypeOK
<1>7. positions' \in [PosIds -> Position]
  BY <1>1, <1>4
<1>8. TickTypeOK'
  BY <1>1, <1>5, <1>6, <1>7 DEF TickInv, TickTypeOK
<1> QED  BY <1>4, <1>8 DEF TickInv, StopStep

\* A position is entered with a stop, and is not at breakeven yet.
LEMMA EnterType ==
  ASSUME TickInv, NEW i \in PosIds, NEW side \in Sides, NEW dist \in StopDistances,
         NEW gf, NEW slip \in Slips, NEW atr \in Atrs,
         NEW qty \in 1..SizedQty(Equity, PeakAfter(Equity), price[scan], dist, gf),
         Enter(i, side, dist, gf, slip, qty, atr)
  PROVE  TickInv' /\ StopStep
<1> DEFINE px == price[scan]
           new == [state |-> "open", sym |-> scan, side |-> side, bought |-> qty, qty |-> qty,
                   entry |-> IF side = "long" THEN px + slip ELSE px - slip,
                   stop |-> IF side = "long" THEN px - dist ELSE px + dist,
                   atr |-> atr, best |-> IF side = "long" THEN px + slip ELSE px - slip,
                   breakeven |-> FALSE, partial |-> FALSE]
<1>1. /\ scan \in Symbols /\ Scanning /\ NextSymbol
      /\ positions' = [positions EXCEPT ![i] = new]
      /\ positions[i].state = "none"
      /\ peak' = PeakAfter(Equity) /\ stale' = StaleAfter(Equity)
      /\ price' = price /\ balance' = balance
  BY DEF Enter, Scanning, LookAtDrawdown
<1>2. px \in Nat /\ slip \in Nat /\ dist \in Nat /\ atr \in Nat /\ qty \in Nat
  BY <1>1, PriceAssumption DEF TickInv, TickTypeOK
<1>3. /\ positions \in [PosIds -> Position]
      /\ \A j \in PosIds : Protected(positions[j])
  BY DEF TickInv, TickTypeOK
<1> HIDE DEF px
<1>4. new \in Position /\ Protected(new)
  BY <1>1, <1>2 DEF Position, Protected
<1> HIDE DEF new
<1>5. positions' \in [PosIds -> Position] /\ \A j \in PosIds : Protected(positions'[j])
  BY <1>1, <1>3, <1>4
<1>6. StopStep
  <2> SUFFICES ASSUME NEW j \in PosIds, IsOpen(j)
               PROVE  AsTight(positions[j].side, positions'[j].stop, positions[j].stop)
    BY DEF StopStep
  <2>1. positions'[j] = positions[j]
    BY <1>1, <1>3 DEF IsOpen
  <2>2. positions[j].stop \in Int
    BY <1>3 DEF Position
  <2> QED  BY <2>1, <2>2 DEF AsTight
<1>7. TickTypeOK'
  <2>1. scan' \in 0..(NSymbols + 1) /\ managed' = FALSE
    BY <1>1, NextSymbolType
  <2>2. peak' \in Int /\ stale' \in Nat
    BY <1>1, PeakType DEF TickInv
  <2> QED  BY <1>1, <1>5, <2>1, <2>2 DEF TickInv, TickTypeOK
<1> QED  BY <1>5, <1>6, <1>7 DEF TickInv

\* An engine that has not ticked.
LEMMA TickInitial == Init => TickInv
<1> SUFFICES ASSUME Init PROVE TickInv
  OBVIOUS
<1>1. positions \in [PosIds -> Position] /\ \A i \in PosIds : Protected(positions[i])
  BY EmptyType DEF Init
<1>2. price \in [Symbols -> Nat]
  BY PriceAssumption DEF Init
<1>3. balance \in Int /\ peak \in Int /\ stale = Unset
  BY MoneyAssumption DEF Init
<1>4. scan \in 0..(NSymbols + 1) /\ managed = FALSE
  BY SizeAssumption DEF Init
<1> QED  BY <1>1, <1>2, <1>3, <1>4 DEF Init, TickInv, TickTypeOK

\* Every step of the engine keeps the invariant and the stops.
LEMMA TickStep ==
  ASSUME TickInv, [Next]_vars
  PROVE  TickInv' /\ StopStep
<1>1. CASE UNCHANGED vars
  <2>1. PositionsStep
    BY <1>1, SamePositions DEF vars
  <2> QED  BY <1>1, <2>1 DEF vars, TickInv, TickTypeOK, PositionsStep
<1>2. CASE BeginAny
  BY <1>2, TickBeginType DEF BeginAny
<1>3. CASE Scan
  <2>1. CASE SkipSymbol \/ NoEntry
    <3>1. /\ NextSymbol /\ Scanning
          /\ UNCHANGED <<positions, price, balance, peak, stale>>
      BY <2>1 DEF SkipSymbol, NoEntry
    <3>2. PositionsStep
      BY <3>1, SamePositions
    <3>3. scan' \in 0..(NSymbols + 1) /\ managed' = FALSE
      BY <3>1, NextSymbolType
    <3> QED  BY <3>1, <3>2, <3>3 DEF TickInv, TickTypeOK, PositionsStep
  <2>2. CASE ManageAny
    BY <2>2, ManageType DEF ManageAny
  <2>3. CASE EntryBlocked
    <3>1. PositionsStep
      BY <2>3, SamePositions DEF EntryBlocked
    <3>2. scan' \in 0..(NSymbols + 1) /\ managed' = FALSE
      BY <2>3, NextSymbolType DEF EntryBlocked
    <3>3. peak' \in Int /\ stale' \in Nat
      BY <2>3, PeakType DEF EntryBlocked, LookAtDrawdown, TickInv
    <3> QED  BY <2>3, <3>1, <3>2, <3>3 DEF EntryBlocked, TickInv, TickTypeOK, PositionsStep
  <2>4. CASE EnterAny
    BY <2>4, EnterType DEF EnterAny
  <2> QED  BY <1>3, <2>1, <2>2, <2>3, <2>4 DEF Scan
<1>4. CASE TickEnd
  <2>1. PositionsStep
    BY <1>4, SamePositions DEF TickEnd
  <2>2. peak' \in Int /\ stale' \in Nat
    BY <1>4, PeakType DEF TickEnd, LookAtDrawdown, TickInv
  <2>3. scan' = 0 /\ 0 \in 0..(NSymbols + 1) /\ managed' = FALSE
    BY <1>4, SizeAssumption DEF TickEnd, TickInv, TickTypeOK, Symbols
  <2> QED  BY <1>4, <2>1, <2>2, <2>3 DEF TickEnd, TickInv, TickTypeOK, PositionsStep
<1>5. CASE MoveFunds
  <2>1. /\ UNCHANGED <<positions, price, peak, stale, scan, managed>>
        /\ balance' \in Int
    BY <1>5, MoneyAssumption DEF MoveFunds, Deposit, Withdraw, TickInv, TickTypeOK
  <2>2. PositionsStep
    BY <2>1, SamePositions
  <2> QED  BY <2>1, <2>2 DEF TickInv, TickTypeOK, PositionsStep
<1>6. CASE ResetDrawdown
  <2>1. PositionsStep
    BY <1>6, SamePositions DEF ResetDrawdown
  <2>2. peak' \in Int /\ stale' = 0
    BY <1>6, EquityType DEF ResetDrawdown, TickInv
  <2> QED  BY <1>6, <2>1, <2>2 DEF ResetDrawdown, TickInv, TickTypeOK, PositionsStep
<1>7. CASE NewAccount
  <2>1. PositionsStep
    BY <1>7, EmptyType DEF NewAccount, PositionsStep, StopStep, IsOpen
  <2>2. Capital \in Nat
    BY MoneyAssumption
  <2> QED  BY <1>7, <2>1, <2>2 DEF NewAccount, TickInv, TickTypeOK, PositionsStep
<1>8. CASE DayPasses
  <2>1. PositionsStep
    BY <1>8, SamePositions DEF DayPasses
  <2>2. stale' \in Nat
    BY <1>8 DEF DayPasses, TickInv, TickTypeOK, Unset
  <2> QED  BY <1>8, <2>1, <2>2 DEF DayPasses, TickInv, TickTypeOK, PositionsStep
<1> QED
  BY <1>1, <1>2, <1>3, <1>4, <1>5, <1>6, <1>7, <1>8 DEF Next, Tick

\* The inductive invariant holds in every state.
LEMMA TickInductive == Spec => []TickInv
<1>1. TickInv /\ [Next]_vars => TickInv'
  BY TickStep
<1> QED  BY <1>1, TickInitial, PTL DEF Spec

-----------------------------------------------------------------------------
(* Theorems *)

\* Every record of a position stays well-formed, units and money stay
\* numbers, and the price of a symbol is one that the market had: no partial
\* sale leaves a negative position, and no tick manages outside a symbol.
THEOREM TickTypeCorrect == Spec => []TickTypeOK
<1>1. TickInv => TickTypeOK
  BY DEF TickInv
<1> QED  BY <1>1, TickInductive, PTL

\* A position at breakeven cannot lose at its stop, for every price, ATR and
\* slippage, however often the stop has trailed.
THEOREM BreakevenHolds == Spec => []BreakevenProtects
<1>1. TickInv => BreakevenProtects
  BY DEF TickInv, BreakevenProtects, Protected
<1> QED  BY <1>1, TickInductive, PTL

\* No rule that moves a stop ever loosens it.
THEOREM StopsNeverLoosen == Spec => StopsOnlyTighten
<1>1. TickInv /\ [Next]_vars => [StopStep]_vars
  BY TickStep
<1>2. Spec => [][StopStep]_vars
  BY <1>1, TickInductive, PTL DEF Spec
<1> QED  BY <1>2 DEF StopsOnlyTighten, StopStep

-----------------------------------------------------------------------------
(* The signals, for every chart *)

\* structure.py:3 "a swing is confirmed only after `right` candles close beyond
\* it, so nothing here can look ahead": the next candle neither takes a swing
\* back nor adds one among the candles that were already confirmed.
THEOREM SwingsNeverRepaint ==
    ASSUME NEW chart \in Seq(Candle), NEW k \in Candle, NEW left \in Nat, NEW right \in Nat
    PROVE  LET confirmed == 1..(Len(chart) - right)
           IN  /\ SwingHighs(chart, left, right) =
                      SwingHighs(Append(chart, k), left, right) \cap confirmed
               /\ SwingLows(chart, left, right) =
                      SwingLows(Append(chart, k), left, right) \cap confirmed
<1> DEFINE next == Append(chart, k)
<1>1. Len(chart) \in Nat /\ Len(next) = Len(chart) + 1 /\ \A i \in 1..Len(chart) : next[i] = chart[i]
  OBVIOUS
<1> HIDE DEF next
<1>2. Pivots(chart, left, right) = Pivots(next, left, right) \cap 1..(Len(chart) - right)
  BY <1>1 DEF Pivots
<1>3. ASSUME NEW i \in Pivots(chart, left, right), NEW j \in (i - left)..(i + right)
      PROVE  next[i] = chart[i] /\ next[j] = chart[j]
  <2>1. i \in 1..Len(chart) /\ j \in 1..Len(chart)
    BY <1>1 DEF Pivots
  <2> QED
    BY <2>1, <1>1
<1>4. SwingHighs(chart, left, right) = SwingHighs(next, left, right) \cap 1..(Len(chart) - right)
  BY <1>2, <1>3 DEF SwingHighs
<1>5. SwingLows(chart, left, right) = SwingLows(next, left, right) \cap 1..(Len(chart) - right)
  BY <1>2, <1>3 DEF SwingLows
<1> QED
  BY <1>4, <1>5 DEF next

-----------------------------------------------------------------------------
\* The swings that shorts go by are those of the chart upside down.
THEOREM SwingsMirror ==
    ASSUME NEW chart \in Seq(Candle), NEW left \in Nat, NEW right \in Nat
    PROVE  /\ SwingLows(Mirrored(chart), left, right) = SwingHighs(chart, left, right)
           /\ SwingHighs(Mirrored(chart), left, right) = SwingLows(chart, left, right)
<1>1. Len(chart) \in Nat /\ DOMAIN chart = 1..Len(chart)
  OBVIOUS
<1>2. \A i \in 1..Len(chart) : chart[i] \in Candle
  OBVIOUS
<1>3. Mirrored(chart) \in Seq(Candle) /\ Len(Mirrored(chart)) = Len(chart)
  BY <1>1, <1>2 DEF Mirrored, Mirror, Candle
<1>4. \A i \in 1..Len(chart) : /\ Mirrored(chart)[i].h = -chart[i].l
                               /\ Mirrored(chart)[i].l = -chart[i].h
                               /\ chart[i].h \in Int /\ chart[i].l \in Int
  BY <1>1, <1>2 DEF Mirrored, Mirror, Candle
<1>5. ASSUME NEW i \in Pivots(chart, left, right), NEW j \in (i - left)..(i + right)
      PROVE  i \in 1..Len(chart) /\ j \in 1..Len(chart)
  BY <1>1 DEF Pivots
<1>6. Pivots(Mirrored(chart), left, right) = Pivots(chart, left, right)
  BY <1>3 DEF Pivots
<1> HIDE DEF Mirrored
<1>7. ASSUME NEW i \in Pivots(chart, left, right), NEW j \in (i - left)..(i + right)
      PROVE  /\ Mirrored(chart)[i].l <= Mirrored(chart)[j].l <=> chart[i].h >= chart[j].h
             /\ Mirrored(chart)[i].h >= Mirrored(chart)[j].h <=> chart[i].l <= chart[j].l
  <2>1. i \in 1..Len(chart) /\ j \in 1..Len(chart)
    BY <1>5
  <2>2. ASSUME NEW x \in Int, NEW y \in Int PROVE -x <= -y <=> x >= y
    OBVIOUS
  <2>3. /\ Mirrored(chart)[i].l = -chart[i].h /\ Mirrored(chart)[j].l = -chart[j].h
        /\ chart[i].h \in Int /\ chart[j].h \in Int
    BY <1>4, <2>1
  <2>4. /\ Mirrored(chart)[i].h = -chart[i].l /\ Mirrored(chart)[j].h = -chart[j].l
        /\ chart[i].l \in Int /\ chart[j].l \in Int
    BY <1>4, <2>1
  <2>5. Mirrored(chart)[i].l <= Mirrored(chart)[j].l <=> chart[i].h >= chart[j].h
    BY <2>2, <2>3
  <2>6. -chart[j].l <= -chart[i].l <=> chart[j].l >= chart[i].l
    BY <2>2, <2>4
  <2>7. Mirrored(chart)[i].h >= Mirrored(chart)[j].h <=> chart[i].l <= chart[j].l
    BY <2>4, <2>6
  <2> QED
    BY <2>5, <2>7
<1> QED
  BY <1>6, <1>7 DEF SwingHighs, SwingLows

-----------------------------------------------------------------------------
(* Candle patterns: falling ones are the mirror images of rising ones *)

\* A mirrored candle has its body where it was, and its wicks swapped.
LEMMA MirrorShape ==
    ASSUME NEW k \in Candle
    PROVE  /\ Mirror(k) \in Candle
           /\ IsBear(Mirror(k)) <=> IsBull(k)
           /\ IsBull(Mirror(k)) <=> IsBear(k)
           /\ Top(Mirror(k)) = -Bottom(k)
           /\ Bottom(Mirror(k)) = -Top(k)
           /\ Body(Mirror(k)) = Body(k)
           /\ UpperWick(Mirror(k)) = LowerWick(k)
           /\ LowerWick(Mirror(k)) = UpperWick(k)
           /\ Body(k) \in Nat /\ Top(k) \in Int /\ Bottom(k) \in Int
           /\ Mirror(k).o = -k.o /\ Mirror(k).c = -k.c
           /\ k.o \in Int /\ k.c \in Int
BY DEF Candle, Mirror, IsBear, IsBull, Top, Bottom, Body, UpperWick, LowerWick

\* An engulfing candle is mirrored into the other one.
LEMMA EngulfingMirror ==
    ASSUME NEW a \in Candle, NEW b \in Candle
    PROVE  BearishEngulfing(Mirror(a), Mirror(b)) <=> BullishEngulfing(a, b)
<1>1. /\ Mirror(b).o >= Mirror(a).c <=> b.o <= a.c
      /\ Mirror(b).c <= Mirror(a).o <=> b.c >= a.o
  BY MirrorShape
<1> QED
  BY <1>1, MirrorShape DEF BearishEngulfing, BullishEngulfing

\* So is a pin bar,
LEMMA PinbarMirror ==
    ASSUME NEW k \in Candle
    PROVE  BearishPinbar(Mirror(k)) <=> BullishPinbar(k)
BY MirrorShape DEF BearishPinbar, BullishPinbar

\* and so is a star.
LEMMA StarMirror ==
    ASSUME NEW a \in Candle, NEW b \in Candle, NEW k \in Candle
    PROVE  EveningStar(Mirror(a), Mirror(b), Mirror(k)) <=> MorningStar(a, b, k)
<1>1. /\ Bottom(Mirror(b)) > Top(Mirror(a)) <=> Top(b) < Bottom(a)
      /\ 2 * Mirror(k).c <= Mirror(a).o + Mirror(a).c <=> 2 * k.c >= a.o + a.c
  BY MirrorShape
<1> QED
  BY <1>1, MirrorShape DEF EveningStar, MorningStar

\* A hammer and a shooting star are pin bars with a past, so that they add
\* nothing to the patterns that a signal asks for.
LEMMA HammerIsPinbar ==
    /\ \A window, k : Hammer(window, k) => BullishPinbar(k)
    /\ \A window, k : ShootingStar(window, k) => BearishPinbar(k)
BY DEF Hammer, BullishPinbar, ShootingStar, BearishPinbar

\* patterns.py:87: the patterns for shorts, written out a second time, are the
\* bullish ones upside down.  That the two tolerances near a low and a high are
\* not (0.5 percent of the price) makes no difference: a hammer is a pin bar.
THEOREM BearishPatternsMirror ==
    ASSUME NEW chart \in Seq(Candle)
    PROVE  AnyBearish(Mirrored(chart)) <=> AnyBullish(chart)
<1> DEFINE n == Len(chart)
           m == Mirrored(chart)
<1>1. n \in Nat /\ DOMAIN chart = 1..n /\ \A i \in 1..n : chart[i] \in Candle
  OBVIOUS
<1>2. Len(m) = n /\ \A i \in 1..n : m[i] = Mirror(chart[i])
  BY <1>1 DEF Mirrored, Mirror, Candle
<1>3. AnyBullish(chart) <=> \/ n >= 3 /\ MorningStar(chart[n - 2], chart[n - 1], chart[n])
                            \/ n >= 2 /\ BullishEngulfing(chart[n - 1], chart[n])
                            \/ n >= 1 /\ BullishPinbar(chart[n])
  BY <1>1, HammerIsPinbar DEF AnyBullish, HammerLookback
<1>4. AnyBearish(m) <=> \/ n >= 3 /\ EveningStar(m[n - 2], m[n - 1], m[n])
                        \/ n >= 2 /\ BearishEngulfing(m[n - 1], m[n])
                        \/ n >= 1 /\ BearishPinbar(m[n])
  BY <1>1, <1>2, HammerIsPinbar DEF AnyBearish, HammerLookback
<1> HIDE DEF n, m
<1>5. n >= 3 => (EveningStar(m[n - 2], m[n - 1], m[n]) <=> MorningStar(chart[n - 2], chart[n - 1], chart[n]))
  <2> HAVE n >= 3
  <2>1. {n - 2, n - 1, n} \subseteq 1..n
    BY <1>1
  <2> QED
    BY <2>1, <1>1, <1>2, StarMirror
<1>6. n >= 2 => (BearishEngulfing(m[n - 1], m[n]) <=> BullishEngulfing(chart[n - 1], chart[n]))
  <2> HAVE n >= 2
  <2>1. {n - 1, n} \subseteq 1..n
    BY <1>1
  <2> QED
    BY <2>1, <1>1, <1>2, EngulfingMirror
<1>7. n >= 1 => (BearishPinbar(m[n]) <=> BullishPinbar(chart[n]))
  BY <1>1, <1>2, PinbarMirror
<1> QED
  BY <1>3, <1>4, <1>5, <1>6, <1>7 DEF m

-----------------------------------------------------------------------------
\* The absolute value is a natural number.
LEMMA AbsType == ASSUME NEW n \in Int PROVE Abs(n) \in Nat
BY DEF Abs

\* signal.py:93 "just below nearest support if tighter-but-valid": whatever
\* levels there are, a stop is 0.55 to 1.75 ATR away, 1.5 of them without a
\* level.  So it may be farther than that, stop_max_atr (4) never refuses one,
\* and what stop_min_atr (0.8) refuses is a stop that a level has drawn near.
THEOREM StopsAreNear ==
    ASSUME NEW atr \in Nat \ {0}, NEW levels \in SUBSET Int, NEW px \in Int
    PROVE  LET risk == RiskOf(atr, levels, px)
           IN  /\ risk \in Nat
               /\ 5 * risk >= 11 * atr /\ risk <= 7 * atr
               /\ StopOk(risk, atr) <=> 10 * risk >= 32 * atr
<1> DEFINE away(x) == Abs(2 * px - x)
           close == {m \in levels : away(m) < 3 * atr /\ 10 * away(m) >= 6 * atr}
           risk == RiskOf(atr, levels, px)
<1>1. risk \in Nat /\ 5 * risk >= 11 * atr /\ risk <= 7 * atr
  <2>1. CASE close = {}
    <3>1. risk = 6 * atr
      BY <2>1 DEF RiskOf
    <3> QED
      BY <3>1
  <2>2. CASE close # {}
    <3> DEFINE m == CHOOSE x \in close : TRUE
    <3>1. risk = 2 * away(m) + atr
      BY <2>2 DEF RiskOf
    <3>2. m \in close
      BY <2>2
    <3> HIDE DEF m
    <3>3. away(m) \in Nat
      <4>1. m \in Int /\ 2 * px - m \in Int
        BY <3>2
      <4> QED
        BY <4>1, AbsType
    <3>4. away(m) < 3 * atr /\ 10 * away(m) >= 6 * atr
      BY <3>2
    <3> HIDE DEF away
    <3> QED
      BY <3>1, <3>3, <3>4
  <2> QED
    BY <2>1, <2>2
<1> HIDE DEF risk
<1>2. StopOk(risk, atr) <=> 10 * risk >= 32 * atr
  BY <1>1 DEF StopOk
<1> QED
  BY <1>1, <1>2 DEF risk

-----------------------------------------------------------------------------
\* A candle closes within its range.
WellFormed(k) == k.l <= k.c /\ k.c <= k.h

\* structure.py:68: the walk asks each close for a break up and then, on the
\* trend that has made, for a break down.  Where the last high lies below the
\* last low, and one close could be both, the first close after the swings is
\* beyond one of them and not the other: it uses that one up.
THEOREM OneBreakAtATime ==
    ASSUME NEW chart \in Seq(Candle), \A i \in 1..Len(chart) : WellFormed(chart[i]),
           NEW left \in Nat, NEW right \in Nat \ {0},
           NEW i \in SwingHighs(chart, left, right), NEW j \in SwingLows(chart, left, right),
           chart[i].h < chart[j].l,
           NEW n \in Nat, n = (IF i > j THEN i ELSE j) + 1
    PROVE  \/ chart[n].c > chart[i].h /\ ~(chart[n].c < chart[j].l)
           \/ chart[n].c < chart[j].l /\ ~(chart[n].c > chart[i].h)
<1>1. Len(chart) \in Nat /\ \A x \in 1..Len(chart) : chart[x] \in Candle
  OBVIOUS
<1>2. i \in 1..Len(chart) /\ j \in 1..Len(chart) /\ n \in 1..Len(chart)
  BY <1>1 DEF SwingHighs, SwingLows, Pivots
<1>3. /\ {chart[i].h, chart[i].l, chart[j].h, chart[j].l} \subseteq Int
      /\ {chart[n].h, chart[n].l, chart[n].c} \subseteq Int
  BY <1>1, <1>2 DEF Candle
<1>4. chart[n].l <= chart[n].c /\ chart[n].c <= chart[n].h
  BY <1>2 DEF WellFormed
<1>5. CASE i > j
  <2>1. n \in (i - left)..(i + right)
    BY <1>1, <1>2, <1>5
  <2>2. chart[i].h >= chart[n].h
    BY <2>1 DEF SwingHighs
  <2> QED
    BY <2>2, <1>3, <1>4
<1>6. CASE ~(i > j)
  <2>1. n \in (j - left)..(j + right)
    BY <1>1, <1>2, <1>6
  <2>2. chart[j].l <= chart[n].l
    BY <2>1 DEF SwingLows
  <2> QED
    BY <2>2, <1>3, <1>4
<1> QED
  BY <1>5, <1>6

(***************************************************************************)
(* Part 2.  The candle files                                               *)
(***************************************************************************)

-----------------------------------------------------------------------------
(* Least and greatest elements *)

\* A set of naturals has a least element.
LEMMA LeastElement ==
  ASSUME NEW S, S \subseteq Nat, S # {}
  PROVE  Min(S) \in S /\ \A y \in S : Min(S) <= y
<1>2. \E x \in S : \A y \in S : ~(<<y, x>> \in OpToRel(<, Nat))
  BY NatLessThanWellFounded, WFMin
<1>3. PICK x \in S : \A y \in S : ~(y < x)
  BY <1>2 DEF OpToRel
<1>4. \A y \in S : x =< y
  BY <1>3
<1> QED  BY <1>4 DEF Min

\* A set of integers that is bounded has a greatest one.
LEMMA GreatestElement ==
  ASSUME NEW S, S \subseteq Int, S # {}, NEW n \in Int, \A x \in S : x <= n
  PROVE  Max(S) \in S /\ \A y \in S : Max(S) >= y
<1> DEFINE T == {n - x : x \in S}
<1>1. T \subseteq Nat /\ T # {}
  <2>1. \A x \in S : n - x \in Nat
    OBVIOUS
  <2>2. \E x \in S : n - x \in T
    OBVIOUS
  <2> QED  BY <2>1, <2>2
<1>2. Min(T) \in T /\ \A y \in T : Min(T) <= y
  <2> HIDE DEF T
  <2> QED  BY <1>1, LeastElement
<1>3. PICK x \in S : Min(T) = n - x
  BY <1>2
<1>4. \A y \in S : x >= y
  <2> SUFFICES ASSUME NEW y \in S PROVE x >= y
    OBVIOUS
  <2>1. n - y \in T
    OBVIOUS
  <2>2. n - x <= n - y
    BY <1>2, <1>3, <2>1
  <2> QED  BY <2>2
<1> QED  BY <1>4 DEF Max

\* The last of an interval.
LEMMA LastOfInterval ==
  ASSUME NEW a \in Int, NEW b \in Int, a <= b
  PROVE  Max(a..b) = b
<1>1. Max(a..b) \in a..b /\ \A y \in a..b : Max(a..b) >= y
  <2>1. a..b \subseteq Int /\ a..b # {} /\ \A x \in a..b : x <= b
    OBVIOUS
  <2> QED  BY <2>1, GreatestElement
<1> QED  BY <1>1

\* The greater of two.
LEMMA MaxOfTwo ==
  ASSUME NEW a \in Int, NEW b \in Int
  PROVE  Max({a, b}) \in {a, b} /\ Max({a, b}) >= a /\ Max({a, b}) >= b
<1>1. CASE a <= b
  <2>1. {a, b} \subseteq Int /\ {a, b} # {} /\ \A x \in {a, b} : x <= b
    BY <1>1
  <2> QED  BY <2>1, GreatestElement
<1>2. CASE b <= a
  <2>1. {a, b} \subseteq Int /\ {a, b} # {} /\ \A x \in {a, b} : x <= a
    BY <1>2
  <2> QED  BY <2>1, GreatestElement
<1> QED  BY <1>1, <1>2

\* The lesser of two.
LEMMA MinOfTwo ==
  ASSUME NEW a \in Int, NEW b \in Int
  PROVE  Min({a, b}) \in {a, b} /\ Min({a, b}) <= a /\ Min({a, b}) <= b
<1>1. CASE a <= b
  <2>1. a \in {a, b} /\ \A y \in {a, b} : a <= y
    BY <1>1
  <2> QED  BY <2>1 DEF Min
<1>2. CASE b <= a
  <2>1. b \in {a, b} /\ \A y \in {a, b} : b <= y
    BY <1>2
  <2> QED  BY <2>1 DEF Min
<1> QED  BY <1>1, <1>2

\* The least of three.
LEMMA MinOfThree ==
  ASSUME NEW a \in Int, NEW b \in Int, NEW c \in Int
  PROVE  Min({a, b, c}) \in {a, b, c}
<1>1. \E x \in {a, b, c} : \A y \in {a, b, c} : x <= y
  <2>1. CASE a <= b /\ a <= c
    BY <2>1
  <2>2. CASE b <= a /\ b <= c
    BY <2>2
  <2>3. CASE c <= a /\ c <= b
    BY <2>3
  <2> QED  BY <2>1, <2>2, <2>3
<1> QED  BY <1>1 DEF Min

\* A finite set of naturals has a greatest element.
LEMMA FiniteHasGreatest ==
  ASSUME NEW S, IsFiniteSet(S), S \subseteq Nat, S # {}
  PROVE  \E m \in S : \A x \in S : x <= m
<1> DEFINE Q == {T \in SUBSET S : T # {} => \E m \in T : \A x \in T : x <= m}
<1>1. ASSUME NEW T \in SUBSET S, \A x \in T : T \ {x} \in Q PROVE T \in Q
  <2> SUFFICES ASSUME T # {} PROVE \E m \in T : \A x \in T : x <= m
    OBVIOUS
  <2>1. PICK y \in T : TRUE
    OBVIOUS
  <2>2. CASE T \ {y} = {}
    <3>1. \A x \in T : x = y
      BY <2>2
    <3> QED  BY <3>1
  <2>3. CASE T \ {y} # {}
    <3>1. PICK m \in T \ {y} : \A x \in T \ {y} : x <= m
      BY <1>1, <2>3
    <3>2. m \in Nat /\ y \in Nat /\ \A x \in T : x \in Nat
      OBVIOUS
    <3>3. CASE y <= m
      <4>1. \A x \in T : x <= m
        BY <3>1, <3>3
      <4> QED  BY <4>1
    <3>4. CASE m <= y
      <4>1. \A x \in T : x <= y
        <5> TAKE x \in T
        <5>1. x = y \/ x <= m
          BY <3>1
        <5> QED  BY <5>1, <3>2, <3>4
      <4> QED  BY <4>1
    <3> QED  BY <3>2, <3>3, <3>4
  <2> QED  BY <2>2, <2>3
<1> HIDE DEF Q
<1>2. \A T \in SUBSET S : T \in Q
  BY <1>1, SubsetInduction
<1>3. S \in Q
  BY <1>2
<1> QED  BY <1>3 DEF Q

\* The newest k candles are k, or all there are.
LEMMA NewestAreEnough ==
  ASSUME NEW S, S \subseteq Nat, IsFiniteSet(S), NEW k \in Nat, NEW n \in Nat,
         n <= k, n <= Cardinality(S)
  PROVE  n <= Cardinality({b \in S : Cardinality({c \in S : c > b}) < k})
<1> DEFINE After(b) == {c \in S : c > b}
           T == {b \in S : Cardinality(After(b)) < k}
<1> SUFFICES n <= Cardinality(T)
  OBVIOUS
<1>0. T \subseteq S /\ IsFiniteSet(T) /\ Cardinality(T) \in Nat
  BY FS_Subset, FS_CardinalityType
<1>1. CASE T = S
  BY <1>1
<1>2. CASE T # S
  <2>1. PICK m \in Nat : \A x \in S : x <= m
    <3>1. CASE S = {}
      BY <3>1
    <3>2. CASE S # {}
      <4>1. \E m \in S : \A x \in S : x <= m
        BY <3>2, FiniteHasGreatest
      <4> QED  BY <4>1
    <3> QED  BY <3>1, <3>2
  <2> DEFINE O == S \ T
             b == Max(O)
  <2>2. O \subseteq Int /\ O # {} /\ \A x \in O : x <= m
    <3> HIDE DEF T
    <3>1. \E x \in S : x \notin T
      BY <1>0, <1>2
    <3>2. O \subseteq S /\ O # {}
      BY <3>1
    <3> HIDE DEF O
    <3>3. \A x \in O : x \in Nat /\ x <= m
      BY <3>2, <2>1
    <3> QED  BY <3>2, <3>3
  <2>3. b \in O /\ \A y \in O : b >= y
    <3> HIDE DEF O
    <3>1. m \in Int
      OBVIOUS
    <3> QED  BY <3>1, <2>2, GreatestElement
  <2> HIDE DEF b
  <2>4. After(b) \subseteq T
    <3> SUFFICES ASSUME NEW c \in S, c > b, c \notin T PROVE FALSE
      OBVIOUS
    <3>1. c \in O /\ b >= c
      BY <2>3
    <3>2. b \in Nat /\ c \in Nat
      BY <2>3
    <3> QED  BY <3>1, <3>2
  <2>5. Cardinality(After(b)) \in Nat /\ ~(Cardinality(After(b)) < k)
    <3>1. IsFiniteSet(After(b))
      BY FS_Subset
    <3> QED  BY <3>1, <2>3, FS_CardinalityType
  <2>6. Cardinality(After(b)) <= Cardinality(T)
    <3> HIDE DEF After, T
    <3> QED  BY <2>4, <1>0, FS_Subset
  <2> HIDE DEF After, T
  <2> QED  BY <1>0, <2>5, <2>6
<1> QED  BY <1>1, <1>2
-----------------------------------------------------------------------------
(* The files: the invariant *)

\* Histories, and what the three who use the file know.
Candles == [Bars -> {"none", "forming", "final"}]
Engines == [pc : {"off", "idle", "again", "asked"}, at : Nat, ans : SUBSET Int,
            current : BOOLEAN, behind : BOOLEAN]
Jobs == [pc : {"off", "idle", "check", "read", "ask", "write", "gate", "load"},
         for : {"none", "run", "walk", "download", "script"}, at : Nat, from : Nat,
         cursor : Int, all : Candles, last : Int, skipped : BOOLEAN, behind : BOOLEAN]
Fills == [pc : {"off", "idle", "ask", "write"}, to : Int, cursor : Int, all : Candles,
          behind : BOOLEAN]

\* The candles taken of bars that had ended.
Finals(c) == {b \in Bars : c[b] = "final"}

\* Types; every copy of the file is one.
CandleTypes ==
    /\ now \in Bars /\ now >= Start
    /\ file \in Candles /\ memory \in Candles
    /\ eng \in Engines /\ job \in Jobs /\ fill \in Fills
    /\ busy \in BOOLEAN

\* What counts as final was taken of a bar that has ended.
EndedInv == \A c \in {file, memory, job.all, fill.all} : \A b \in Finals(c) : b < now

\* An answer has no bar that had not begun when it was asked for.
AskedInv ==
    /\ eng.at <= now /\ \A b \in eng.ans : b <= eng.at
    /\ job.at <= now

\* A download has every bar from where it began to where the data stopped.
WholeInv ==
    job.pc \in {"ask", "write"} /\ ~job.skipped =>
        /\ job.from..job.last \subseteq In(job.all)
        /\ job.pc = "ask" => job.cursor = job.last + 1

\* A copy that nobody has written behind has what the file has.
DepthInv ==
    /\ eng.pc # "off" /\ ~eng.behind => Finals(file) \subseteq In(memory)
    /\ job.pc \in {"ask", "write"} /\ ~job.behind => In(file) \subseteq In(job.all)
    /\ fill.pc \in {"ask", "write"} /\ ~fill.behind => In(file) \subseteq In(fill.all)

\* The inductive invariant of the files.
CandleInv == CandleTypes /\ EndedInv /\ AskedInv /\ WholeInv /\ DepthInv

-----------------------------------------------------------------------------
(* Candles *)

\* What the constants are.
LEMMA TimeFacts ==
  /\ {Start, LastNow, Need, Tolerance, Overlap, Chunk, Keep} \subseteq Nat
  /\ Need <= Start + 1 /\ Start <= LastNow /\ Chunk > 0
  /\ Bars = 0..LastNow /\ Bars \subseteq Nat /\ IsFiniteSet(Bars)
<1>1. LastNow \in Int /\ 0 \in Int
  BY CandleAssumption
<1>2. IsFiniteSet(0..LastNow)
  BY <1>1, FS_Interval
<1> QED  BY <1>2, CandleAssumption DEF Bars

\* The first of the bars that a job is to have.
LEMMA FirstFacts ==
  ASSUME CandleTypes
  PROVE  First \in Nat /\ First <= now + 1
<1>1. now \in Nat /\ now >= Start /\ Need \in Nat /\ Start \in Nat /\ Need <= Start + 1
  BY TimeFacts DEF CandleTypes
<1> QED  BY <1>1 DEF First

\* The bars of a history.
LEMMA InFacts ==
  ASSUME NEW c \in Candles
  PROVE  /\ In(c) \subseteq Bars /\ In(c) \subseteq Nat /\ IsFiniteSet(In(c)) /\ Depth(c) \in Nat
         /\ Finals(c) \subseteq In(c) /\ IsFiniteSet(Finals(c))
<1>1. In(c) \subseteq Bars /\ In(c) \subseteq Nat /\ Finals(c) \subseteq In(c)
  BY TimeFacts DEF In, Finals
<1>2. IsFiniteSet(In(c))
  BY <1>1, TimeFacts, FS_Subset
<1>3. Depth(c) \in Nat
  BY <1>2, FS_CardinalityType DEF Depth
<1>4. IsFiniteSet(Finals(c))
  BY <1>1, <1>2, FS_Subset
<1> QED  BY <1>1, <1>2, <1>3, <1>4

\* No candles, those of ended bars, and some put over others.
LEMMA NoCandlesFacts ==
  NoCandles \in Candles /\ In(NoCandles) = {} /\ Finals(NoCandles) = {}
BY DEF NoCandles, Candles, In, Finals

\* A history without the candle that still forms.
LEMMA ClosedFacts ==
  ASSUME NEW c \in Candles
  PROVE  /\ ClosedOf(c) \in Candles /\ Finals(ClosedOf(c)) \subseteq Finals(c)
         /\ (\A b \in Finals(c) : b < now) => Finals(c) \subseteq In(ClosedOf(c))
         /\ \A b \in Bars : ClosedOf(c)[b] = "forming" => b < now /\ c[b] = "forming"
BY DEF ClosedOf, Candles, Finals, In

\* A history with the candles of an answer.
LEMMA WithFacts ==
  ASSUME NEW c \in Candles, NEW bars, NEW at
  PROVE  /\ With(c, bars, at) \in Candles
         /\ In(With(c, bars, at)) = In(c) \cup (bars \cap Bars)
         /\ \A b \in Finals(With(c, bars, at)) : b \in Finals(c) \/ b < at
         /\ \A b \in Bars : With(c, bars, at)[b] = "forming" =>
                c[b] = "forming" \/ (b \in bars /\ ~(b < at))
BY DEF With, Candles, Finals, In

\* What the exchange sends: a run of bars from the one asked for, or nothing.
LEMMA SentFacts ==
  ASSUME NEW lo, NEW hi \in Int, NEW got \in Sent(lo, hi)
  PROVE  /\ got \subseteq Int /\ \A b \in got : b <= hi
         /\ got # {} => \E m \in Int : got = lo..m /\ lo <= m /\ m <= hi
<1>1. CASE got = {}
  BY <1>1
<1>2. CASE got # {}
  <2>1. PICK m \in lo..hi : got = lo..m
    BY <1>2 DEF Sent
  <2>2. m \in Int /\ lo <= m /\ m <= hi
    BY <2>1
  <2>3. \A b \in got : b \in Int /\ b <= m
    BY <2>1
  <2> QED  BY <2>1, <2>2, <2>3
<1> QED  BY <1>1, <1>2

-----------------------------------------------------------------------------
(* The engine *)

\* The engine asks, or gives up: only what it knows of its request changes.
EngineMoves ==
    /\ UNCHANGED <<now, file, memory, job, fill, busy>>
    /\ eng' \in Engines /\ eng'.behind = eng.behind /\ eng.pc # "off"
    /\ eng'.at <= now /\ \A b \in eng'.ans : b <= eng'.at

\* The engine fetches or waits, and writes nothing.
LEMMA EngineMovesKeeps ==
  ASSUME CandleInv, EngineMoves
  PROVE  CandleInv'
<1>1. CandleTypes'
  BY DEF CandleInv, EngineMoves, CandleTypes
<1>2. EndedInv'
  BY DEF CandleInv, EngineMoves, EndedInv
<1>3. AskedInv'
  BY DEF CandleInv, EngineMoves, AskedInv
<1>4. WholeInv' /\ DepthInv'
  BY DEF CandleInv, EngineMoves, WholeInv, DepthInv
<1> QED  BY <1>1, <1>2, <1>3, <1>4 DEF CandleInv

\* _fetch_window and _fetch_candles.
LEMMA FetchedFacts ==
  ASSUME now \in Nat, NEW view, NEW ans \in Fetched(view)
  PROVE  ans \in SUBSET Int /\ \A b \in ans : b <= now
<1>1. ans = {} \/ \E lo : ans \in Sent(lo, now)
  <2> DEFINE window == UNION {Sent(Min(Window(view)), now)}
             next   == LastIn(view) + 1
  <2>1. window = Sent(Min(Window(view)), now)
    OBVIOUS
  <2>2. ans \in window \/ ans = {} \/ ans \in Sent(next, now)
    BY DEF Fetched
  <2> QED  BY <2>1, <2>2
<1>2. ASSUME NEW lo, ans \in Sent(lo, now) PROVE ans \subseteq Int /\ \A b \in ans : b <= now
  BY <1>2, SentFacts
<1> QED  BY <1>1, <1>2

\* A request of the engine, answered or not.
LEMMA EngineAsksKeeps ==
  ASSUME CandleInv, EngineAsksInVain \/ EngineAsks \/ EngineFails
  PROVE  CandleInv'
<1>1. eng \in Engines /\ now \in Nat /\ eng.at <= now /\ \A b \in eng.ans : b <= eng.at
  BY TimeFacts DEF CandleInv, CandleTypes, AskedInv
<1>2. eng.current \in BOOLEAN /\ eng.behind \in BOOLEAN
  BY <1>1 DEF Engines
<1>3. CASE EngineAsksInVain
  <2>1. (In(file) # {}) \in BOOLEAN
    OBVIOUS
  <2> DEFINE c == In(file) # {}
  <2>2. eng' = [eng EXCEPT !.pc = "again", !.current = c] /\ eng.pc = "idle"
        /\ UNCHANGED <<now, file, memory, job, fill, busy>>
    BY <1>3 DEF EngineAsksInVain
  <2>3. c \in BOOLEAN
    BY <2>1
  <2> HIDE DEF c
  <2>4. eng' \in Engines /\ eng'.behind = eng.behind /\ eng'.at = eng.at /\ eng'.ans = eng.ans
    BY <1>1, <2>2, <2>3 DEF Engines
  <2> QED  BY <1>1, <2>2, <2>4, EngineMovesKeeps DEF EngineMoves
<1>4. CASE EngineAsks
  <2>1. PICK ans \in Fetched(View) :
            eng' = [eng EXCEPT !.pc = "asked", !.at = now, !.ans = ans,
                               !.current = eng.current \/ In(file) # {}]
    BY <1>4 DEF EngineAsks
  <2> DEFINE c == eng.current \/ In(file) # {}
  <2>2. c \in BOOLEAN
    BY <1>2
  <2>3. eng' = [eng EXCEPT !.pc = "asked", !.at = now, !.ans = ans, !.current = c]
    BY <2>1
  <2> HIDE DEF c
  <2>4. ans \in SUBSET Int /\ \A b \in ans : b <= now
    BY <1>1, FetchedFacts
  <2>5. eng' \in Engines /\ eng'.behind = eng.behind /\ eng'.at = now /\ eng'.ans = ans
    BY <1>1, <2>2, <2>3, <2>4 DEF Engines
  <2>6. eng.pc # "off" /\ UNCHANGED <<now, file, memory, job, fill, busy>>
    BY <1>4 DEF EngineAsks
  <2>7. eng'.at <= now /\ \A b \in eng'.ans : b <= eng'.at
    <3>1. eng'.at = now /\ eng'.ans = ans /\ now <= now
      BY <1>1, <2>5
    <3> QED  BY <2>4, <3>1
  <2>8. EngineMoves
    BY <2>5, <2>6, <2>7 DEF EngineMoves
  <2> QED  BY <2>8, EngineMovesKeeps
<1>5. CASE EngineFails
  <2>1. eng' = [IdleEngine EXCEPT !.current = eng.current, !.behind = eng.behind]
        /\ eng.pc # "off" /\ UNCHANGED <<now, file, memory, job, fill, busy>>
    BY <1>5 DEF EngineFails, Unasked
  <2>2. eng' \in Engines /\ eng'.behind = eng.behind /\ eng'.at = 0 /\ eng'.ans = {}
    BY <1>1, <1>2, <2>1 DEF Engines, IdleEngine
  <2> QED  BY <1>1, <2>1, <2>2, EngineMovesKeeps DEF EngineMoves
<1> QED  BY <1>3, <1>4, <1>5

\* Whoever is at work when somebody else writes is behind.
LEMMA OvertakenFacts ==
  /\ \A r \in Jobs : Overtaken(r) \in Jobs /\ Overtaken(r).pc = r.pc /\ Overtaken(r).all = r.all
         /\ Overtaken(r).at = r.at /\ Overtaken(r).from = r.from /\ Overtaken(r).last = r.last
         /\ Overtaken(r).cursor = r.cursor /\ Overtaken(r).skipped = r.skipped
         /\ (r.pc \in {"ask", "write"} => Overtaken(r).behind)
  /\ \A r \in Fills : Overtaken(r) \in Fills /\ Overtaken(r).pc = r.pc /\ Overtaken(r).all = r.all
         /\ (r.pc \in {"ask", "write"} => Overtaken(r).behind)
<1>1. ASSUME NEW r \in Jobs
      PROVE  Overtaken(r) \in Jobs /\ Overtaken(r).pc = r.pc /\ Overtaken(r).all = r.all
         /\ Overtaken(r).at = r.at /\ Overtaken(r).from = r.from /\ Overtaken(r).last = r.last
         /\ Overtaken(r).cursor = r.cursor /\ Overtaken(r).skipped = r.skipped
         /\ (r.pc \in {"ask", "write"} => Overtaken(r).behind)
  BY DEF Overtaken, Jobs
<1>2. ASSUME NEW r \in Fills
      PROVE  Overtaken(r) \in Fills /\ Overtaken(r).pc = r.pc /\ Overtaken(r).all = r.all
         /\ (r.pc \in {"ask", "write"} => Overtaken(r).behind)
  BY DEF Overtaken, Fills
<1> QED  BY <1>1, <1>2

\* Nobody is at work, or nothing is: the records to begin with.
LEMMA IdleFacts ==
  /\ IdleEngine \in Engines /\ IdleEngine.at = 0 /\ IdleEngine.ans = {} /\ ~IdleEngine.behind
  /\ IdleJob \in Jobs /\ IdleJob.at = 0 /\ IdleJob.all = NoCandles /\ IdleJob.pc = "idle"
  /\ IdleFill \in Fills /\ IdleFill.all = NoCandles /\ IdleFill.pc = "idle"
<1>1. IdleEngine \in Engines /\ IdleEngine.at = 0 /\ IdleEngine.ans = {} /\ ~IdleEngine.behind
  BY DEF IdleEngine, Engines
<1>2. IdleJob \in Jobs /\ IdleJob.at = 0 /\ IdleJob.all = NoCandles /\ IdleJob.pc = "idle"
  BY NoCandlesFacts DEF IdleJob, Jobs
<1>3. IdleFill \in Fills /\ IdleFill.all = NoCandles /\ IdleFill.pc = "idle"
  BY NoCandlesFacts DEF IdleFill, Fills
<1> QED  BY <1>1, <1>2, <1>3

\* What a merge keeps in memory.
MergedAll == With(memory, Ended(eng.ans), eng.at)
NewestBars == {b \in In(MergedAll) : Cardinality({c \in In(MergedAll) : c > b}) < KeptDepth}

\* _merge_fetched keeps as many candles as there were, at least.
LEMMA MergeKeepsDepth ==
  ASSUME CandleTypes
  PROVE  /\ NewestBars \subseteq In(MergedAll) /\ In(MergedAll) \subseteq Nat
         /\ IsFiniteSet(NewestBars) /\ Depth(memory) <= Cardinality(NewestBars)
<1>1. memory \in Candles /\ MergedAll \in Candles
  BY WithFacts DEF CandleTypes, MergedAll
<1>2. In(memory) \subseteq In(MergedAll)
  BY <1>1, WithFacts DEF MergedAll
<1> DEFINE S == In(MergedAll)
           n == Depth(memory)
<1>3. S \subseteq Nat /\ IsFiniteSet(S) /\ n \in Nat
  BY <1>1, InFacts
<1>4. n <= Cardinality(S)
  BY <1>2, <1>3, FS_Subset DEF Depth
<1>5. KeptDepth \in Nat /\ n <= KeptDepth
  <2>1. Keep \in Nat
    BY TimeFacts
  <2> HIDE DEF n
  <2>2. Max({Keep, n}) \in Nat /\ n <= Max({Keep, n})
    BY <1>3, <2>1, MaxOfTwo
  <2> QED  BY <2>2 DEF KeptDepth, n
<1> HIDE DEF S, n
<1>6. n <= Cardinality({b \in S : Cardinality({c \in S : c > b}) < KeptDepth})
  BY <1>3, <1>4, <1>5, NewestAreEnough
<1>7. NewestBars = {b \in S : Cardinality({c \in S : c > b}) < KeptDepth}
  BY DEF NewestBars, S
<1>8. NewestBars \subseteq S /\ IsFiniteSet(NewestBars)
  BY <1>3, <1>7, FS_Subset
<1> QED  BY <1>3, <1>6, <1>7, <1>8 DEF S, n

\* What is in memory after a merge.
LEMMA MergeFacts ==
  ASSUME CandleInv, EngineMerges
  PROVE  /\ memory' \in Candles /\ In(memory') = NewestBars
         /\ \A b \in Finals(memory') : b < now
         /\ eng.pc = "asked" /\ UNCHANGED <<now, busy>>
         /\ \/ NewestBars = {} /\ eng' = Unasked /\ UNCHANGED <<file, fill, job>>
            \/ NewestBars # {} /\ Writes("engine", memory') /\ job' = Overtaken(job)
<1>0. /\ CandleTypes /\ memory \in Candles /\ eng.at <= now /\ eng.at \in Nat /\ now \in Nat
      /\ \A b \in Finals(memory) : b < now
  BY TimeFacts DEF CandleInv, CandleTypes, AskedInv, EndedInv, Engines
<1>1. /\ memory' = [b \in Bars |-> IF b \in NewestBars THEN MergedAll[b] ELSE "none"]
      /\ eng.pc = "asked" /\ UNCHANGED <<now, busy>>
      /\ \/ NewestBars = {} /\ eng' = Unasked /\ UNCHANGED <<file, fill, job>>
         \/ NewestBars # {} /\ Writes("engine", memory') /\ job' = Overtaken(job)
  BY Zenon DEF EngineMerges, NewestBars, MergedAll
<1>2. MergedAll \in Candles /\ \A b \in Finals(MergedAll) : b \in Finals(memory) \/ b < eng.at
  BY <1>0, WithFacts DEF MergedAll
<1>3. NewestBars \subseteq In(MergedAll)
  BY <1>0, MergeKeepsDepth
<1>4. memory' \in Candles /\ In(memory') = NewestBars /\ Finals(memory') \subseteq Finals(MergedAll)
  BY <1>1, <1>2, <1>3 DEF Candles, In, Finals
<1>5. ASSUME NEW b \in Finals(memory') PROVE b < now
  <2>1. b \in Nat /\ (b \in Finals(memory) \/ b < eng.at)
    BY <1>2, <1>4, TimeFacts DEF Finals
  <2> QED  BY <1>0, <2>1
<1> QED  BY <1>1, <1>4, <1>5

\* Somebody else writes the file: with an engine that did not write, and a
\* script and a job that are behind, nothing follows from being in step.
LEMMA EngineMergesKeeps ==
  ASSUME CandleInv, EngineMerges
  PROVE  CandleInv'
<1>0. /\ CandleTypes /\ eng \in Engines /\ job \in Jobs /\ fill \in Fills
      /\ file \in Candles /\ now \in Nat /\ busy \in BOOLEAN
  BY TimeFacts DEF CandleInv, CandleTypes
<1>1. /\ memory' \in Candles /\ In(memory') = NewestBars /\ \A b \in Finals(memory') : b < now
      /\ eng.pc = "asked" /\ UNCHANGED <<now, busy>>
      /\ \/ NewestBars = {} /\ eng' = Unasked /\ UNCHANGED <<file, fill, job>>
         \/ NewestBars # {} /\ Writes("engine", memory') /\ job' = Overtaken(job)
  BY MergeFacts
<1>2. CASE NewestBars = {} /\ eng' = Unasked /\ UNCHANGED <<file, fill, job>>
  <2>1. eng' \in Engines /\ eng'.behind = eng.behind /\ eng'.at = 0 /\ eng'.ans = {} /\ eng'.pc = "idle"
    BY <1>0, <1>2, IdleFacts DEF Engines, Unasked, IdleEngine
  <2>2. In(memory) = {}
    <3>1. Depth(memory) <= 0 /\ Depth(memory) \in Nat /\ IsFiniteSet(In(memory))
      BY <1>0, <1>2, MergeKeepsDepth, InFacts, FS_EmptySet DEF CandleTypes
    <3>2. Cardinality(In(memory)) = 0
      BY <3>1 DEF Depth
    <3> QED  BY <3>1, <3>2, FS_EmptySet
  <2>3. CandleTypes'
    BY <1>0, <1>1, <1>2, <2>1 DEF CandleTypes
  <2>4. EndedInv' /\ AskedInv' /\ WholeInv'
    <3>1. EndedInv'
      BY <1>1, <1>2 DEF CandleInv, EndedInv
    <3>2. AskedInv' /\ WholeInv'
      BY <1>0, <1>1, <1>2, <2>1 DEF CandleInv, AskedInv, WholeInv
    <3> QED  BY <3>1, <3>2
  <2>5. DepthInv'
    <3>1. ~eng.behind => Finals(file) = {}
      BY <1>1, <2>2 DEF CandleInv, DepthInv
    <3> QED  BY <1>2, <2>1, <3>1 DEF CandleInv, DepthInv
  <2> QED  BY <2>3, <2>4, <2>5 DEF CandleInv
<1>3. CASE NewestBars # {} /\ Writes("engine", memory') /\ job' = Overtaken(job)
  <2>1. file' = memory' /\ eng' = [IdleEngine EXCEPT !.current = TRUE] /\ fill' = Overtaken(fill)
    BY <1>3 DEF Writes
  <2>2. eng' \in Engines /\ eng'.at = 0 /\ eng'.ans = {}
    BY <2>1, IdleFacts DEF Engines
  <2>3. /\ job' \in Jobs /\ job'.pc = job.pc /\ job'.all = job.all /\ job'.at = job.at
        /\ job'.from = job.from /\ job'.last = job.last /\ job'.cursor = job.cursor
        /\ job'.skipped = job.skipped /\ (job.pc \in {"ask", "write"} => job'.behind)
    BY <1>0, <1>3, OvertakenFacts
  <2>4. /\ fill' \in Fills /\ fill'.pc = fill.pc /\ fill'.all = fill.all
        /\ (fill.pc \in {"ask", "write"} => fill'.behind)
    BY <1>0, <2>1, OvertakenFacts
  <2>5. CandleTypes'
    BY <1>0, <1>1, <2>1, <2>2, <2>3, <2>4 DEF CandleTypes
  <2>6. EndedInv'
    BY <1>1, <2>1, <2>3, <2>4 DEF CandleInv, EndedInv
  <2>7. AskedInv'
    BY <1>0, <1>1, <2>2, <2>3 DEF CandleInv, AskedInv
  <2>8. WholeInv'
    BY <2>3 DEF CandleInv, WholeInv
  <2>9. DepthInv'
    BY <1>1, <2>1, <2>3, <2>4, InFacts DEF DepthInv
  <2> QED  BY <2>5, <2>6, <2>7, <2>8, <2>9 DEF CandleInv
<1> QED  BY <1>1, <1>2, <1>3

\* preload_symbols_from_disk, and a restart of the server.
LEMMA EngineLoadsKeeps ==
  ASSUME CandleInv, EnginePreloads \/ ServerRestarts
  PROVE  CandleInv'
<1>0. /\ eng \in Engines /\ job \in Jobs /\ fill \in Fills /\ file \in Candles /\ now \in Nat
      /\ \A b \in Finals(file) : b < now
  BY TimeFacts DEF CandleInv, CandleTypes, EndedInv
<1>1. /\ memory' = ClosedOf(file) /\ UNCHANGED <<now, file, fill, busy>>
      /\ eng' = [eng EXCEPT !.behind = FALSE] \/ eng' = IdleEngine
      /\ job' = job \/ job' = IdleJob
  BY DEF EnginePreloads, ServerRestarts
<1>2. /\ memory' \in Candles /\ Finals(memory') \subseteq Finals(file)
      /\ Finals(file) \subseteq In(memory')
  BY <1>0, <1>1, ClosedFacts
<1>3. /\ eng' \in Engines
      /\ (eng'.at = eng.at /\ eng'.ans = eng.ans) \/ (eng'.at = 0 /\ eng'.ans = {})
  BY <1>0, <1>1, IdleFacts DEF Engines
<1>4. job' \in Jobs
  BY <1>0, <1>1, IdleFacts
<1>5. CandleTypes'
  BY <1>1, <1>2, <1>3, <1>4 DEF CandleInv, CandleTypes
<1>6. EndedInv'
  BY <1>0, <1>1, <1>2, IdleFacts, NoCandlesFacts DEF CandleInv, EndedInv
<1>7. AskedInv'
  BY <1>0, <1>1, <1>3, IdleFacts DEF CandleInv, AskedInv
<1>8. WholeInv' /\ DepthInv'
  BY <1>1, <1>2, IdleFacts DEF CandleInv, WholeInv, DepthInv
<1> QED  BY <1>5, <1>6, <1>7, <1>8 DEF CandleInv

-----------------------------------------------------------------------------
(* The jobs *)

\* Only the job changes, and what it has asked for is not in question.
JobMoves ==
    /\ UNCHANGED <<now, file, memory, eng, fill>> /\ busy' \in BOOLEAN
    /\ job' \in Jobs /\ job'.at <= now /\ job'.all \in {job.all, NoCandles}

\* A job goes on without writing the file.
LEMMA JobMovesKeeps ==
  ASSUME CandleInv, JobMoves, WholeInv',
         job'.pc \in {"ask", "write"} /\ ~job'.behind => In(file) \subseteq In(job'.all)
  PROVE  CandleInv'
<1>1. CandleTypes'
  BY DEF CandleInv, JobMoves, CandleTypes
<1>2. EndedInv'
  BY NoCandlesFacts DEF CandleInv, JobMoves, EndedInv
<1>3. AskedInv'
  BY DEF CandleInv, JobMoves, AskedInv
<1>4. DepthInv'
  BY DEF CandleInv, JobMoves, DepthInv
<1> QED  BY <1>1, <1>2, <1>3, <1>4 DEF CandleInv

\* A job begins, looks at the depth, goes on or gives up.
LEMMA JobGoesOnKeeps ==
  ASSUME CandleInv, JobStarts \/ JobChecks \/ JobFails \/ JobGates
  PROVE  CandleInv'
<1>1. job \in Jobs /\ now \in Nat /\ busy \in BOOLEAN /\ job.at <= now
  BY TimeFacts DEF CandleInv, CandleTypes, AskedInv
<1>2. /\ UNCHANGED <<now, file, memory, eng, fill>> /\ busy' \in BOOLEAN
      /\ job' \in Jobs /\ job'.at \in {0, job.at} /\ job'.all \in {job.all, NoCandles}
      /\ job'.pc \notin {"ask", "write"}
  <2>1. CASE JobStarts
    BY <1>1, <2>1, IdleFacts DEF JobStarts, Jobs
  <2>2. CASE JobChecks
    BY <1>1, <2>2 DEF JobChecks, Jobs
  <2>3. CASE JobFails
    BY <1>1, <2>3, IdleFacts DEF JobFails, AfterDownload, Jobs
  <2>4. CASE JobGates
    BY <1>1, <2>4, IdleFacts DEF JobGates, Jobs
  <2> QED  BY <2>1, <2>2, <2>3, <2>4
<1>3. job'.at <= now
  BY <1>1, <1>2
<1>4. JobMoves /\ WholeInv'
  BY <1>2, <1>3 DEF JobMoves, WholeInv
<1> QED  BY <1>2, <1>4, JobMovesKeeps

\* download_symbol begins with what there is.
LEMMA JobReadsKeeps ==
  ASSUME CandleInv, JobReads
  PROVE  CandleInv'
<1> DEFINE have == Min(In(file))
           from == IF In(file) = {} THEN First ELSE Max({First, have - Overlap})
<1>0. /\ job \in Jobs /\ now \in Nat /\ busy \in BOOLEAN /\ file \in Candles
      /\ \A b \in Finals(file) : b < now
  BY TimeFacts DEF CandleInv, CandleTypes, EndedInv
<1>1. UNCHANGED <<now, file, memory, eng, fill, busy>>
  BY DEF JobReads
<1>2. In(file) # {} => have \in In(file) /\ have \in Nat
  BY <1>0, InFacts, LeastElement
<1>3. from \in Nat
  <2>1. First \in Nat /\ Overlap \in Nat
    BY FirstFacts, TimeFacts DEF CandleInv
  <2>2. CASE In(file) # {}
    <3>1. have - Overlap \in Int
      BY <1>2, <2>1, <2>2
    <3>2. Max({First, have - Overlap}) \in Int /\ Max({First, have - Overlap}) >= First
      BY <2>1, <3>1, MaxOfTwo
    <3>3. from = Max({First, have - Overlap})
      BY <2>2
    <3> HIDE DEF from
    <3> QED  BY <2>1, <3>2, <3>3
  <2> QED  BY <2>1, <2>2
<1>4. \/ /\ In(file) # {}
         /\ job' = [job EXCEPT !.pc = "write", !.at = now, !.all = file, !.from = have,
                               !.last = have, !.behind = FALSE]
      \/ job' = [job EXCEPT !.pc = "ask", !.at = now, !.all = file, !.from = from,
                            !.cursor = from, !.last = from - 1, !.behind = FALSE]
  BY DEF JobReads
<1> HIDE DEF have, from
<1>10. job.for \in {"none", "run", "walk", "download", "script"} /\ job.skipped \in BOOLEAN /\ job.cursor \in Int
  BY <1>0 DEF Jobs
<1>5. /\ job' \in Jobs /\ job'.at = now /\ job'.all = file
      /\ WholeInv'
  <2>1. CASE /\ In(file) # {}
             /\ job' = [job EXCEPT !.pc = "write", !.at = now, !.all = file, !.from = have,
                                   !.last = have, !.behind = FALSE]
    <3>0. job' = [pc |-> "write", for |-> job.for, at |-> now, from |-> have,
                  cursor |-> job.cursor, all |-> file, last |-> have,
                  skipped |-> job.skipped, behind |-> FALSE]
      BY <1>0, <2>1 DEF Jobs
    <3>1. job' \in Jobs /\ job'.at = now /\ job'.all = file
      <4>1. have \in Nat
        BY <1>2, <2>1
      <4> QED  BY <1>0, <3>0, <1>10, <4>1 DEF Jobs
    <3>2. job'.pc = "write" /\ job'.from = have /\ job'.last = have
      BY <3>0
    <3>3. have..have \subseteq In(file)
      BY <1>2, <2>1
    <3> QED  BY <3>1, <3>2, <3>3 DEF WholeInv
  <2>2. CASE job' = [job EXCEPT !.pc = "ask", !.at = now, !.all = file, !.from = from,
                                !.cursor = from, !.last = from - 1, !.behind = FALSE]
    <3> DEFINE last == from - 1
    <3>0. last \in Int /\ from..last = {} /\ from = last + 1
      BY <1>3
    <3> HIDE DEF last
    <3>1. job' = [pc |-> "ask", for |-> job.for, at |-> now, from |-> from,
                  cursor |-> from, all |-> file, last |-> last,
                  skipped |-> job.skipped, behind |-> FALSE]
      BY <1>0, <2>2 DEF Jobs, last
    <3>2. job' \in Jobs /\ job'.at = now /\ job'.all = file
      BY <1>0, <1>3, <1>10, <3>0, <3>1 DEF Jobs
    <3>3. job'.from..job'.last = {} /\ job'.cursor = job'.last + 1
      BY <3>0, <3>1
    <3> QED  BY <3>2, <3>3 DEF WholeInv
  <2> QED  BY <1>4, <2>1, <2>2
<1>6. CandleTypes'
  BY <1>0, <1>1, <1>5 DEF CandleInv, CandleTypes
<1>7. EndedInv'
  BY <1>0, <1>1, <1>5 DEF CandleInv, EndedInv
<1>8. AskedInv'
  BY <1>0, <1>1, <1>5 DEF CandleInv, AskedInv
<1>9. DepthInv'
  BY <1>1, <1>5 DEF CandleInv, DepthInv
<1> QED  BY <1>5, <1>6, <1>7, <1>8, <1>9 DEF CandleInv

\* A chunk that was sent continues what there is, up to where it stopped.
LEMMA JobAsksKeeps ==
  ASSUME CandleInv, JobAsks
  PROVE  CandleInv'
<1>0. /\ job \in Jobs /\ now \in Nat /\ busy \in BOOLEAN /\ job.at <= now /\ now \in Bars
      /\ \A b \in Finals(job.all) : b < now
  BY TimeFacts DEF CandleInv, CandleTypes, EndedInv, AskedInv
<1>1. /\ job.for \in {"none", "run", "walk", "download", "script"} /\ job.at \in Nat /\ job.from \in Nat
      /\ job.cursor \in Int /\ job.all \in Candles /\ job.last \in Int /\ job.skipped \in BOOLEAN
      /\ job.behind \in BOOLEAN
  BY <1>0 DEF Jobs
<1>2. ChunkEnd \in Int /\ ChunkEnd <= job.at
  <2>1. job.cursor + Chunk \in Int /\ job.at \in Int
    BY <1>1, TimeFacts
  <2>2. ChunkEnd \in {job.cursor + Chunk, job.at} /\ ChunkEnd <= job.at
    BY <2>1, MinOfTwo DEF ChunkEnd
  <2> QED  BY <2>1, <2>2
<1>3. PICK got \in Sent(job.cursor, ChunkEnd) :
        /\ job.pc = "ask"
        /\ job' = IF got # {}
                  THEN [job EXCEPT !.all = With(job.all, got, now), !.last = Max(got),
                                   !.cursor = NextBar(got),
                                   !.pc = IF NextBar(got) > job.at \/ job.cursor + Chunk > job.at
                                          THEN "write" ELSE "ask"]
                  ELSE [job EXCEPT !.skipped = TRUE, !.cursor = job.cursor + Chunk,
                                   !.pc = IF job.cursor + Chunk > job.at THEN "write" ELSE "ask"]
        /\ UNCHANGED <<now, file, memory, eng, fill, busy>>
  BY DEF JobAsks
<1>4. CASE got = {}
  <2> DEFINE pc == IF job.cursor + Chunk > job.at THEN "write" ELSE "ask"
             next == job.cursor + Chunk
  <2>1. next \in Int /\ pc \in {"ask", "write"}
    BY <1>1, TimeFacts
  <2>2. job' = [job EXCEPT !.skipped = TRUE, !.cursor = next, !.pc = pc]
    BY <1>3, <1>4
  <2> HIDE DEF next, pc
  <2>3. /\ job' \in Jobs /\ job'.all = job.all /\ job'.at = job.at /\ job'.skipped
        /\ job'.behind = job.behind
    BY <1>0, <2>1, <2>2 DEF Jobs
  <2>4. JobMoves /\ WholeInv'
    BY <1>0, <1>3, <2>3 DEF JobMoves, WholeInv
  <2>5. job'.pc \in {"ask", "write"} /\ ~job'.behind => In(file) \subseteq In(job'.all)
    BY <1>3, <2>3 DEF CandleInv, DepthInv
  <2> QED  BY <2>4, <2>5, JobMovesKeeps
<1>5. CASE got # {}
  <2>1. PICK m \in Int : got = job.cursor..m /\ job.cursor <= m /\ m <= ChunkEnd
    BY <1>2, <1>5, SentFacts
  <2>2. Max(got) = m /\ NextBar(got) = m + 1
    BY <1>1, <2>1, LastOfInterval DEF NextBar
  <2> DEFINE pc == IF NextBar(got) > job.at \/ job.cursor + Chunk > job.at THEN "write" ELSE "ask"
             all == With(job.all, got, now)
             next == m + 1
  <2>3. pc \in {"ask", "write"} /\ next \in Int
    OBVIOUS
  <2>4. /\ all \in Candles /\ In(all) = In(job.all) \cup (got \cap Bars)
        /\ \A b \in Finals(all) : b \in Finals(job.all) \/ b < now
    BY <1>1, WithFacts
  <2>5. job' = [job EXCEPT !.all = all, !.last = m, !.cursor = next, !.pc = pc]
    BY <1>3, <1>5, <2>2
  <2> HIDE DEF pc, all
  <2>6. job' = [pc |-> pc, for |-> job.for, at |-> job.at, from |-> job.from, cursor |-> next,
                all |-> all, last |-> m, skipped |-> job.skipped, behind |-> job.behind]
    <3> HIDE DEF next
    <3> QED  BY <1>0, <2>5 DEF Jobs
  <2>7. job' \in Jobs /\ job'.all = all /\ job'.at = job.at /\ job'.behind = job.behind
    <3> HIDE DEF next
    <3> QED  BY <1>1, <2>3, <2>4, <2>6 DEF Jobs
  <2>8. CandleTypes'
    BY <1>3, <2>7 DEF CandleInv, CandleTypes
  <2>9. EndedInv'
    BY <1>0, <1>3, <2>4, <2>7 DEF CandleInv, EndedInv
  <2>10. AskedInv'
    BY <1>0, <1>3, <2>7 DEF CandleInv, AskedInv
  <2>11. WholeInv'
    <3>1. SUFFICES ASSUME ~job.skipped
                   PROVE  job.from..m \subseteq In(all) /\ next = m + 1
      BY <2>6 DEF WholeInv
    <3>2. job.from..job.last \subseteq In(job.all) /\ job.cursor = job.last + 1
      BY <1>3, <3>1 DEF CandleInv, WholeInv
    <3>3. ASSUME NEW b \in job.from..m PROVE b \in In(all)
      <4>1. CASE b <= job.last
        <5>1. b \in job.from..job.last
          BY <1>1, <4>1
        <5> QED  BY <2>4, <3>2, <5>1
      <4>2. CASE b > job.last
        <5>1. b \in Int /\ b >= job.cursor /\ b <= m
          BY <1>1, <3>2, <4>2
        <5>2. b \in got
          BY <2>1, <5>1
        <5>3. b \in Nat
          BY <1>1, <5>1
        <5>4. b \in Bars
          BY <1>0, <1>1, <1>2, <2>1, <5>1, <5>3, TimeFacts
        <5> QED  BY <2>4, <5>2, <5>4
      <4> QED  BY <1>1, <4>1, <4>2
    <3> QED  BY <3>3
  <2>12. DepthInv'
    BY <1>3, <2>4, <2>7 DEF CandleInv, DepthInv
  <2> QED  BY <2>8, <2>9, <2>10, <2>11, <2>12 DEF CandleInv
<1> QED  BY <1>4, <1>5

\* What is downloaded is written, and whoever else is at work is behind.
LEMMA JobWritesKeeps ==
  ASSUME CandleInv, JobWrites
  PROVE  CandleInv'
<1>0. /\ job \in Jobs /\ now \in Nat /\ busy \in BOOLEAN /\ job.all \in Candles
      /\ eng \in Engines /\ fill \in Fills /\ eng.at <= now /\ \A b \in eng.ans : b <= eng.at
      /\ \A b \in Finals(job.all) : b < now
  BY TimeFacts DEF CandleInv, CandleTypes, EndedInv, AskedInv, Jobs
<1>1. /\ job.pc = "write" /\ file' = job.all /\ UNCHANGED <<now, memory, busy>>
      /\ fill' = Overtaken(fill)
      /\ eng' = IF eng.pc = "off" THEN eng ELSE [eng EXCEPT !.current = FALSE, !.behind = TRUE]
      /\ job' = IF AfterDownload = "idle" THEN IdleJob
                ELSE [IdleJob EXCEPT !.for = job.for, !.pc = AfterDownload]
  BY DEF JobWrites, Writes
<1>2. /\ job' \in Jobs /\ job'.at = 0 /\ job'.all = NoCandles
      /\ job'.pc \notin {"ask", "write"}
  BY <1>0, <1>1, IdleFacts DEF AfterDownload, Jobs
<1>3. /\ eng' \in Engines /\ eng'.at = eng.at /\ eng'.ans = eng.ans
      /\ eng'.pc = eng.pc /\ (eng.pc # "off" => eng'.behind)
  BY <1>0, <1>1 DEF Engines
<1>4. /\ fill' \in Fills /\ fill'.pc = fill.pc /\ fill'.all = fill.all
      /\ (fill.pc \in {"ask", "write"} => fill'.behind)
  BY <1>0, <1>1, OvertakenFacts
<1>5. CandleTypes'
  BY <1>0, <1>1, <1>2, <1>3, <1>4 DEF CandleInv, CandleTypes
<1>6. EndedInv'
  BY <1>0, <1>1, <1>2, <1>4, NoCandlesFacts DEF CandleInv, EndedInv
<1>7. AskedInv'
  BY <1>0, <1>1, <1>2, <1>3 DEF AskedInv
<1>8. WholeInv'
  BY <1>2 DEF WholeInv
<1>9. DepthInv'
  BY <1>2, <1>3, <1>4 DEF DepthInv
<1> QED  BY <1>5, <1>6, <1>7, <1>8, <1>9 DEF CandleInv

-----------------------------------------------------------------------------
(* The script, and time *)

\* Only the script changes.
FillMoves ==
    /\ UNCHANGED <<now, file, memory, eng, job, busy>>
    /\ fill' \in Fills /\ \A b \in Finals(fill'.all) : b < now
    /\ fill'.pc \in {"ask", "write"} /\ ~fill'.behind => In(file) \subseteq In(fill'.all)

\* A filler goes on without writing the file.
LEMMA FillMovesKeeps ==
  ASSUME CandleInv, FillMoves
  PROVE  CandleInv'
<1>1. CandleTypes'
  BY DEF CandleInv, FillMoves, CandleTypes
<1>2. EndedInv'
  BY DEF CandleInv, FillMoves, EndedInv
<1>3. AskedInv' /\ WholeInv'
  BY DEF CandleInv, FillMoves, AskedInv, WholeInv
<1>4. DepthInv'
  BY DEF CandleInv, FillMoves, DepthInv
<1> QED  BY <1>1, <1>2, <1>3, <1>4 DEF CandleInv

\* It reads the file, asks for what comes before, or is stopped.
LEMMA FillGoesOnKeeps ==
  ASSUME CandleInv, FillReads \/ FillAsks \/ FillStops
  PROVE  CandleInv'
<1>0. /\ CandleTypes /\ fill \in Fills /\ file \in Candles /\ now \in Nat
      /\ \A b \in Finals(file) : b < now
      /\ \A b \in Finals(fill.all) : b < now
  BY TimeFacts DEF CandleInv, CandleTypes, EndedInv
<1>1. CASE FillReads
  <2> DEFINE to == Min(In(file)) + 2
  <2>1. UNCHANGED <<now, file, memory, eng, job, busy>> /\ In(file) # {}
        /\ fill' = [pc |-> "ask", to |-> to, cursor |-> First, all |-> file, behind |-> FALSE]
    BY <1>1 DEF FillReads
  <2>2. to \in Int
    <3>1. Min(In(file)) \in Nat
      BY <1>0, <2>1, InFacts, LeastElement
    <3> QED  BY <3>1
  <2>3. First \in Int
    BY <1>0, FirstFacts
  <2> HIDE DEF to
  <2>4. fill' \in Fills /\ fill'.all = file
    BY <1>0, <2>1, <2>2, <2>3 DEF Fills
  <2> QED  BY <1>0, <2>1, <2>4, FillMovesKeeps DEF FillMoves
<1>2. CASE FillAsks
  <2> DEFINE hi == Min({fill.cursor + Chunk, fill.to, now})
  <2>1. PICK got \in Sent(fill.cursor, hi) :
          /\ fill.pc = "ask" /\ UNCHANGED <<now, file, memory, eng, job, busy>>
          /\ fill' = [fill EXCEPT !.all = With(fill.all, got, now),
                        !.cursor = IF got = {} THEN fill.cursor + Chunk ELSE Max(got) + 1,
                        !.pc = IF (IF got = {} THEN fill.cursor + Chunk ELSE Max(got) + 1) >= fill.to
                               THEN "write" ELSE "ask"]
    BY <1>2 DEF FillAsks
  <2>2. fill.cursor \in Int /\ fill.to \in Int /\ fill.all \in Candles /\ Chunk \in Nat
    BY <1>0, TimeFacts DEF Fills
  <2>3. hi \in Int
    <3>1. fill.cursor + Chunk \in Int /\ now \in Int
      BY <1>0, <2>2
    <3>2. hi \in {fill.cursor + Chunk, fill.to, now}
      BY <2>2, <3>1, MinOfThree
    <3> QED  BY <2>2, <3>1, <3>2
  <2> DEFINE next == IF got = {} THEN fill.cursor + Chunk ELSE Max(got) + 1
             pc == IF next >= fill.to THEN "write" ELSE "ask"
             all == With(fill.all, got, now)
  <2>4. next \in Int
    <3>1. CASE got = {}
      BY <2>2, <3>1
    <3>2. CASE got # {}
      <4> HIDE DEF hi
      <4>1. PICK m \in Int : got = fill.cursor..m /\ fill.cursor <= m
        BY <2>1, <2>3, <3>2, SentFacts
      <4>2. Max(got) = m
        BY <2>2, <4>1, LastOfInterval
      <4> QED  BY <3>2, <4>2
    <3> QED  BY <3>1, <3>2
  <2>5. pc \in {"ask", "write"}
    OBVIOUS
  <2>6. /\ all \in Candles /\ In(fill.all) \subseteq In(all)
        /\ \A b \in Finals(all) : b \in Finals(fill.all) \/ b < now
    BY <2>2, WithFacts
  <2>7. fill' = [fill EXCEPT !.all = all, !.cursor = next, !.pc = pc]
    BY <2>1
  <2> HIDE DEF next, pc, all, hi
  <2>8. fill' \in Fills /\ fill'.all = all /\ fill'.behind = fill.behind
    BY <1>0, <2>4, <2>5, <2>6, <2>7 DEF Fills
  <2>9. ~fill.behind => In(file) \subseteq In(fill.all)
    BY <2>1 DEF CandleInv, DepthInv
  <2> QED  BY <1>0, <2>1, <2>6, <2>8, <2>9, FillMovesKeeps DEF FillMoves
<1>3. CASE FillStops
  <2>1. fill' = IdleFill /\ UNCHANGED <<now, file, memory, eng, job, busy>>
    BY <1>3 DEF FillStops
  <2> QED  BY <2>1, IdleFacts, NoCandlesFacts, FillMovesKeeps DEF FillMoves
<1> QED  BY <1>1, <1>2, <1>3

\* What it has is written, and whoever else is at work is behind.
LEMMA FillWritesKeeps ==
  ASSUME CandleInv, FillWrites
  PROVE  CandleInv'
<1>0. /\ job \in Jobs /\ now \in Nat /\ busy \in BOOLEAN /\ fill.all \in Candles
      /\ eng \in Engines /\ fill \in Fills /\ eng.at <= now /\ \A b \in eng.ans : b <= eng.at
      /\ \A b \in Finals(fill.all) : b < now /\ job.at <= now
  BY TimeFacts DEF CandleInv, CandleTypes, EndedInv, AskedInv, Fills
<1>1. /\ fill.pc = "write" /\ file' = fill.all /\ UNCHANGED <<now, memory, busy>>
      /\ fill' = IdleFill /\ job' = Overtaken(job)
      /\ eng' = IF eng.pc = "off" THEN eng ELSE [eng EXCEPT !.current = FALSE, !.behind = TRUE]
  BY DEF FillWrites, Writes
<1>2. /\ job' \in Jobs /\ job'.pc = job.pc /\ job'.all = job.all /\ job'.at = job.at
      /\ job'.from = job.from /\ job'.last = job.last /\ job'.cursor = job.cursor
      /\ job'.skipped = job.skipped /\ (job.pc \in {"ask", "write"} => job'.behind)
  BY <1>0, <1>1, OvertakenFacts
<1>3. /\ eng' \in Engines /\ eng'.at = eng.at /\ eng'.ans = eng.ans
      /\ eng'.pc = eng.pc /\ (eng.pc # "off" => eng'.behind)
  BY <1>0, <1>1 DEF Engines
<1>4. fill' \in Fills /\ fill'.pc = "idle" /\ fill'.all = NoCandles
  BY <1>1, IdleFacts
<1>5. CandleTypes'
  BY <1>0, <1>1, <1>2, <1>3, <1>4 DEF CandleInv, CandleTypes
<1>6. EndedInv'
  BY <1>0, <1>1, <1>2, <1>4, NoCandlesFacts DEF CandleInv, EndedInv
<1>7. AskedInv'
  BY <1>1, <1>2, <1>3 DEF CandleInv, AskedInv
<1>8. WholeInv'
  BY <1>2 DEF CandleInv, WholeInv
<1>9. DepthInv'
  BY <1>2, <1>3, <1>4 DEF DepthInv
<1> QED  BY <1>5, <1>6, <1>7, <1>8, <1>9 DEF CandleInv

\* A bar ends, or the flag of a busy job.
LEMMA TimeKeeps ==
  ASSUME CandleInv, BusyExpires \/ BarEnds
  PROVE  CandleInv'
<1>0. /\ CandleTypes /\ now \in Nat /\ Start \in Nat /\ LastNow \in Nat /\ now >= Start
      /\ eng \in Engines /\ job \in Jobs /\ eng.at \in Nat /\ job.at \in Nat
  BY TimeFacts DEF CandleInv, CandleTypes, Engines, Jobs
<1>1. /\ UNCHANGED <<file, memory, eng, job, fill>> /\ busy' \in BOOLEAN
      /\ now' = now \/ (now' = now + 1 /\ now < LastNow)
  BY DEF BusyExpires, BarEnds, CandleInv, CandleTypes
<1>2. now' \in Bars /\ now' >= Start /\ now <= now' /\ now' \in Nat
  BY <1>0, <1>1, TimeFacts DEF CandleTypes
<1>3. CandleTypes'
  BY <1>0, <1>1, <1>2 DEF CandleTypes
<1>4. EndedInv'
  <2>1. ASSUME NEW c \in {file, memory, job.all, fill.all}, NEW b \in Finals(c)
        PROVE  b < now'
    <3>1. b \in Nat /\ b < now
      BY TimeFacts DEF CandleInv, EndedInv, Finals
    <3> QED  BY <3>1, <1>0, <1>2
  <2> QED  BY <1>1, <2>1 DEF EndedInv
<1>5. AskedInv'
  BY <1>0, <1>1, <1>2 DEF CandleInv, AskedInv
<1>6. WholeInv' /\ DepthInv'
  BY <1>1 DEF CandleInv, WholeInv, DepthInv
<1> QED  BY <1>3, <1>4, <1>5, <1>6 DEF CandleInv

-----------------------------------------------------------------------------
(* All of it *)

\* The files at the start.
LEMMA CandleInitHolds == CandleInit => CandleInv
<1> SUFFICES ASSUME CandleInit PROVE CandleInv
  OBVIOUS
<1>1. PICK lo, hi \in Bars : hi < Start /\ file = With(NoCandles, lo..hi, Start)
  BY DEF CandleInit
<1>2. file \in Candles /\ \A b \in Finals(file) : b < Start
  BY <1>1, NoCandlesFacts, WithFacts
<1>3. /\ now = Start /\ busy = FALSE /\ memory \in {file, NoCandles}
      /\ eng \in {IdleEngine, [IdleEngine EXCEPT !.pc = "off"]}
      /\ job \in {IdleJob, [IdleJob EXCEPT !.pc = "off"]}
      /\ fill \in {IdleFill, [IdleFill EXCEPT !.pc = "off"]}
      /\ eng.pc = "off" \/ memory = file
  BY DEF CandleInit, IdleEngine
<1>4. Start \in Bars /\ Start >= Start /\ 0 <= Start
  BY TimeFacts
<1>5. eng \in Engines /\ eng.at = 0 /\ eng.ans = {}
  BY <1>3, IdleFacts DEF Engines
<1>6. job \in Jobs /\ job.at = 0 /\ job.all = NoCandles /\ job.pc \notin {"ask", "write"}
  BY <1>3, IdleFacts DEF Jobs
<1>7. fill \in Fills /\ fill.all = NoCandles /\ fill.pc \notin {"ask", "write"}
  BY <1>3, IdleFacts DEF Fills
<1>8. CandleTypes
  BY <1>2, <1>3, <1>4, <1>5, <1>6, <1>7, NoCandlesFacts DEF CandleTypes
<1>9. EndedInv
  BY <1>2, <1>3, <1>6, <1>7, NoCandlesFacts DEF EndedInv
<1>10. AskedInv /\ WholeInv
  BY <1>3, <1>4, <1>5, <1>6 DEF AskedInv, WholeInv
<1>11. DepthInv
  <2>1. eng.pc # "off" => Finals(file) \subseteq In(memory)
    BY <1>2, <1>3, InFacts
  <2> QED  BY <2>1, <1>6, <1>7 DEF DepthInv
<1> QED  BY <1>8, <1>9, <1>10, <1>11 DEF CandleInv

\* Every step of the engine, the job, the filler and the time.
LEMMA CandleNextKeeps ==
  ASSUME CandleInv, [CandleNext]_candleVars
  PROVE  CandleInv'
<1>1. CASE CandleNext
  BY <1>1, EngineAsksKeeps, EngineMergesKeeps, EngineLoadsKeeps, JobGoesOnKeeps, JobReadsKeeps,
     JobAsksKeeps, JobWritesKeeps, FillGoesOnKeeps, FillWritesKeeps, TimeKeeps DEF CandleNext
<1>2. CASE UNCHANGED candleVars
  <2>1. CandleTypes' /\ EndedInv'
    BY <1>2 DEF CandleInv, candleVars, CandleTypes, EndedInv
  <2>2. AskedInv' /\ WholeInv' /\ DepthInv'
    BY <1>2 DEF CandleInv, candleVars, AskedInv, WholeInv, DepthInv
  <2> QED  BY <2>1, <2>2 DEF CandleInv
<1> QED  BY <1>1, <1>2

(***************************************************************************)
(* Part 3.  The backtest                                                   *)
(***************************************************************************)

-----------------------------------------------------------------------------
(* The way through a history *)

\* A history that is not empty has a candle to begin with.
LEMMA FirstVisit ==
  ASSUME NEW f \in BOOLEAN, NEW S, S \subseteq Symbols \X Times, S # {}
  PROVE  FirstOf(f, S) \in S /\ \A w \in S : Rank(f, FirstOf(f, S)) <= Rank(f, w)
<1> DEFINE R == {Rank(f, v) : v \in S}
<1>1. NTimes \in Nat /\ NSymbols \in Nat
  BY HistoryAssumption, SizeAssumption
<1>2. ASSUME NEW v \in S PROVE Rank(f, v) \in Nat
  <2>1. v[1] \in Nat /\ v[2] \in Nat
    BY <1>1 DEF Symbols, Times
  <2>2. v[1] * (NTimes + 1) + v[2] \in Nat /\ v[2] * (NSymbols + 1) + v[1] \in Nat
    BY <1>1, <2>1
  <2> QED  BY <2>2 DEF Rank
<1>3. R \subseteq Nat /\ R # {}
  <2>1. \E v \in S : Rank(f, v) \in R
    OBVIOUS
  <2> QED  BY <1>2, <2>1
<1>4. Min(R) \in R /\ \A y \in R : Min(R) <= y
  <2> HIDE DEF R
  <2> QED  BY <1>3, LeastElement
<1>5. PICK v \in S : Min(R) = Rank(f, v)
  BY <1>4
<1>6. \A w \in S : Rank(f, v) <= Rank(f, w)
  <2> TAKE w \in S
  <2>1. Rank(f, w) \in R
    OBVIOUS
  <2> HIDE DEF R
  <2> QED  BY <1>4, <1>5, <2>1
<1> QED  BY <1>6 DEF FirstOf

\* The visits of a history are symbols and times.
LEMMA VisitFacts ==
  ASSUME NEW c \in [Symbols -> SUBSET Times]
  PROVE  /\ VisitsOf(c) \subseteq Symbols \X Times
         /\ \A v \in VisitsOf(c) : v[1] \in Symbols /\ v[2] \in Times /\ v[2] \in c[v[1]]
BY DEF VisitsOf

\* A backtest begins at a time, on a candle of the history.
LEMMA BacktestBegins ==
  ASSUME NEW f \in BOOLEAN, NEW c \in [Symbols -> SUBSET Times], RunBacktest(f, c)
  PROVE  scan' \in Symbols /\ clock' \in Times /\ clock' \in c[scan'] /\ clock' # Never
<1>1. FirstOf(f, VisitsOf(c)) \in VisitsOf(c)
  BY VisitFacts, FirstVisit DEF RunBacktest
<1>2. clock' \in Times => clock' # Never
  BY HistoryAssumption DEF Times, Never
<1> QED  BY <1>1, <1>2, VisitFacts DEF RunBacktest

-----------------------------------------------------------------------------
(* From the files to the simulation *)

\* Nothing is followed any longer.
LEMMA LoadsKeeps ==
  ASSUME CandleInv, LoadsAndRuns \/ LoadsNothing
  PROVE  CandleInv'
<1>1. CASE LoadsAndRuns
  <2>1. /\ now' = Start /\ file' = NoCandles /\ memory' = NoCandles
        /\ eng' = IdleEngine /\ job' = IdleJob /\ fill' = IdleFill /\ busy' = FALSE
    BY <1>1 DEF LoadsAndRuns
  <2>2. Start \in Bars /\ Start >= Start /\ 0 <= Start
    BY TimeFacts
  <2>3. CandleTypes'
    BY <2>1, <2>2, IdleFacts, NoCandlesFacts DEF CandleTypes
  <2>4. EndedInv'
    BY <2>1, IdleFacts, NoCandlesFacts DEF EndedInv
  <2>5. AskedInv' /\ WholeInv'
    BY <2>1, <2>2, IdleFacts DEF AskedInv, WholeInv
  <2>6. DepthInv'
    BY <2>1, IdleFacts, NoCandlesFacts DEF DepthInv
  <2> QED  BY <2>3, <2>4, <2>5, <2>6 DEF CandleInv
<1>2. CASE LoadsNothing
  <2>1. job' = IdleJob /\ UNCHANGED <<now, file, memory, eng, fill, busy>>
    BY <1>2 DEF LoadsNothing
  <2>2. now \in Nat /\ busy \in BOOLEAN /\ 0 <= now
    BY TimeFacts DEF CandleInv, CandleTypes
  <2>3. JobMoves /\ WholeInv'
    BY <2>1, <2>2, IdleFacts DEF JobMoves, WholeInv
  <2> QED  BY <2>1, <2>3, IdleFacts, JobMovesKeeps
<1> QED  BY <1>1, <1>2

\* The files keep their invariant whatever the backtest does.
LEMMA CandleHolds == JobSpec => []CandleInv
<1>1. JobInit => CandleInv
  BY CandleInitHolds DEF JobInit
<1>2. CandleInv /\ [JobNext]_jobVars => CandleInv'
  <2> SUFFICES ASSUME CandleInv, [JobNext]_jobVars PROVE CandleInv'
    OBVIOUS
  <2>1. CASE UNCHANGED candleVars
    BY <2>1, CandleNextKeeps
  <2>2. CASE CandleNext
    BY <2>2, CandleNextKeeps
  <2>3. CASE LoadsAndRuns \/ LoadsNothing
    BY <2>3, LoadsKeeps
  <2> QED  BY <2>1, <2>2, <2>3 DEF JobNext, jobVars
<1> QED  BY <1>1, <1>2, PTL DEF JobSpec

\* A download leaves no hole but for the chunks it has given up
\* (history.py:download_symbol), for every size of chunks and histories.
THEOREM DownloadsLeaveNoHole == JobSpec => []DownloadsAreWhole
<1>1. CandleInv => DownloadsAreWhole
  BY DEF CandleInv, WholeInv, DownloadsAreWhole
<1> QED  BY <1>1, CandleHolds, PTL

\* A step of the files lets into the memory of the engine only candles of bars
\* that have ended.
LEMMA FeedStep ==
  ASSUME CandleInv, [CandleNext]_candleVars, NEW b \in Bars,
         memory'[b] = "forming", memory[b] # "forming"
  PROVE  b < now /\ (file[b] = "forming" \/ (b = eng.at /\ eng.at < now))
<1>0. /\ CandleTypes /\ file \in Candles /\ memory \in Candles /\ now \in Nat /\ b \in Nat
      /\ eng.at \in Nat /\ eng.at <= now /\ \A x \in eng.ans : x <= eng.at
  BY TimeFacts DEF CandleInv, CandleTypes, AskedInv, Engines
<1>1. EngineMerges \/ memory' = ClosedOf(file)
  <2>1. memory' # memory
    OBVIOUS
  <2> QED  BY <2>1 DEF CandleNext, candleVars, EngineAsksInVain, EngineAsks, EngineFails,
             EnginePreloads, ServerRestarts, JobStarts, JobChecks, JobReads, JobAsks, JobFails,
             JobWrites, JobGates, FillReads, FillAsks, FillWrites, FillStops, BusyExpires, BarEnds
<1>2. CASE memory' = ClosedOf(file)
  BY <1>0, <1>2, ClosedFacts
<1>3. CASE EngineMerges
  <2>1. memory' = [x \in Bars |-> IF x \in NewestBars THEN MergedAll[x] ELSE "none"]
    BY <1>3, Zenon DEF EngineMerges, NewestBars, MergedAll
  <2>2. MergedAll[b] = "forming"
    BY <2>1
  <2>3. b \in Ended(eng.ans) /\ ~(b < eng.at)
    BY <1>0, <2>2, WithFacts DEF MergedAll
  <2>4. b \in eng.ans /\ b < now
    BY <2>3 DEF Ended
  <2>5. b <= eng.at
    BY <1>0, <2>4
  <2> QED  BY <1>0, <2>3, <2>4, <2>5
<1> QED  BY <1>1, <1>2, <1>3

\* Only candles of ended bars reach the strategies (engine.py:_merge_fetched),
\* however long a request takes.
THEOREM FeedStaysClosed == JobSpec => FeedIsClosed
<1>1. ASSUME CandleInv, [JobNext]_jobVars
      PROVE  [\A b \in Bars : memory'[b] = "forming" /\ memory[b] # "forming" =>
                b < now /\ (file[b] = "forming" \/ (b = eng.at /\ eng.at < now))]_candleVars
  <2> SUFFICES ASSUME NEW b \in Bars, memory'[b] = "forming", memory[b] # "forming"
               PROVE  b < now /\ (file[b] = "forming" \/ (b = eng.at /\ eng.at < now))
    OBVIOUS
  <2>1. memory' # memory
    OBVIOUS
  <2>2. CASE LoadsAndRuns
    BY <2>2 DEF LoadsAndRuns, NoCandles
  <2>3. CASE CandleNext
    BY <1>1, <2>3, FeedStep
  <2> QED  BY <1>1, <2>1, <2>2, <2>3 DEF JobNext, jobVars, candleVars, LoadsNothing
<1> QED  BY <1>1, CandleHolds, PTL DEF JobSpec, FeedIsClosed

\* A history that holds all that counts of another is no shorter.
LEMMA DeeperHistory ==
  ASSUME NEW c \in Candles, NEW d \in Candles, Finals(c) \subseteq In(d)
  PROVE  Cardinality(Finals(c)) <= Depth(d) /\ Depth(d) \in Nat /\ Cardinality(Finals(c)) \in Nat
<1>1. IsFiniteSet(In(d)) /\ IsFiniteSet(Finals(c)) /\ Depth(d) \in Nat
  BY InFacts
<1>2. Cardinality(Finals(c)) \in Nat /\ Cardinality(Finals(c)) <= Cardinality(In(d))
  BY <1>1, FS_Subset, FS_CardinalityType
<1> QED  BY <1>1, <1>2 DEF Depth

\* Who makes the file shorter has been overtaken since it was read.
LEMMA DepthStep ==
  ASSUME CandleInv, [CandleNext]_candleVars, Depth(file') < Cardinality(Finals(file))
  PROVE  \/ eng.behind /\ eng.pc = "asked" /\ memory' = file'
         \/ job.behind /\ job.pc = "write" /\ job.all = file'
         \/ fill.behind /\ fill.pc = "write" /\ fill.all = file'
<1>0. /\ CandleTypes /\ file \in Candles /\ memory \in Candles /\ job.all \in Candles
      /\ fill.all \in Candles
  BY DEF CandleInv, CandleTypes, Jobs, Fills
<1>1. ASSUME NEW d \in Candles, file' = d PROVE ~(Finals(file) \subseteq In(d))
  BY <1>0, <1>1, DeeperHistory
<1>2. file' # file
  <2>1. Finals(file) \subseteq In(file)
    BY <1>0, InFacts
  <2> QED  BY <1>0, <1>1, <2>1
<1>3. EngineMerges \/ JobWrites \/ FillWrites
  BY <1>2 DEF CandleNext, candleVars, EngineAsksInVain, EngineAsks, EngineFails,
     EnginePreloads, ServerRestarts, JobStarts, JobChecks, JobReads, JobAsks, JobFails,
     JobGates, FillReads, FillAsks, FillStops, BusyExpires, BarEnds
<1>4. CASE EngineMerges
  <2>1. /\ memory' \in Candles /\ In(memory') = NewestBars /\ eng.pc = "asked"
        /\ file' = file \/ file' = memory'
    BY <1>4, MergeFacts DEF CandleInv, Writes
  <2>2. file' = memory'
    BY <1>2, <2>1
  <2>3. CASE ~eng.behind
    <3>1. Finals(file) \subseteq In(memory)
      BY <2>1, <2>3 DEF CandleInv, DepthInv
    <3>2. /\ Cardinality(Finals(file)) <= Depth(memory) /\ Depth(memory) \in Nat
          /\ Cardinality(Finals(file)) \in Nat
      BY <1>0, <3>1, DeeperHistory
    <3>3. Depth(memory) <= Cardinality(NewestBars)
      BY <1>0, MergeKeepsDepth
    <3>4. Depth(file') = Cardinality(NewestBars) /\ Depth(file') \in Nat
      <4>1. Depth(file') = Cardinality(In(file'))
        BY DEF Depth
      <4>2. Depth(file') \in Nat
        BY <2>1, <2>2, InFacts
      <4> QED  BY <2>1, <2>2, <4>1, <4>2
    <3> QED  BY <3>2, <3>3, <3>4
  <2> QED  BY <2>1, <2>2, <2>3
<1>5. CASE JobWrites
  <2>1. job.pc = "write" /\ file' = job.all
    BY <1>5 DEF JobWrites, Writes
  <2>2. CASE ~job.behind
    <3>1. In(file) \subseteq In(job.all)
      BY <2>1, <2>2 DEF CandleInv, DepthInv
    <3> QED  BY <1>0, <1>1, <2>1, <3>1, InFacts
  <2> QED  BY <2>1, <2>2
<1>6. CASE FillWrites
  <2>1. fill.pc = "write" /\ file' = fill.all
    BY <1>6 DEF FillWrites, Writes
  <2>2. CASE ~fill.behind
    <3>1. In(file) \subseteq In(fill.all)
      BY <2>1, <2>2 DEF CandleInv, DepthInv
    <3> QED  BY <1>0, <1>1, <2>1, <3>1, InFacts
  <2> QED  BY <2>1, <2>2
<1> QED  BY <1>3, <1>4, <1>5, <1>6

\* The history gets shorter only by one who was overtaken while at work
\* (engine.py:639, history.py), whatever it keeps, asks for and is sent.
THEOREM HistoriesKeepDepth == JobSpec => SavesKeepDepth
<1>1. ASSUME CandleInv, [JobNext]_jobVars
      PROVE  [Following' /\ Depth(file') < Cardinality({b \in Bars : file[b] = "final"}) =>
                \/ eng.behind /\ eng.pc = "asked" /\ memory' = file'
                \/ job.behind /\ job.pc = "write" /\ job.all = file'
                \/ fill.behind /\ fill.pc = "write" /\ fill.all = file']_candleVars
  <2> SUFFICES ASSUME Following', Depth(file') < Cardinality(Finals(file)), ~UNCHANGED candleVars
               PROVE  \/ eng.behind /\ eng.pc = "asked" /\ memory' = file'
                      \/ job.behind /\ job.pc = "write" /\ job.all = file'
                      \/ fill.behind /\ fill.pc = "write" /\ fill.all = file'
    BY DEF Finals
  <2>1. ~LoadsAndRuns
    <3> SUFFICES ASSUME LoadsAndRuns PROVE FALSE
      OBVIOUS
    <3>1. PICK c \in [Symbols -> SUBSET Times] : RunBacktest(job.for # "script", c)
      BY DEF LoadsAndRuns
    <3>2. (job.for # "script") \in BOOLEAN
      OBVIOUS
    <3>3. clock' # Never
      BY <3>1, <3>2, BacktestBegins
    <3> QED  BY <3>3 DEF Following
  <2>2. ~LoadsNothing
    <3> SUFFICES ASSUME LoadsNothing PROVE FALSE
      OBVIOUS
    <3>1. file' = file
      BY DEF LoadsNothing
    <3>2. file \in Candles
      BY <1>1 DEF CandleInv, CandleTypes
    <3>3. Finals(file) \subseteq In(file)
      BY <3>2, InFacts
    <3> QED  BY <3>1, <3>2, <3>3, DeeperHistory
  <2>3. CandleNext
    BY <1>1, <2>1, <2>2 DEF JobNext, jobVars
  <2> QED  BY <1>1, <2>3, DepthStep
<1> QED  BY <1>1, CandleHolds, PTL DEF JobSpec, SavesKeepDepth

-----------------------------------------------------------------------------
(* The simulation: the invariant *)

\* The records of trades.
Trades == [opened : 0..NTimes, how : {"open", "exit", "end", "liquidated", "expired"},
           fill : Int, pnl : Int, sold : BOOLEAN, result : 0..NTimes, knew : 0..NTimes]

\* Types of the simulation and its account.
BtTypes ==
    /\ fast \in BOOLEAN /\ finished \in BOOLEAN
    /\ candles \in [Symbols -> SUBSET Times]
    /\ scan \in 1..(NSymbols + 1) /\ clock \in 0..NTimes
    /\ positions \in [PosIds -> Position] /\ \A i \in PosIds : Protected(positions[i])
    /\ price \in [Symbols -> Nat]
    /\ trade \in [PosIds -> Trades] /\ report \subseteq PosIds
    /\ pricedAt \in [Symbols -> 0..NTimes] /\ entered \in [Symbols -> 0..NTimes]
    /\ balance \in Int

\* The candle that is simulated is one of the history.
VisitInv ==
    /\ Simulating => clock \in candles[scan]
    /\ clock = Never => ~fast

\* What is open is reported and has no end yet; what was not opened has nothing.
TradeInv == \A i \in PosIds :
    /\ IsOpen(i) => /\ trade[i].how = "open" /\ i \in report
                    /\ ~trade[i].sold => trade[i].pnl = 0
    /\ positions[i].state = "none" => trade[i] = NoTrade

\* Where time only goes forward, no price, no result and nothing that an
\* entry was sized by is from the future.
LookInv ==
    ~fast \/ OneSymbol =>
        /\ \A s \in Symbols : pricedAt[s] <= clock
        /\ \A i \in PosIds : trade[i].result <= clock
        /\ \A i \in Entered : trade[i].knew <= trade[i].opened

\* The two cases that ReportAddsUp excepts have not come up.
Explained == /\ ~(fast /\ TakenOnes # {})
             /\ \A i \in PosIds : ~(trade[i].sold /\ trade[i].how = "liquidated")

\* What the report says of a position.
Reported(i) == IF i \in report THEN trade[i].pnl ELSE 0

\* What is reported so far is what has been made or lost so far.
MoneyInv == Explained => SumTo([i \in PosIds |-> Reported(i)], NPos) = balance - Capital

\* The inductive invariant of the simulation.
BtInv == BtTypes /\ VisitInv /\ TradeInv /\ LookInv /\ MoneyInv

-----------------------------------------------------------------------------
(* Time *)

\* What the constants are.
LEMMA HistoryFacts ==
  /\ NTimes \in Nat /\ NSymbols \in Nat \ {0} /\ NPos \in Nat
  /\ Symbols = 1..NSymbols /\ Times = 1..NTimes /\ PosIds = 1..NPos /\ Never = 0
  /\ IsFiniteSet(Symbols)
<1>1. NTimes \in Nat /\ NSymbols \in Nat \ {0} /\ NPos \in Nat
  BY HistoryAssumption, SizeAssumption
<1>2. IsFiniteSet(1..NSymbols)
  BY <1>1, FS_Interval
<1> QED  BY <1>1, <1>2 DEF Symbols, Times, PosIds, Never

\* Candle by candle, time goes forward.
LEMMA TimeAfterTime ==
  ASSUME NEW v \in Symbols \X Times, NEW w \in Symbols \X Times,
         Rank(FALSE, v) <= Rank(FALSE, w)
  PROVE  v[2] <= w[2]
<1> DEFINE n == NSymbols + 1
           a == v[2]
           b == w[2]
<1>1. /\ v[1] \in Nat /\ w[1] \in Nat /\ v[1] >= 1 /\ w[1] < n
      /\ a \in Nat /\ b \in Nat /\ n \in Nat /\ n >= 2
  BY HistoryFacts
<1>2. a * n + v[1] <= b * n + w[1]
  BY DEF Rank
<1> SUFFICES ASSUME a > b PROVE FALSE
  BY <1>1
<1> DEFINE k == a - b - 1
<1>3. k \in Nat /\ a = b + 1 + k
  BY <1>1
<1> HIDE DEF n, a, b, k
<1>4. k * n \in Nat
  BY <1>1, <1>3
<1>5. a * n = b * n + n + k * n
  BY <1>1, <1>3
<1>6. a * n \in Int /\ b * n \in Int
  BY <1>1
<1> QED  BY <1>1, <1>2, <1>4, <1>5, <1>6

\* On the fast path it does so for each symbol.
LEMMA TimeOfSymbol ==
  ASSUME NEW v \in Symbols \X Times, NEW w \in Symbols \X Times, v[1] = w[1],
         Rank(TRUE, v) <= Rank(TRUE, w)
  PROVE  v[2] <= w[2]
<1> DEFINE a == v[1] * (NTimes + 1)
<1>1. a \in Nat /\ v[2] \in Nat /\ w[2] \in Nat
  BY HistoryFacts
<1>2. a + v[2] <= a + w[2]
  BY DEF Rank
<1> HIDE DEF a
<1> QED  BY <1>1, <1>2

\* With one symbol, whatever has candles is that symbol.
LEMMA OnlyOneSymbol ==
  ASSUME OneSymbol, NEW s \in Symbols, NEW t \in Symbols, candles[s] # {}, candles[t] # {}
  PROVE  s = t
<1> DEFINE S == {x \in Symbols : candles[x] # {}}
<1>1. IsFiniteSet(S) /\ Cardinality(S) = 1
  BY HistoryFacts, FS_Subset DEF OneSymbol
<1>2. s \in S /\ t \in S
  OBVIOUS
<1> HIDE DEF S
<1>3. \E x : S = {x}
  BY <1>1, FS_Singleton
<1> QED  BY <1>2, <1>3

\* The next candle is one of the history, and not before this one.
LEMMA AdvanceFacts ==
  ASSUME BtTypes, VisitInv, Simulating, Advance
  PROVE  /\ scan' \in 1..(NSymbols + 1) /\ clock' \in Times
         /\ scan' \in Symbols => clock' \in candles[scan']
         /\ ~fast \/ OneSymbol => clock <= clock'
<1> DEFINE here == <<scan, clock>>
           next == FirstOf(fast, Ahead)
<1>1. /\ scan \in Symbols /\ clock \in candles[scan] /\ candles \in [Symbols -> SUBSET Times]
      /\ fast \in BOOLEAN /\ clock \in Times
  BY DEF BtTypes, VisitInv, Simulating
<1>2. CASE Ahead = {}
  <2>1. scan' = NSymbols + 1 /\ clock' = clock
    BY <1>2 DEF Advance
  <2>2. scan' \notin Symbols /\ scan' \in 1..(NSymbols + 1)
    BY <2>1, HistoryFacts
  <2>3. clock <= clock'
    BY <1>1, <2>1, HistoryFacts
  <2> QED  BY <1>1, <2>1, <2>2, <2>3
<1>3. CASE Ahead # {}
  <2>1. Ahead \subseteq Visits /\ Visits \subseteq Symbols \X Times
    BY <1>1, VisitFacts DEF Ahead, Visits
  <2>2. next \in Ahead
    BY <1>1, <1>3, <2>1, FirstVisit
  <2>3. scan' = next[1] /\ clock' = next[2]
    BY <1>3 DEF Advance
  <2>4. /\ next \in Symbols \X Times /\ next[1] \in Symbols /\ next[2] \in Times
        /\ next[2] \in candles[next[1]]
    BY <1>1, <2>1, <2>2, VisitFacts DEF Visits
  <2>5. Rank(fast, next) > Rank(fast, here)
    BY <2>2 DEF Ahead
  <2> HIDE DEF next
  <2>6. here \in Symbols \X Times /\ here[1] = scan /\ here[2] = clock
    BY <1>1
  <2>7. Rank(fast, here) <= Rank(fast, next)
    <3>1. /\ next[1] \in Nat /\ next[2] \in Nat /\ here[1] \in Nat /\ here[2] \in Nat
          /\ NTimes \in Nat /\ NSymbols \in Nat
      BY <2>4, <2>6, HistoryFacts
    <3> HIDE DEF here
    <3>2. Rank(fast, next) \in Int /\ Rank(fast, here) \in Int
      BY <3>1 DEF Rank
    <3> QED  BY <2>5, <3>2
  <2>8. CASE ~fast
    <3>1. Rank(FALSE, here) <= Rank(FALSE, next)
      BY <1>1, <2>7, <2>8
    <3>2. here[2] <= next[2]
      BY <2>4, <2>6, <3>1, TimeAfterTime
    <3> QED  BY <2>3, <2>4, <2>6, <3>2, HistoryFacts
  <2>9. CASE fast /\ OneSymbol
    <3>1. Rank(TRUE, here) <= Rank(TRUE, next)
      BY <1>1, <2>7, <2>9
    <3>2. here[1] = next[1]
      BY <1>1, <2>4, <2>6, <2>9, OnlyOneSymbol
    <3>3. here[2] <= next[2]
      BY <2>4, <2>6, <3>1, <3>2, TimeOfSymbol
    <3> QED  BY <2>3, <2>4, <2>6, <3>3, HistoryFacts
  <2>10. scan' \in 1..(NSymbols + 1)
    BY <2>3, <2>4, HistoryFacts
  <2> QED  BY <2>3, <2>4, <2>8, <2>9, <2>10
<1> QED  BY <1>2, <1>3

-----------------------------------------------------------------------------
(* The account *)

\* A result is added to the record of its trade.
LEMMA BookedFacts ==
  ASSUME NEW t \in Trades, NEW gain \in Int, clock \in 0..NTimes
  PROVE  /\ Booked(t, gain) \in Trades
         /\ Booked(t, gain).pnl = t.pnl + gain /\ Booked(t, gain).result = clock
         /\ Booked(t, gain).how = t.how /\ Booked(t, gain).sold = t.sold
         /\ Booked(t, gain).opened = t.opened /\ Booked(t, gain).knew = t.knew
<1>1. t.pnl \in Int
  BY DEF Trades
<1> DEFINE sum == t.pnl + gain
<1>2. sum \in Int
  BY <1>1
<1>3. Booked(t, gain) = [t EXCEPT !.pnl = sum, !.result = clock]
  BY DEF Booked
<1> HIDE DEF sum
<1>4. /\ Booked(t, gain) \in Trades
      /\ Booked(t, gain).pnl = sum /\ Booked(t, gain).result = clock
      /\ Booked(t, gain).how = t.how /\ Booked(t, gain).sold = t.sold
      /\ Booked(t, gain).opened = t.opened /\ Booked(t, gain).knew = t.knew
  BY <1>2, <1>3 DEF Trades
<1> QED  BY <1>4 DEF sum

\* What the balance gains is what the reported trades gain.
LEMMA MoneyMoves ==
  ASSUME BtTypes, MoneyInv, NEW d \in [PosIds -> Int], balance' = balance + SumTo(d, NPos),
         trade' \in [PosIds -> Trades],
         Explained' => Explained /\ \A i \in PosIds : Reported(i)' = Reported(i) + d[i]
  PROVE  balance' \in Int /\ MoneyInv'
<1> DEFINE f == [i \in PosIds |-> Reported(i)]
           h == [i \in PosIds |-> Reported(i)']
<1>0. NPos \in Nat /\ PosIds = 1..NPos /\ balance \in Int /\ Capital \in Int
  BY HistoryFacts, MoneyAssumption DEF BtTypes
<1>1. ASSUME NEW i \in PosIds PROVE Reported(i) \in Int /\ Reported(i)' \in Int
  <2>1. trade[i].pnl \in Int /\ trade'[i].pnl \in Int
    BY DEF BtTypes, Trades
  <2> QED  BY <2>1 DEF Reported
<1>2. f \in [1..NPos -> Int] /\ h \in [1..NPos -> Int] /\ d \in [1..NPos -> Int]
  BY <1>0, <1>1
<1>3. SumTo(f, NPos) \in Int /\ SumTo(d, NPos) \in Int
  <2>1. NPos \in 0..NPos
    BY <1>0
  <2> HIDE DEF f, h
  <2> QED  BY <1>0, <1>2, <2>1, SumInt
<1>4. balance' \in Int
  BY <1>0, <1>3
<1>5. ASSUME Explained' PROVE SumTo(h, NPos) = balance' - Capital
  <2>1. Explained /\ \A i \in 1..NPos : h[i] = f[i] + d[i]
    BY <1>0, <1>5
  <2>2. SumTo(f, NPos) = balance - Capital
    BY <2>1 DEF MoneyInv
  <2> HIDE DEF f, h
  <2>3. SumTo(h, NPos) = SumTo(f, NPos) + SumTo(d, NPos)
    BY <1>0, <1>2, <2>1, SumAdd
  <2> QED  BY <1>0, <1>3, <2>2, <2>3
<1> QED  BY <1>4, <1>5 DEF MoneyInv

\* Nothing is traded and nothing is made.
LEMMA MoneyRests ==
  ASSUME BtTypes, MoneyInv, UNCHANGED <<balance, report, trade>>, fast' = fast
  PROVE  MoneyInv'
BY DEF MoneyInv, Explained, Reported, TakenOnes

-----------------------------------------------------------------------------
(* A candle *)

\* What becomes of a position on a candle: d is what it adds to the balance.
OnCandle(i, d, taken, liquidated, got) ==
    \/ /\ i \in taken /\ IsOpen(i) /\ positions'[i].state = "closed"
       /\ trade'[i].how = (IF i \in liquidated THEN "liquidated" ELSE "expired")
       /\ trade'[i].sold = trade[i].sold /\ trade'[i].result = clock
       /\ trade'[i].pnl = (IF i \in liquidated THEN d ELSE trade[i].pnl + d)
    \/ /\ i \notin taken /\ IsOpen(i) /\ positions'[i].state = "closed"
       /\ trade'[i].how = "exit" /\ trade'[i].fill = got
       /\ trade'[i].sold = trade[i].sold /\ trade'[i].result = clock
       /\ trade'[i].pnl = trade[i].pnl + d /\ positions[i].sym = scan
    \/ /\ i \notin taken /\ IsOpen(i) /\ IsOpen(i)'
       /\ trade'[i].how = trade[i].how /\ trade'[i].sold /\ trade'[i].result = clock
       /\ trade'[i].pnl = trade[i].pnl + d
    \/ /\ i \notin taken /\ trade'[i] = trade[i] /\ d = 0
       /\ positions'[i].state = positions[i].state

\* Managing a position does not close it, and leaves it its symbol.
LEMMA ManagedState ==
  ASSUME NEW p \in Position, NEW px \in Int, NEW atr \in Nat
  PROVE  Managed(p, px, atr).state = p.state /\ Managed(p, px, atr).sym = p.sym
<1> DEFINE b == WithBest(p, px)
           e == AtBreakeven(b, px)
           t == Trailed(e, atr)
           a == AfterPartial(p, px)
           D == {"state", "sym", "side", "bought", "qty", "entry", "stop", "atr", "best",
                 "breakeven", "partial"}
<1>1. DOMAIN p = D
  BY DEF Position
<1>2. DOMAIN b = D /\ b.state = p.state /\ b.sym = p.sym
  BY <1>1 DEF WithBest
<1> HIDE DEF b
<1>3. DOMAIN e = D /\ e.state = p.state /\ e.sym = p.sym
  BY <1>2 DEF AtBreakeven
<1> HIDE DEF e
<1>4. DOMAIN t = D /\ t.state = p.state /\ t.sym = p.sym
  BY <1>3 DEF Trailed
<1> HIDE DEF t, a
<1>5. Managed(p, px, atr) = [t EXCEPT !.qty = a.qty, !.partial = a.partial]
  BY DEF Managed, b, e, t, a
<1> QED  BY <1>4, <1>5

\* What a candle does to each position, to its trade and to the balance.
LEMMA CandleTrades ==
  ASSUME BtTypes, NEW low, NEW px \in PricesOf[scan], NEW high, NEW atr \in Atrs,
         NEW turned, NEW taken \in SUBSET Opened, NEW liquidated \in SUBSET taken,
         ManageCandle(low, px, high, atr, turned, taken, liquidated)
  PROVE  \E d \in [PosIds -> Int] :
           /\ balance' = balance + SumTo(d, NPos)
           /\ positions' \in [PosIds -> Position] /\ \A i \in PosIds : Protected(positions'[i])
           /\ trade' \in [PosIds -> Trades]
           /\ \A i \in PosIds :
                /\ OnCandle(i, d[i], taken, liquidated, ExitPrice(positions[i], px))
                /\ trade'[i].opened = trade[i].opened /\ trade'[i].knew = trade[i].knew
                /\ trade'[i].result \in {trade[i].result, clock}
<1> DEFINE mine(i) == IsOpen(i) /\ i \notin taken /\ positions[i].sym = scan
           exits(i) == StopTouched(positions[i], low, high) \/ positions[i].side \in turned
           hourAtr == IF HourCloses THEN atr ELSE 0
           gain(i) == IF exits(i)
                      THEN positions[i].qty * Gain(positions[i], ExitPrice(positions[i], px))
                      ELSE PartialDue(positions[i], px) * Gain(positions[i], px)
           lost(i) == TakenFor(i, liquidated, price'[positions[i].sym])
           d == [i \in PosIds |-> IF i \in taken THEN lost(i) ELSE IF mine(i) THEN gain(i) ELSE 0]
<1>1. /\ scan \in Symbols
      /\ price' = [price EXCEPT ![scan] = px]
      /\ positions' = [i \in PosIds |->
               IF i \in taken \/ (mine(i) /\ exits(i)) THEN Closed
               ELSE IF mine(i) THEN Managed(positions[i], px, hourAtr)
               ELSE positions[i]]
      /\ trade' = [i \in PosIds |->
               IF i \in taken THEN TakenTrade(i, liquidated)
               ELSE IF ~mine(i) THEN trade[i]
               ELSE IF exits(i)
                    THEN [Booked(trade[i], gain(i)) EXCEPT !.how = "exit", !.fill = ExitPrice(positions[i], px)]
               ELSE IF PartialDue(positions[i], px) > 0
                    THEN [Booked(trade[i], gain(i)) EXCEPT !.sold = TRUE]
               ELSE trade[i]]
      /\ balance' = balance + SumTo(d, NPos)
  BY DEF ManageCandle, Simulating
<1>2. px \in Nat /\ hourAtr \in Nat /\ px \in Int
  <2>1. px \in Nat /\ atr \in Nat /\ 0 \in Nat
    BY <1>1, PriceAssumption
  <2>2. hourAtr \in {atr, 0}
    OBVIOUS
  <2> HIDE DEF hourAtr
  <2> QED  BY <2>1, <2>2
<1>3. \A i \in PosIds : positions[i] \in Position /\ Protected(positions[i]) /\ trade[i] \in Trades
  BY DEF BtTypes
<1>4. price' \in [Symbols -> Nat]
  BY <1>1, <1>2 DEF BtTypes
<1>5. clock \in 0..NTimes /\ taken \subseteq Opened
  BY DEF BtTypes
<1>6. ASSUME NEW i \in PosIds PROVE gain(i) \in Int /\ lost(i) \in Int
  <2>1. positions[i] \in Position /\ positions[i].qty \in Nat /\ positions[i].sym \in Symbols
        /\ positions[i].stop \in Int
    BY <1>3 DEF Position
  <2>2. ExitPrice(positions[i], px) \in Int
    BY <1>2, <2>1 DEF ExitPrice, Higher, Lower
  <2>3. positions[i].qty * Gain(positions[i], ExitPrice(positions[i], px)) \in Int
    BY <2>1, <2>2, WorthType
  <2>4. PartialDue(positions[i], px) * Gain(positions[i], px) \in Int
    BY <1>2, <2>1, PartialType, WorthType
  <2>5. gain(i) \in Int
    BY <2>3, <2>4
  <2>6. price'[positions[i].sym] \in Int
    BY <1>4, <2>1
  <2>7. lost(i) \in Int
    BY <2>1, <2>6, TakenForType
  <2> QED  BY <2>5, <2>7
<1>7. d \in [PosIds -> Int]
  BY <1>6
<1> DEFINE Result(i) ==
             /\ positions'[i] \in Position /\ Protected(positions'[i]) /\ trade'[i] \in Trades
             /\ OnCandle(i, d[i], taken, liquidated, ExitPrice(positions[i], px))
             /\ trade'[i].opened = trade[i].opened /\ trade'[i].knew = trade[i].knew
             /\ trade'[i].result \in {trade[i].result, clock}
<1>8. ASSUME NEW i \in PosIds PROVE Result(i)
  <2>0. positions[i] \in Position /\ Protected(positions[i]) /\ trade[i] \in Trades
    BY <1>3
  <2>1. CASE i \in taken
    <3>1. IsOpen(i)
      BY <1>5, <2>1 DEF Opened
    <3>2. positions'[i] = Closed /\ d[i] = lost(i) /\ trade'[i] = TakenTrade(i, liquidated)
      BY <1>1, <2>1
    <3>3. ~IsOpen(i)'
      BY <3>2, EmptyType DEF IsOpen
    <3> DEFINE g == lost(i)
    <3>4. g \in Int
      BY <1>6
    <3>5. trade'[i] = [(IF i \in liquidated THEN [trade[i] EXCEPT !.pnl = g, !.result = clock]
                        ELSE Booked(trade[i], g))
                       EXCEPT !.how = IF i \in liquidated THEN "liquidated" ELSE "expired"]
      BY <3>2 DEF TakenTrade
    <3>6. d[i] = g
      BY <3>2
    <3> HIDE DEF g, d
    <3>7. CASE i \in liquidated
      <4>1. trade'[i] = [[trade[i] EXCEPT !.pnl = g, !.result = clock] EXCEPT !.how = "liquidated"]
        BY <3>5, <3>7
      <4>2. /\ trade'[i] \in Trades /\ trade'[i].how = "liquidated"
            /\ trade'[i].sold = trade[i].sold /\ trade'[i].result = clock
            /\ trade'[i].pnl = g /\ trade'[i].opened = trade[i].opened
            /\ trade'[i].knew = trade[i].knew
        BY <1>5, <2>0, <3>4, <4>1 DEF Trades
      <4> QED  BY <2>1, <3>1, <3>2, <3>3, <3>6, <3>7, <4>2, EmptyType DEF OnCandle
    <3>8. CASE i \notin liquidated
      <4> DEFINE t == Booked(trade[i], g)
      <4>1. trade'[i] = [t EXCEPT !.how = "expired"]
        BY <3>5, <3>8
      <4>2. /\ t \in Trades /\ t.pnl = trade[i].pnl + g /\ t.result = clock
            /\ t.sold = trade[i].sold /\ t.opened = trade[i].opened /\ t.knew = trade[i].knew
        BY <1>5, <2>0, <3>4, BookedFacts
      <4> HIDE DEF t
      <4>3. /\ trade'[i] \in Trades /\ trade'[i].how = "expired"
            /\ trade'[i].sold = t.sold /\ trade'[i].result = t.result
            /\ trade'[i].pnl = t.pnl /\ trade'[i].opened = t.opened
            /\ trade'[i].knew = t.knew
        BY <4>1, <4>2 DEF Trades
      <4> QED  BY <2>1, <3>1, <3>2, <3>3, <3>6, <3>8, <4>2, <4>3, EmptyType DEF OnCandle
    <3> QED  BY <3>7, <3>8
  <2>2. CASE mine(i) /\ exits(i)
    <3> DEFINE g == gain(i)
               x == ExitPrice(positions[i], px)
               t == Booked(trade[i], g)
    <3>1. /\ positions'[i] = Closed /\ d[i] = g /\ trade'[i] = [t EXCEPT !.how = "exit", !.fill = x]
          /\ IsOpen(i) /\ i \notin taken /\ positions[i].sym = scan
      BY <1>1, <2>2
    <3>2. ~IsOpen(i)'
      BY <3>1, EmptyType DEF IsOpen
    <3>3. g \in Int /\ x \in Int
      <4>1. positions[i].stop \in Int
        BY <2>0 DEF Position
      <4> QED  BY <1>2, <1>6, <4>1 DEF ExitPrice, Higher, Lower
    <3> HIDE DEF g, d, x
    <3>4. /\ t \in Trades /\ t.pnl = trade[i].pnl + g /\ t.result = clock
          /\ t.sold = trade[i].sold /\ t.opened = trade[i].opened /\ t.knew = trade[i].knew
      BY <1>5, <2>0, <3>3, BookedFacts
    <3> HIDE DEF t
    <3>5. /\ trade'[i] \in Trades /\ trade'[i].how = "exit" /\ trade'[i].fill = x
          /\ trade'[i].sold = t.sold /\ trade'[i].result = t.result
          /\ trade'[i].pnl = t.pnl /\ trade'[i].opened = t.opened
          /\ trade'[i].knew = t.knew
      BY <3>1, <3>3, <3>4 DEF Trades
    <3> QED  BY <3>1, <3>2, <3>4, <3>5, EmptyType DEF OnCandle, x
  <2>3. CASE mine(i) /\ ~exits(i)
    <3>1. /\ positions'[i] = Managed(positions[i], px, hourAtr) /\ d[i] = gain(i)
          /\ IsOpen(i) /\ i \notin taken /\ positions[i].sym = scan
          /\ gain(i) = PartialDue(positions[i], px) * Gain(positions[i], px)
          /\ trade'[i] = IF PartialDue(positions[i], px) > 0
                         THEN [Booked(trade[i], gain(i)) EXCEPT !.sold = TRUE]
                         ELSE trade[i]
      BY <1>1, <2>3
    <3> HIDE DEF hourAtr
    <3>2. /\ positions'[i] \in Position /\ Protected(positions'[i])
          /\ positions'[i].state = positions[i].state
      BY <1>2, <2>0, <3>1, ManagedType, ManagedState
    <3>3. IsOpen(i)'
      BY <3>1, <3>2 DEF IsOpen
    <3>4. CASE PartialDue(positions[i], px) > 0
      <4> DEFINE g == gain(i)
                 t == Booked(trade[i], g)
      <4>1. trade'[i] = [t EXCEPT !.sold = TRUE] /\ d[i] = g
        BY <3>1, <3>4
      <4>2. g \in Int
        BY <1>6
      <4> HIDE DEF g, d
      <4>3. /\ t \in Trades /\ t.pnl = trade[i].pnl + g /\ t.result = clock
            /\ t.how = trade[i].how /\ t.opened = trade[i].opened /\ t.knew = trade[i].knew
        BY <1>5, <2>0, <4>2, BookedFacts
      <4> HIDE DEF t
      <4>4. /\ trade'[i] \in Trades /\ trade'[i].how = t.how
            /\ trade'[i].sold = TRUE /\ trade'[i].result = t.result
            /\ trade'[i].pnl = t.pnl /\ trade'[i].opened = t.opened
            /\ trade'[i].knew = t.knew
        BY <4>1, <4>3 DEF Trades
      <4> QED  BY <3>1, <3>2, <3>3, <4>1, <4>3, <4>4 DEF OnCandle
    <3>5. CASE ~(PartialDue(positions[i], px) > 0)
      <4>1. trade'[i] = trade[i]
        BY <3>1, <3>5
      <4>2. d[i] = 0
        <5>1. PartialDue(positions[i], px) = 0
          BY <2>0, <3>5, PartialType
        <5>2. Gain(positions[i], px) \in Int
          BY <1>2, <2>0 DEF Gain, Position
        <5> HIDE DEF d, gain
        <5> QED  BY <3>1, <5>1, <5>2
      <4> HIDE DEF d
      <4> QED  BY <2>0, <3>1, <3>2, <4>1, <4>2 DEF OnCandle
    <3> QED  BY <3>4, <3>5
  <2>4. CASE i \notin taken /\ ~mine(i)
    <3>1. positions'[i] = positions[i] /\ trade'[i] = trade[i] /\ d[i] = 0
      BY <1>1, <2>4
    <3> HIDE DEF d
    <3> QED  BY <2>0, <2>4, <3>1 DEF OnCandle
  <2> QED  BY <2>1, <2>2, <2>3, <2>4
<1>9. positions' \in [PosIds -> Position] /\ trade' \in [PosIds -> Trades]
  <2>1. /\ positions' = [i \in PosIds |-> positions'[i]]
        /\ trade' = [i \in PosIds |-> trade'[i]]
    BY <1>1
  <2> HIDE DEF d
  <2> QED  BY <1>8, <2>1
<1> QED
  <2> HIDE DEF d
  <2> QED  BY <1>1, <1>7, <1>8, <1>9

\* A candle keeps the invariant: what it takes and what it closes is entered
\* in the trade with what it brings, at the time that it is.
LEMMA ManageCandleKeeps ==
  ASSUME BtInv, NEW low, NEW px \in PricesOf[scan], NEW high, NEW atr \in Atrs,
         NEW turned, NEW taken \in SUBSET Opened, NEW liquidated \in SUBSET taken,
         ManageCandle(low, px, high, atr, turned, taken, liquidated)
  PROVE  BtInv'
<1>0. BtTypes /\ clock \in 0..NTimes /\ clock \in Nat /\ scan \in Symbols
  <2>1. BtTypes /\ clock \in 0..NTimes /\ scan \in Symbols
    BY DEF BtInv, BtTypes, ManageCandle, Simulating
  <2> QED  BY <2>1, HistoryFacts
<1>1. /\ price' = [price EXCEPT ![scan] = px]
      /\ pricedAt' = [pricedAt EXCEPT ![scan] = clock]
      /\ report' = IF fast THEN report \ taken ELSE report
      /\ UNCHANGED <<scan, fast, candles, clock, entered, finished>>
  BY DEF ManageCandle
<1>2. PICK d \in [PosIds -> Int] :
           /\ balance' = balance + SumTo(d, NPos)
           /\ positions' \in [PosIds -> Position] /\ \A i \in PosIds : Protected(positions'[i])
           /\ trade' \in [PosIds -> Trades]
           /\ \A i \in PosIds :
                /\ OnCandle(i, d[i], taken, liquidated, ExitPrice(positions[i], px))
                /\ trade'[i].opened = trade[i].opened /\ trade'[i].knew = trade[i].knew
                /\ trade'[i].result \in {trade[i].result, clock}
  BY <1>0, CandleTrades
<1>3. \A i \in PosIds : OnCandle(i, d[i], taken, liquidated, ExitPrice(positions[i], px))
  BY <1>2
<1>4. taken \subseteq PosIds /\ liquidated \subseteq taken /\ \A i \in taken : IsOpen(i)
  BY DEF Opened
<1>5. ASSUME Explained'
      PROVE  Explained /\ \A i \in PosIds : Reported(i)' = Reported(i) + d[i]
  <2>1. \A i \in PosIds : IsOpen(i) =>
            trade[i].how = "open" /\ i \in report /\ (~trade[i].sold => trade[i].pnl = 0)
    BY DEF BtInv, TradeInv
  <2>2. fast => taken = {}
    <3> SUFFICES ASSUME fast, NEW i \in taken PROVE FALSE
      OBVIOUS
    <3>1. trade'[i].how \in {"liquidated", "expired"}
      BY <1>3, <1>4 DEF OnCandle
    <3> QED  BY <1>1, <1>4, <1>5, <3>1 DEF Explained, TakenOnes
  <2>3. report' = report
    BY <1>1, <2>2
  <2>4. ASSUME NEW i \in PosIds
        PROVE  /\ Reported(i)' = Reported(i) + d[i]
               /\ trade[i].how \in {"liquidated", "expired"} => trade'[i].how = trade[i].how
               /\ trade[i].sold => trade'[i].sold
    <3>0. trade[i].pnl \in Int /\ d[i] \in Int
      BY <1>0 DEF BtTypes, Trades
    <3>1. CASE trade'[i] = trade[i] /\ d[i] = 0
      BY <2>3, <3>0, <3>1 DEF Reported
    <3>2. CASE ~(trade'[i] = trade[i] /\ d[i] = 0)
      <4>1. IsOpen(i)
        BY <1>3, <3>2 DEF OnCandle
      <4>2. i \in report /\ trade[i].how = "open" /\ (~trade[i].sold => trade[i].pnl = 0)
        BY <2>1, <4>1
      <4>3. trade'[i].pnl = trade[i].pnl + d[i] /\ (trade[i].sold => trade'[i].sold)
        <5>1. CASE i \in liquidated
          <6>1. /\ trade'[i].how = "liquidated" /\ trade'[i].sold = trade[i].sold
                /\ trade'[i].pnl = d[i]
            BY <1>3, <1>4, <5>1 DEF OnCandle
          <6>2. ~trade[i].sold
            BY <1>5, <6>1 DEF Explained
          <6> QED  BY <3>0, <4>2, <6>1, <6>2
        <5>2. CASE i \notin liquidated
          BY <1>3, <3>2, <5>2 DEF OnCandle
        <5> QED  BY <5>1, <5>2
      <4> QED  BY <2>3, <4>2, <4>3 DEF Reported
    <3> QED  BY <3>1, <3>2
  <2>5. Explained
    <3>1. ASSUME fast, TakenOnes # {} PROVE FALSE
      <4>1. PICK i \in PosIds : trade[i].how \in {"liquidated", "expired"}
        BY <3>1 DEF TakenOnes
      <4>2. trade'[i].how \in {"liquidated", "expired"}
        BY <2>4, <4>1
      <4> QED  BY <1>1, <1>5, <3>1, <4>2 DEF Explained, TakenOnes
    <3>2. ASSUME NEW i \in PosIds, trade[i].sold, trade[i].how = "liquidated" PROVE FALSE
      BY <1>5, <2>4, <3>2 DEF Explained
    <3> QED  BY <3>1, <3>2 DEF Explained
  <2> QED  BY <2>4, <2>5
<1>6. balance' \in Int /\ MoneyInv'
  BY <1>0, <1>2, <1>5, MoneyMoves DEF BtInv
<1>7. BtTypes'
  <2>1. price' \in [Symbols -> Nat]
    BY <1>0, <1>1, PriceAssumption DEF BtTypes
  <2>2. pricedAt' \in [Symbols -> 0..NTimes]
    BY <1>0, <1>1 DEF BtTypes
  <2>3. report' \subseteq PosIds
    BY <1>0, <1>1 DEF BtTypes
  <2> QED  BY <1>0, <1>1, <1>2, <1>6, <2>1, <2>2, <2>3 DEF BtTypes
<1>8. VisitInv'
  BY <1>1 DEF BtInv, VisitInv, Simulating
<1>9. TradeInv'
  <2> SUFFICES ASSUME NEW i \in PosIds
               PROVE  /\ IsOpen(i)' => /\ trade'[i].how = "open" /\ i \in report'
                                       /\ ~trade'[i].sold => trade'[i].pnl = 0
                      /\ positions'[i].state = "none" => trade'[i] = NoTrade
    BY DEF TradeInv
  <2>0. /\ IsOpen(i) => /\ trade[i].how = "open" /\ i \in report
                        /\ ~trade[i].sold => trade[i].pnl = 0
        /\ positions[i].state = "none" => trade[i] = NoTrade
    BY DEF BtInv, TradeInv
  <2>1. CASE IsOpen(i) /\ ~IsOpen(i)'
    <3>1. positions'[i].state # "none"
      BY <1>3, <2>1 DEF OnCandle, IsOpen
    <3> QED  BY <2>1, <3>1
  <2>2. CASE IsOpen(i) /\ IsOpen(i)'
    <3>1. i \notin taken /\ trade'[i].how = trade[i].how /\ (trade'[i].sold \/ trade'[i] = trade[i])
      BY <1>3, <2>2 DEF OnCandle, IsOpen
    <3> QED  BY <1>1, <2>0, <2>2, <3>1 DEF IsOpen
  <2>3. CASE ~IsOpen(i)
    <3>1. trade'[i] = trade[i] /\ positions'[i].state = positions[i].state
      BY <1>3, <2>3 DEF OnCandle
    <3> QED  BY <2>0, <2>3, <3>1 DEF IsOpen
  <2> QED  BY <2>1, <2>2, <2>3
<1>10. LookInv'
  <2> SUFFICES ASSUME ~fast \/ OneSymbol
               PROVE  /\ \A s \in Symbols : pricedAt'[s] <= clock
                      /\ \A i \in PosIds : trade'[i].result <= clock
                      /\ \A i \in PosIds : trade'[i].opened # Never =>
                             trade'[i].knew <= trade'[i].opened
    BY <1>1 DEF LookInv, OneSymbol, Entered
  <2>1. /\ \A s \in Symbols : pricedAt[s] <= clock
        /\ \A i \in PosIds : trade[i].result <= clock
        /\ \A i \in PosIds : trade[i].opened # Never => trade[i].knew <= trade[i].opened
    BY DEF BtInv, LookInv, Entered
  <2>2. clock <= clock
    BY <1>0
  <2>3. \A s \in Symbols : pricedAt'[s] <= clock
    BY <1>0, <1>1, <2>1, <2>2 DEF BtTypes
  <2>4. ASSUME NEW i \in PosIds
        PROVE  /\ trade'[i].result <= clock
               /\ trade'[i].opened # Never => trade'[i].knew <= trade'[i].opened
    BY <1>2, <2>1, <2>2
  <2> QED  BY <2>3, <2>4
<1> QED  BY <1>6, <1>7, <1>8, <1>9, <1>10 DEF BtInv

-----------------------------------------------------------------------------
(* The other steps *)

\* The newest that is known is of the past.
LEMMA NewestFacts ==
  ASSUME BtTypes
  PROVE  /\ NewestKnown \in 0..NTimes
         /\ /\ \A s \in Symbols : pricedAt[s] <= clock
            /\ \A i \in PosIds : trade[i].result <= clock
            => NewestKnown <= clock
<1> DEFINE S == {Never} \cup {pricedAt[positions[j].sym] : j \in Opened}
                        \cup {trade[j].result : j \in PosIds}
<1>1. NTimes \in Nat /\ Never = 0 /\ clock \in 0..NTimes
  BY HistoryFacts DEF BtTypes
<1>2. \A j \in PosIds : positions[j].sym \in Symbols /\ trade[j].result \in 0..NTimes
  BY DEF BtTypes, Position, Trades
<1>3. \A s \in Symbols : pricedAt[s] \in 0..NTimes
  BY DEF BtTypes
<1>4. S \subseteq 0..NTimes /\ S # {}
  BY <1>1, <1>2, <1>3 DEF Opened
<1>5. Max(S) \in S
  <2> HIDE DEF S
  <2>1. S \subseteq Int /\ NTimes \in Int /\ \A x \in S : x <= NTimes
    BY <1>1, <1>4
  <2> QED  BY <1>1, <1>4, <2>1, GreatestElement
<1>6. ASSUME \A s \in Symbols : pricedAt[s] <= clock, \A i \in PosIds : trade[i].result <= clock
      PROVE  \A x \in S : x <= clock
  <2>1. Never <= clock
    BY <1>1
  <2> QED  BY <1>2, <1>6, <2>1 DEF Opened
<1>7. NewestKnown = Max(S)
  BY DEF NewestKnown
<1> HIDE DEF S
<1> QED  BY <1>4, <1>5, <1>6, <1>7

\* On to the next candle.
LEMMA AdvanceKeeps ==
  ASSUME BtInv, Simulating, Advance, UNCHANGED <<fast, candles, finished>>
  PROVE  /\ VisitInv' /\ scan' \in 1..(NSymbols + 1) /\ clock' \in 0..NTimes
         /\ ~fast \/ OneSymbol => clock <= clock'
<1>1. /\ scan' \in 1..(NSymbols + 1) /\ clock' \in Times
      /\ scan' \in Symbols => clock' \in candles[scan']
      /\ ~fast \/ OneSymbol => clock <= clock'
  BY AdvanceFacts DEF BtInv
<1>2. clock' \in 0..NTimes /\ clock' # Never
  BY <1>1, HistoryFacts
<1>3. VisitInv'
  BY <1>1, <1>2 DEF VisitInv, Simulating
<1> QED  BY <1>1, <1>2, <1>3

\* What was of the past at a time is so at a later one.
LEMMA LaterLook ==
  ASSUME BtTypes, LookInv, UNCHANGED <<fast, candles, pricedAt, trade>>, clock' \in Int,
         ~fast \/ OneSymbol => clock <= clock'
  PROVE  LookInv'
<1> SUFFICES ASSUME ~fast \/ OneSymbol
             PROVE  /\ \A s \in Symbols : pricedAt[s] <= clock'
                    /\ \A i \in PosIds : trade[i].result <= clock'
                    /\ \A i \in Entered : trade[i].knew <= trade[i].opened
  BY DEF LookInv, OneSymbol, Entered
<1>1. clock \in Int /\ clock <= clock'
  BY DEF BtTypes
<1>2. ASSUME NEW s \in Symbols PROVE pricedAt[s] <= clock'
  <2>1. pricedAt[s] \in Int /\ pricedAt[s] <= clock
    BY DEF BtTypes, LookInv
  <2> QED  BY <1>1, <2>1
<1>3. ASSUME NEW i \in PosIds PROVE trade[i].result <= clock'
  <2>1. trade[i].result \in Int /\ trade[i].result <= clock
    BY DEF BtTypes, LookInv, Trades
  <2> QED  BY <1>1, <2>1
<1> QED  BY <1>2, <1>3 DEF LookInv

\* A candle without an entry.
LEMMA NoEntryOnCandleKeeps ==
  ASSUME BtInv, NoEntryOnCandle
  PROVE  BtInv'
<1>1. /\ Simulating /\ Advance
      /\ UNCHANGED <<positions, price, balance, fast, candles, trade, report, pricedAt, entered, finished>>
  BY DEF NoEntryOnCandle
<1>2. /\ VisitInv' /\ scan' \in 1..(NSymbols + 1) /\ clock' \in 0..NTimes
      /\ ~fast \/ OneSymbol => clock <= clock'
  BY <1>1, AdvanceKeeps
<1>3. BtTypes'
  BY <1>1, <1>2 DEF BtInv, BtTypes
<1>4. TradeInv' /\ MoneyInv'
  <2>1. TradeInv'
    BY <1>1 DEF BtInv, TradeInv, IsOpen
  <2> QED  BY <1>1, <2>1, MoneyRests DEF BtInv
<1>5. LookInv'
  BY <1>1, <1>2, LaterLook DEF BtInv
<1> QED  BY <1>2, <1>3, <1>4, <1>5 DEF BtInv

\* An entry knows what the account was made of, and its trade is blank.
LEMMA EnterCandleKeeps ==
  ASSUME BtInv, NEW i \in PosIds, NEW side \in Sides, NEW dist \in StopDistances, NEW gf,
         NEW slip \in Slips, NEW atr \in Atrs,
         NEW qty \in 1..BtSizedQty(price[scan], dist, gf),
         EnterCandle(i, side, dist, gf, slip, qty, atr)
  PROVE  BtInv'
<1> DEFINE px == price[scan]
           got == IF side = "long" THEN px + slip ELSE px - slip
           new == [state |-> "open", sym |-> scan, side |-> side, bought |-> qty, qty |-> qty,
                   entry |-> got, stop |-> IF side = "long" THEN px - dist ELSE px + dist,
                   atr |-> atr, best |-> got, breakeven |-> FALSE, partial |-> FALSE]
           blank == [NoTrade EXCEPT !.opened = clock, !.knew = NewestKnown]
<1>0. BtTypes /\ clock \in 0..NTimes /\ scan \in Symbols
  BY DEF BtInv, BtTypes, EnterCandle, Simulating
<1>1. /\ Simulating /\ Advance /\ positions[i].state = "none"
      /\ positions' = [positions EXCEPT ![i] = new]
      /\ trade' = [trade EXCEPT ![i] = blank]
      /\ report' = report \cup {i}
      /\ entered' = [entered EXCEPT ![scan] = clock]
      /\ UNCHANGED <<price, balance, fast, candles, pricedAt, finished>>
  BY DEF EnterCandle
<1>2. /\ VisitInv' /\ scan' \in 1..(NSymbols + 1) /\ clock' \in 0..NTimes
      /\ ~fast \/ OneSymbol => clock <= clock'
  BY <1>1, AdvanceKeeps
<1>3. new \in Position /\ Protected(new) /\ new.state = "open"
  <2>1. px \in Nat /\ slip \in Nat /\ dist \in Nat /\ atr \in Nat /\ qty \in Nat
    BY <1>0, PriceAssumption DEF BtTypes
  <2>2. got \in Int /\ (IF side = "long" THEN px - dist ELSE px + dist) \in Int
    BY <2>1
  <2> HIDE DEF got, px
  <2> QED  BY <1>0, <2>1, <2>2 DEF Position, Protected
<1>4. /\ blank \in Trades /\ blank.opened = clock /\ blank.knew = NewestKnown
      /\ blank.how = "open" /\ blank.pnl = 0 /\ blank.result = Never /\ ~blank.sold
  <2>1. NewestKnown \in 0..NTimes /\ Never \in 0..NTimes
    BY <1>0, NewestFacts, HistoryFacts
  <2>2. NoTrade \in Trades /\ NoTrade.how = "open" /\ NoTrade.pnl = 0 /\ NoTrade.result = Never
        /\ ~NoTrade.sold
    BY <2>1 DEF NoTrade, Trades
  <2> QED  BY <1>0, <2>1, <2>2 DEF Trades
<1> HIDE DEF new, blank
<1>5. trade[i] = NoTrade
  BY <1>1 DEF BtInv, TradeInv
<1>6. BtTypes'
  BY <1>0, <1>1, <1>2, <1>3, <1>4 DEF BtTypes
<1>7. TradeInv'
  <2> SUFFICES ASSUME NEW j \in PosIds
               PROVE  /\ positions'[j].state = "open" =>
                            /\ trade'[j].how = "open" /\ j \in report'
                            /\ ~trade'[j].sold => trade'[j].pnl = 0
                      /\ positions'[j].state = "none" => trade'[j] = NoTrade
    BY DEF TradeInv, IsOpen
  <2>1. CASE j = i
    BY <1>0, <1>1, <1>3, <1>4, <2>1 DEF BtTypes
  <2>2. CASE j # i
    BY <1>0, <1>1, <2>2 DEF BtTypes, BtInv, TradeInv, IsOpen
  <2> QED  BY <2>1, <2>2
<1>8. MoneyInv'
  <2>1. ASSUME NEW j \in PosIds
        PROVE  /\ Reported(j)' = Reported(j)
               /\ trade[j].how \in {"liquidated", "expired"} => trade'[j] = trade[j]
    <3>1. CASE j = i
      BY <1>0, <1>1, <1>4, <1>5, <3>1 DEF BtTypes, Reported, NoTrade
    <3>2. CASE j # i
      BY <1>0, <1>1, <3>2 DEF BtTypes, Reported
    <3> QED  BY <3>1, <3>2
  <2>2. [j \in PosIds |-> Reported(j)'] = [j \in PosIds |-> Reported(j)]
    BY <2>1
  <2>3. Explained' => Explained
    BY <1>1, <2>1 DEF Explained, TakenOnes
  <2> QED  BY <1>1, <2>2, <2>3 DEF BtInv, MoneyInv
<1>9. LookInv'
  <2> SUFFICES ASSUME ~fast \/ OneSymbol
               PROVE  /\ \A s \in Symbols : pricedAt[s] <= clock'
                      /\ \A j \in PosIds : trade'[j].result <= clock'
                      /\ \A j \in PosIds : trade'[j].opened # Never =>
                             trade'[j].knew <= trade'[j].opened
    BY <1>1 DEF LookInv, OneSymbol, Entered
  <2>1. /\ \A s \in Symbols : pricedAt[s] <= clock
        /\ \A j \in PosIds : trade[j].result <= clock
        /\ \A j \in PosIds : trade[j].opened # Never => trade[j].knew <= trade[j].opened
    BY DEF BtInv, LookInv, Entered
  <2>2. clock <= clock' /\ clock \in Int /\ clock' \in Int /\ Never <= clock' /\ NewestKnown <= clock
    BY <1>0, <1>2, <2>1, NewestFacts, HistoryFacts
  <2>3. ASSUME NEW s \in Symbols PROVE pricedAt[s] <= clock'
    <3>1. pricedAt[s] \in Int /\ pricedAt[s] <= clock
      BY <1>0, <2>1 DEF BtTypes
    <3> QED  BY <2>2, <3>1
  <2>4. ASSUME NEW j \in PosIds
        PROVE  /\ trade'[j].result <= clock'
               /\ trade'[j].opened # Never => trade'[j].knew <= trade'[j].opened
    <3>1. CASE j = i
      BY <1>0, <1>1, <1>4, <2>2, <3>1 DEF BtTypes
    <3>2. CASE j # i
      <4>1. trade'[j] = trade[j] /\ trade[j].result \in Int /\ trade[j].result <= clock
        BY <1>0, <1>1, <2>1, <3>2 DEF BtTypes, Trades
      <4> QED  BY <2>1, <2>2, <4>1
    <3> QED  BY <3>1, <3>2
  <2> QED  BY <2>3, <2>4
<1> QED  BY <1>2, <1>6, <1>7, <1>8, <1>9 DEF BtInv

\* What is still open is closed, and reported.
LEMMA FinishKeeps ==
  ASSUME BtInv, Finish
  PROVE  BtInv'
<1> DEFINE gain(i) == positions[i].qty * Gain(positions[i], price[positions[i].sym])
           d == [i \in PosIds |-> IF IsOpen(i) THEN gain(i) ELSE 0]
<1>0. BtTypes /\ clock \in 0..NTimes /\ clock <= clock
  <2>1. BtTypes /\ clock \in 0..NTimes
    BY DEF BtInv, BtTypes
  <2> QED  BY <2>1, HistoryFacts
<1>1. /\ finished' = TRUE
      /\ positions' = [i \in PosIds |-> IF IsOpen(i) THEN Closed ELSE positions[i]]
      /\ trade' = [i \in PosIds |-> IF IsOpen(i) THEN [Booked(trade[i], gain(i)) EXCEPT !.how = "end"]
                                    ELSE trade[i]]
      /\ balance' = balance + SumTo(d, NPos)
      /\ UNCHANGED <<price, scan, fast, candles, clock, report, pricedAt, entered>>
  BY DEF Finish
<1>2. ASSUME NEW i \in PosIds PROVE gain(i) \in Int
  <2>1. positions[i] \in Position /\ positions[i].qty \in Nat /\ positions[i].sym \in Symbols
    BY <1>0 DEF BtTypes, Position
  <2>2. price[positions[i].sym] \in Int
    BY <1>0, <2>1 DEF BtTypes
  <2> QED  BY <2>1, <2>2, WorthType
<1>3. d \in [PosIds -> Int]
  BY <1>2
<1>4. ASSUME NEW i \in PosIds
      PROVE  /\ trade'[i] \in Trades
             /\ trade'[i].opened = trade[i].opened /\ trade'[i].knew = trade[i].knew
             /\ trade'[i].result \in {trade[i].result, clock}
             /\ trade'[i].sold = trade[i].sold
             /\ trade'[i].pnl = trade[i].pnl + d[i]
             /\ IF IsOpen(i) THEN trade'[i].how = "end" ELSE trade'[i] = trade[i]
  <2>0. trade[i] \in Trades /\ trade[i].pnl \in Int
    BY <1>0 DEF BtTypes, Trades
  <2>1. CASE IsOpen(i)
    <3> DEFINE g == gain(i)
               t == Booked(trade[i], g)
    <3>1. g \in Int
      BY <1>2
    <3>2. trade'[i] = [t EXCEPT !.how = "end"] /\ d[i] = g
      BY <1>1, <2>1
    <3> HIDE DEF g, d
    <3>3. /\ t \in Trades /\ t.pnl = trade[i].pnl + g /\ t.result = clock
          /\ t.sold = trade[i].sold /\ t.opened = trade[i].opened /\ t.knew = trade[i].knew
      BY <1>0, <2>0, <3>1, BookedFacts
    <3> HIDE DEF t
    <3>4. /\ trade'[i] \in Trades /\ trade'[i].how = "end" /\ trade'[i].sold = t.sold
          /\ trade'[i].result = t.result /\ trade'[i].pnl = t.pnl
          /\ trade'[i].opened = t.opened /\ trade'[i].knew = t.knew
      BY <3>2, <3>3 DEF Trades
    <3> QED  BY <2>1, <3>2, <3>3, <3>4
  <2>2. CASE ~IsOpen(i)
    <3>1. trade'[i] = trade[i] /\ d[i] = 0
      BY <1>1, <2>2
    <3> HIDE DEF d
    <3> QED  BY <2>0, <2>2, <3>1
  <2> QED  BY <2>1, <2>2
<1>5. trade' \in [PosIds -> Trades]
  BY <1>1, <1>4
<1>6. /\ positions' \in [PosIds -> Position] /\ \A i \in PosIds : Protected(positions'[i])
      /\ \A i \in PosIds : positions'[i].state # "open"
                           /\ (positions'[i].state = "none" => positions'[i] = positions[i])
  BY <1>0, <1>1, EmptyType DEF BtTypes, IsOpen
<1> HIDE DEF d
<1>7. ASSUME Explained'
      PROVE  Explained /\ \A i \in PosIds : Reported(i)' = Reported(i) + d[i]
  <2>1. ASSUME NEW i \in PosIds
        PROVE  /\ Reported(i)' = Reported(i) + d[i]
               /\ trade[i].how \in {"liquidated", "expired"} => trade'[i] = trade[i]
    <3>0. trade[i].pnl \in Int /\ d[i] \in Int
      BY <1>0, <1>3 DEF BtTypes, Trades
    <3>1. IsOpen(i) => i \in report /\ trade[i].how = "open"
      BY DEF BtInv, TradeInv
    <3>2. ~IsOpen(i) => d[i] = 0
      BY DEF d
    <3> QED  BY <1>1, <1>4, <3>0, <3>1, <3>2 DEF Reported
  <2>2. Explained
    BY <1>1, <1>7, <2>1 DEF Explained, TakenOnes
  <2> QED  BY <2>1, <2>2
<1>8. balance' \in Int /\ MoneyInv'
  BY <1>0, <1>1, <1>3, <1>5, <1>7, MoneyMoves DEF BtInv, d
<1>9. BtTypes'
  BY <1>0, <1>1, <1>5, <1>6, <1>8 DEF BtTypes
<1>10. VisitInv'
  BY <1>1 DEF BtInv, VisitInv, Simulating
<1>11. TradeInv'
  <2> SUFFICES ASSUME NEW i \in PosIds, positions'[i].state = "none" PROVE trade'[i] = NoTrade
    BY <1>6 DEF TradeInv, IsOpen
  <2>1. positions[i].state = "none"
    BY <1>6
  <2> QED  BY <1>4, <2>1 DEF BtInv, TradeInv, IsOpen
<1>12. LookInv'
  <2> SUFFICES ASSUME ~fast \/ OneSymbol
               PROVE  /\ \A s \in Symbols : pricedAt[s] <= clock
                      /\ \A i \in PosIds : trade'[i].result <= clock
                      /\ \A i \in PosIds : trade'[i].opened # Never =>
                             trade'[i].knew <= trade'[i].opened
    BY <1>1 DEF LookInv, OneSymbol, Entered
  <2>1. /\ \A s \in Symbols : pricedAt[s] <= clock
        /\ \A i \in PosIds : trade[i].result <= clock
        /\ \A i \in PosIds : trade[i].opened # Never => trade[i].knew <= trade[i].opened
    BY DEF BtInv, LookInv, Entered
  <2> QED  BY <1>0, <1>4, <2>1
<1> QED  BY <1>8, <1>9, <1>10, <1>11, <1>12 DEF BtInv

\* A backtest begins.
LEMMA RunBacktestKeeps ==
  ASSUME BtInv, NEW f \in BOOLEAN, NEW c \in [Symbols -> SUBSET Times], RunBacktest(f, c)
  PROVE  BtInv'
<1>0. BtTypes /\ ~fast /\ clock = 0 /\ NTimes \in Nat
  BY HistoryFacts DEF BtInv, VisitInv, RunBacktest
<1>1. /\ fast' = f /\ candles' = c /\ finished' = FALSE
      /\ UNCHANGED <<positions, price, balance, peak, stale, managed, trade, report, pricedAt, entered>>
  BY DEF RunBacktest
<1>2. scan' \in Symbols /\ clock' \in Times /\ clock' \in c[scan'] /\ clock' # Never
  BY BacktestBegins
<1>3. scan' \in 1..(NSymbols + 1) /\ clock' \in 0..NTimes /\ clock' \in Nat
  BY <1>2, HistoryFacts
<1>4. BtTypes'
  BY <1>0, <1>1, <1>3 DEF BtTypes
<1>5. VisitInv'
  BY <1>1, <1>2 DEF VisitInv
<1>6. TradeInv'
  BY <1>1 DEF BtInv, TradeInv, IsOpen
<1>7. /\ \A s \in Symbols : pricedAt[s] = 0
      /\ \A i \in PosIds : trade[i].result = 0
      /\ \A i \in Entered : trade[i].knew <= trade[i].opened
  <2>1. /\ \A s \in Symbols : pricedAt[s] <= 0 /\ pricedAt[s] \in 0..NTimes
        /\ \A i \in PosIds : trade[i].result <= 0 /\ trade[i].result \in 0..NTimes
        /\ \A i \in Entered : trade[i].knew <= trade[i].opened
    BY <1>0 DEF BtInv, BtTypes, LookInv, Trades
  <2> QED  BY <1>0, <2>1
<1>8. LookInv'
  <2>1. 0 <= clock'
    BY <1>3
  <2> QED  BY <1>1, <1>7, <2>1 DEF LookInv, Entered
<1>9. MoneyInv'
  <2> SUFFICES ASSUME Explained'
               PROVE  SumTo([i \in PosIds |-> Reported(i)'], NPos) = balance' - Capital
    BY DEF MoneyInv
  <2>1. Explained
    BY <1>0, <1>1 DEF Explained
  <2>2. [i \in PosIds |-> Reported(i)'] = [i \in PosIds |-> Reported(i)]
    BY <1>1 DEF Reported
  <2> QED  BY <1>1, <2>1, <2>2 DEF BtInv, MoneyInv
<1> QED  BY <1>4, <1>5, <1>6, <1>8, <1>9 DEF BtInv

\* An account that no backtest has used has traded nothing.
LEMMA BtInitHolds == BtInit => BtInv
<1> SUFFICES ASSUME BtInit PROVE BtInv
  OBVIOUS
<1>0. /\ fast = FALSE /\ candles = [s \in Symbols |-> {}]
      /\ scan = NSymbols + 1 /\ clock = 0 /\ finished = TRUE
      /\ positions = [i \in PosIds |-> NoPosition] /\ trade = [i \in PosIds |-> NoTrade]
      /\ report = {} /\ balance = Capital
      /\ price = [s \in Symbols |-> Min(PricesOf[s])]
      /\ pricedAt = [s \in Symbols |-> 0] /\ entered = [s \in Symbols |-> 0]
  BY DEF BtInit, Never
<1>1. ASSUME NEW s \in Symbols PROVE Min(PricesOf[s]) \in Nat
  BY HistoryAssumption, PriceAssumption, LeastElement
<1>2. 0 \in 0..NTimes /\ NSymbols + 1 \in 1..(NSymbols + 1) /\ NSymbols + 1 \notin Symbols
      /\ NPos \in Nat /\ PosIds = 1..NPos
  BY HistoryFacts
<1>3. /\ NoTrade \in Trades /\ NoTrade.result = 0 /\ NoTrade.opened = Never /\ NoTrade.pnl = 0
      /\ NoTrade.how = "open" /\ ~NoTrade.sold
  BY <1>2, HistoryFacts DEF NoTrade, Trades
<1>4. Capital \in Nat
  BY MoneyAssumption
<1>5. BtTypes
  <2>1. price \in [Symbols -> Nat]
    BY <1>0, <1>1
  <2>2. positions \in [PosIds -> Position] /\ \A i \in PosIds : Protected(positions[i])
    BY <1>0, EmptyType
  <2>3. candles \in [Symbols -> SUBSET Times] /\ balance \in Int /\ report \subseteq PosIds
    BY <1>0, <1>4
  <2>4. trade \in [PosIds -> Trades]
    BY <1>0, <1>3
  <2>5. pricedAt \in [Symbols -> 0..NTimes] /\ entered \in [Symbols -> 0..NTimes]
    BY <1>0, <1>2
  <2>6. /\ fast \in BOOLEAN /\ finished \in BOOLEAN
        /\ scan \in 1..(NSymbols + 1) /\ clock \in 0..NTimes
    BY <1>0, <1>2
  <2> QED  BY <2>1, <2>2, <2>3, <2>4, <2>5, <2>6 DEF BtTypes
<1>6. VisitInv
  BY <1>0 DEF VisitInv, Simulating
<1>7. TradeInv
  BY <1>0, <1>3, EmptyType DEF TradeInv, IsOpen
<1>8. LookInv
  BY <1>0, <1>3, HistoryFacts DEF LookInv, Entered
<1>9. MoneyInv
  <2> DEFINE f == [i \in PosIds |-> Reported(i)]
  <2>1. f \in [1..NPos -> Int] /\ \A i \in 1..NPos : f[i] = 0
    BY <1>0, <1>2, <1>3 DEF Reported
  <2> HIDE DEF f
  <2>2. SumTo(f, NPos) = 0
    BY <1>2, <2>1, SumZero
  <2>3. SumTo(f, NPos) = balance - Capital
    BY <1>0, <1>4, <2>2
  <2> QED  BY <2>3 DEF MoneyInv, f
<1> QED  BY <1>5, <1>6, <1>7, <1>8, <1>9 DEF BtInv

\* Nothing that the simulation knows changes.
LEMMA BtRests ==
  ASSUME BtInv, UNCHANGED allVars
  PROVE  BtInv'
<1>1. /\ UNCHANGED <<fast, candles, clock, trade, report, pricedAt, entered, finished>>
      /\ UNCHANGED <<positions, price, balance, scan>>
  BY DEF allVars, vars, btVars
<1>2. BtTypes' /\ VisitInv'
  BY <1>1 DEF BtInv, BtTypes, VisitInv, Simulating
<1>3. TradeInv' /\ LookInv'
  BY <1>1 DEF BtInv, TradeInv, IsOpen, LookInv, OneSymbol, Entered
<1>4. MoneyInv'
  BY <1>1, MoneyRests DEF BtInv
<1> QED  BY <1>2, <1>3, <1>4 DEF BtInv

\* Every step of a job keeps the invariant of its simulation.
LEMMA JobNextKeeps ==
  ASSUME BtInv, [JobNext]_jobVars
  PROVE  BtInv'
<1>1. CASE UNCHANGED allVars
  BY <1>1, BtRests
<1>2. CASE LoadsAndRuns
  <2>1. PICK c \in [Symbols -> SUBSET Times] : RunBacktest(job.for # "script", c)
    BY <1>2 DEF LoadsAndRuns
  <2>2. (job.for # "script") \in BOOLEAN
    OBVIOUS
  <2> QED  BY <2>1, <2>2, RunBacktestKeeps
<1>3. CASE ManageAnyCandle
  <2>1. PICK low \in PricesOf[scan], px \in PricesOf[scan], high \in PricesOf[scan], atr \in Atrs,
             taken \in SUBSET Opened, turned \in SUBSET {positions[i].side : i \in Opened} :
               \E liquidated \in SUBSET taken :
                   ManageCandle(low, px, high, atr, turned, taken, liquidated)
    BY <1>3 DEF ManageAnyCandle
  <2>2. PICK liquidated \in SUBSET taken :
               ManageCandle(low, px, high, atr, turned, taken, liquidated)
    BY <2>1
  <2> QED  BY <2>2, ManageCandleKeeps
<1>4. CASE EnterOnAnySignal
  <2>1. PICK i \in PosIds, side \in Sides, dist \in StopDistances, gf \in GridFactors,
             slip \in Slips, atr \in Atrs :
               \E qty \in 1..BtSizedQty(price[scan], dist, gf) :
                   EnterCandle(i, side, dist, gf, slip, qty, atr)
    BY <1>4 DEF EnterOnAnySignal
  <2>2. PICK qty \in 1..BtSizedQty(price[scan], dist, gf) :
               EnterCandle(i, side, dist, gf, slip, qty, atr)
    BY <2>1
  <2> QED  BY <2>2, EnterCandleKeeps
<1>5. CASE NoEntryOnCandle
  BY <1>5, NoEntryOnCandleKeeps
<1>6. CASE Finish
  BY <1>6, FinishKeeps
<1>7. UNCHANGED allVars \/ LoadsAndRuns \/ BtNext
  BY DEF JobNext, LoadsNothing, jobVars
<1> QED  BY <1>1, <1>2, <1>3, <1>4, <1>5, <1>6, <1>7 DEF BtNext

\* The simulation of a job keeps its invariant.
LEMMA BacktestHolds == JobSpec => []BtInv
<1>1. JobInit => BtInv
  BY BtInitHolds DEF JobInit
<1>2. BtInv /\ [JobNext]_jobVars => BtInv'
  BY JobNextKeeps
<1> QED  BY <1>1, <1>2, PTL DEF JobSpec

\* What sizes an entry is never newer than the entry (backtest.py:1), on every
\* history of every number of symbols and times.
THEOREM NeverLooksAhead == JobSpec => []NoLookAhead
<1>1. BtInv => NoLookAhead
  BY DEF BtInv, LookInv, NoLookAhead
<1> QED  BY <1>1, BacktestHolds, PTL

\* The reported trades explain what was made or lost (backtest.py), whatever
\* is liquidated, sold in part or closed at the end.
THEOREM ReportsAddUp == JobSpec => []ReportAddsUp
<1>1. BtInv => ReportAddsUp
  BY DEF BtInv, MoneyInv, Explained, Reported, ReportAddsUp
<1> QED  BY <1>1, BacktestHolds, PTL

\* A position that ends by its exit does so on a candle, at the price that
\* ExitPrice says.
LEMMA ExitsOnCandle ==
  ASSUME BtInv, [JobNext]_jobVars, NEW i \in PosIds, IsOpen(i), trade'[i].how = "exit"
  PROVE  price'[positions[i].sym] \in Int
         /\ trade'[i].fill = ExitPrice(positions[i], price'[positions[i].sym])
<1>0. trade[i].how = "open" /\ BtTypes /\ clock \in 0..NTimes
  BY DEF BtInv, TradeInv, BtTypes
<1>1. trade' # trade
  BY <1>0
<1>2. CASE ManageAnyCandle
  <2>1. PICK low \in PricesOf[scan], px \in PricesOf[scan], high \in PricesOf[scan], atr \in Atrs,
             taken \in SUBSET Opened, turned \in SUBSET {positions[j].side : j \in Opened} :
               \E liquidated \in SUBSET taken :
                   ManageCandle(low, px, high, atr, turned, taken, liquidated)
    BY <1>2 DEF ManageAnyCandle
  <2>2. PICK liquidated \in SUBSET taken :
               ManageCandle(low, px, high, atr, turned, taken, liquidated)
    BY <2>1
  <2>3. PICK d \in [PosIds -> Int] :
               \A j \in PosIds : OnCandle(j, d[j], taken, liquidated, ExitPrice(positions[j], px))
    BY <1>0, <2>2, CandleTrades
  <2>4. /\ trade'[i].fill = ExitPrice(positions[i], px) /\ positions[i].sym = scan
    BY <1>0, <2>3 DEF OnCandle
  <2>5. price'[scan] = px /\ px \in Int
    <3>1. scan \in Symbols /\ price' = [price EXCEPT ![scan] = px]
      BY <2>2 DEF ManageCandle, Simulating
    <3> QED  BY <1>0, <3>1, PriceAssumption DEF BtTypes
  <2> QED  BY <2>4, <2>5
<1>3. CASE EnterOnAnySignal
  <2>1. PICK j \in PosIds, side \in Sides, dist \in StopDistances, gf \in GridFactors,
             slip \in Slips, atr \in Atrs :
               \E qty \in 1..BtSizedQty(price[scan], dist, gf) :
                   EnterCandle(j, side, dist, gf, slip, qty, atr)
    BY <1>3 DEF EnterOnAnySignal
  <2>2. /\ positions[j].state = "none"
        /\ trade' = [trade EXCEPT ![j] = [NoTrade EXCEPT !.opened = clock, !.knew = NewestKnown]]
    BY <2>1 DEF EnterCandle
  <2>3. j # i
    BY <2>2 DEF IsOpen
  <2>4. trade'[i] = trade[i]
    BY <1>0, <2>2, <2>3 DEF BtTypes
  <2> QED  BY <1>0, <2>4
<1>4. CASE Finish
  <2> DEFINE gain(j) == positions[j].qty * Gain(positions[j], price[positions[j].sym])
             t == Booked(trade[i], gain(i))
  <2>1. trade'[i] = [t EXCEPT !.how = "end"]
    BY <1>4 DEF Finish
  <2>2. gain(i) \in Int
    <3>1. positions[i] \in Position /\ positions[i].qty \in Nat /\ positions[i].sym \in Symbols
      BY <1>0 DEF BtTypes, Position
    <3>2. price[positions[i].sym] \in Int
      BY <1>0, <3>1 DEF BtTypes
    <3> QED  BY <3>1, <3>2, WorthType
  <2>3. t \in Trades
    <3> HIDE DEF gain
    <3> QED  BY <1>0, <2>2, BookedFacts DEF BtTypes
  <2> HIDE DEF t
  <2>4. trade'[i].how = "end"
    BY <2>1, <2>3 DEF Trades
  <2> QED  BY <2>4
<1>5. ManageAnyCandle \/ EnterOnAnySignal \/ Finish
  BY <1>1 DEF JobNext, LoadsNothing, LoadsAndRuns, RunBacktest, jobVars, allVars, btVars,
     BtNext, NoEntryOnCandle
<1> QED  BY <1>2, <1>3, <1>4, <1>5

\* No exit gets a better price than the close of its candle nor, candle by
\* candle, than its stop (backtest.py:8), whatever the prices and the stops.
THEOREM ExitsGetTheWorst == JobSpec => ExitsArePessimistic
<1>1. ASSUME BtInv, [JobNext]_jobVars
      PROVE  [\A i \in PosIds : IsOpen(i) /\ trade'[i].how = "exit" =>
                 LET p == positions[i]
                 IN  /\ AsTight(p.side, price'[p.sym], trade'[i].fill)
                     /\ ~fast => AsTight(p.side, p.stop, trade'[i].fill)]_allVars
  <2> SUFFICES ASSUME NEW i \in PosIds, IsOpen(i), trade'[i].how = "exit"
               PROVE  /\ AsTight(positions[i].side, price'[positions[i].sym], trade'[i].fill)
                      /\ ~fast => AsTight(positions[i].side, positions[i].stop, trade'[i].fill)
    OBVIOUS
  <2>1. price'[positions[i].sym] \in Int
        /\ trade'[i].fill = ExitPrice(positions[i], price'[positions[i].sym])
    BY <1>1, ExitsOnCandle
  <2>2. positions[i].stop \in Int /\ positions[i].side \in Sides
    BY <1>1 DEF BtInv, BtTypes, Position
  <2> QED  BY <2>1, <2>2 DEF ExitPrice, AsTight, Higher, Lower, Sides
<1> QED  BY <1>1, BacktestHolds, PTL DEF JobSpec, ExitsArePessimistic

=============================================================================
