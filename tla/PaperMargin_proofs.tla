------------------------- MODULE PaperMargin_proofs -------------------------
(***************************************************************************)
(* Proofs about the paper margin account, for every number of positions,   *)
(* every set of prices, leverages and amounts, and every fee and rate.     *)
(***************************************************************************)
EXTENDS PaperMargin, Sums_proofs

-----------------------------------------------------------------------------
(* Arithmetic *)

\* A product can be cancelled from an inequality of integers.
LEMMA Cancel ==
  ASSUME NEW a \in Int, NEW b \in Int, NEW w \in Nat \ {0}, a * w <= b * w
  PROVE  a <= b
<1> SUFFICES ASSUME a >= b + 1 PROVE FALSE
  OBVIOUS
<1>1. a * w >= (b + 1) * w
  OBVIOUS
<1>2. (b + 1) * w = b * w + w
  OBVIOUS
<1> QED  BY <1>1, <1>2

\* The share of x that goes with q of n units is a part of x.
LEMMA ShareIsPart ==
  ASSUME NEW x \in Nat, NEW n \in Nat \ {0}, NEW q \in 1..n
  PROVE  /\ (x * q) \div n \in Nat
         /\ (x * q) \div n <= x
<1> DEFINE y == x * q
           d == y \div n
<1>1. y \in Nat /\ y <= x * n
  <2>1. x * q \in Nat
    OBVIOUS
  <2>2. x * n = x * q + x * (n - q)
    OBVIOUS
  <2>3. x * (n - q) >= 0
    OBVIOUS
  <2> QED  BY <2>1, <2>2, <2>3
<1> HIDE DEF y
<1>2. d \in Nat /\ n * d <= y
  BY <1>1
<1> HIDE DEF d
<1>3. d * n <= x * n
  BY <1>1, <1>2
<1>4. d <= x
  BY <1>2, <1>3, Cancel
<1> QED  BY <1>2, <1>4 DEF d, y

-----------------------------------------------------------------------------
(* Opening *)

\* Every leverage in use divides the money unit.
LEMMA LeverageType ==
  ASSUME NEW rc \in RiskCoefs
  PROVE  /\ Leverage(rc) \in Nat \ {0}
         /\ Scale \div Leverage(rc) \in Nat
         /\ Scale \div Leverage(rc) <= Scale
         /\ Leverage(rc) * (Scale \div Leverage(rc)) = Scale
<1> DEFINE lev == Leverage(rc)
<1>1. lev \in Nat \ {0}
  BY RateAssumption DEF Leverage
<1>2. lev \in Leverages
  BY DEF Leverages, Leverage
<1>3. Scale % lev = 0 /\ Scale \in Nat
  BY <1>2, ExactAssumption, RateAssumption
<1> HIDE DEF lev
<1>4. Scale \div lev \in Nat /\ lev * (Scale \div lev) = Scale
  BY <1>1, <1>3
<1>5. Scale \div lev <= Scale
  BY <1>1, <1>4
<1> QED  BY <1>1, <1>4, <1>5 DEF lev

\* An order that _open fills, shrunk or not, costs at most the free balance:
\* what it set aside for the fee of the larger order makes up for the fee of
\* the leveraged notional, which the division leaves out.
LEMMA OrderFits ==
  ASSUME NEW A \in Nat, NEW q \in Nat, NEW x \in Nat \ {0}, NEW s \in Nat,
         NEW lev \in Nat \ {0}, lev * s = Scale, A = Available, s = Scale \div lev,
         OrderQty(q, x, lev) > 0
  PROVE  /\ OrderQty(q, x, lev) \in Nat
         /\ Collateral(OrderQty(q, x, lev), x, lev) + Fee(OrderQty(q, x, lev), x) <= A
<1> DEFINE F == FeeRate
           c == s + F
           o == OrderQty(q, x, lev)
<1>1. F \in Nat /\ c \in Nat /\ Scale \in Nat \ {0}
  BY RateAssumption
<1>2. \A n : Collateral(n, x, lev) = n * x * s /\ Fee(n, x) = n * x * F
  BY DEF Collateral, Fee
<1>3. \A n \in Nat : n * x * s + n * x * F = (n * x) * c
  <2>1. SUFFICES ASSUME NEW n \in Nat PROVE n * x * s + n * x * F = (n * x) * c
    OBVIOUS
  <2> DEFINE m == n * x
  <2>2. m \in Nat
    OBVIOUS
  <2> HIDE DEF m
  <2>3. m * s + m * F = m * (s + F)
    BY <2>2, <1>1
  <2> QED  BY <2>3 DEF m
<1>4. CASE Collateral(q, x, lev) + Fee(q, x) <= A
  <2>1. o = q
    BY <1>4, <1>1, <1>2 DEF OrderQty
  <2> QED  BY <1>4, <2>1
<1>5. CASE Collateral(q, x, lev) + Fee(q, x) > A
  <2> DEFINE fee == Fee(q, x)
             D == 1000 * x * (Scale + F)
             N == (A - fee) * lev * 999
  <2>1. fee \in Nat /\ fee = q * x * F
    BY <1>1, <1>2
  <2>2. D \in Nat \ {0} /\ N \in Int
    BY <1>1, <2>1
  <2>3. o = N \div D
    BY <1>5 DEF OrderQty, Affordable
  <2> HIDE DEF D, N, fee
  <2>4. o \in Int /\ D * o <= N
    BY <2>2, <2>3
  <2> HIDE DEF o
  <2>5. o \in Nat
    BY <2>4 DEF o
  <2>6. (q * x) * c > A
    BY <1>5, <1>2, <1>3
  <2>7. fee * c >= F * A
    <3>1. fee * c = F * ((q * x) * c)
      BY <2>1, <1>1
    <3>2. F * ((q * x) * c) >= F * A
      BY <2>6, <1>1
    <3> QED  BY <3>1, <3>2
  <2>8. (A - fee) * c <= A * s
    <3>1. (A - fee) * c = A * c - fee * c
      BY <1>1, <2>1
    <3>2. A * c = A * s + F * A
      BY <1>1
    <3>3. fee * c \in Int /\ F * A \in Int /\ A * s \in Int
      BY <1>1, <2>1
    <3> QED  BY <3>1, <3>2, <3>3, <2>7
  <2> DEFINE W == 1000 * (Scale + F)
             C == (o * x) * c
  <2>9. W \in Nat \ {0} /\ C \in Nat
    BY <1>1, <2>5
  <2>10. C * W = (D * o) * c
    BY <1>1, <2>5 DEF D
  <2>11. (D * o) * c <= N * c
    BY <2>4, <2>2, <1>1
  <2>12. N * c = (999 * lev) * ((A - fee) * c)
    BY <1>1, <2>1 DEF N
  <2>13. (999 * lev) * ((A - fee) * c) <= (999 * lev) * (A * s)
    BY <2>8, <1>1, <2>1
  <2>14. (999 * lev) * (A * s) = 999 * (A * Scale)
    BY <1>1
  <2>15. 999 * (A * Scale) <= A * W
    <3>1. A * W = 1000 * (A * Scale) + 1000 * (A * F)
      BY <1>1
    <3>2. A * Scale \in Nat /\ A * F \in Nat
      BY <1>1
    <3> QED  BY <3>1, <3>2
  <2>16. C * W <= A * W
    <3>1. /\ C * W \in Int /\ (D * o) * c \in Int /\ N * c \in Int /\ A * W \in Int
          /\ (999 * lev) * ((A - fee) * c) \in Int /\ (999 * lev) * (A * s) \in Int
      BY <2>9, <2>2, <2>5, <1>1, <2>1
    <3> QED  BY <3>1, <2>10, <2>11, <2>12, <2>13, <2>14, <2>15
  <2>17. C <= A
    BY <2>9, <2>16, Cancel
  <2> QED  BY <2>5, <2>17, <1>2, <1>3 DEF o
<1>6. Collateral(q, x, lev) + Fee(q, x) \in Int
  BY <1>1, <1>2
<1> QED  BY <1>4, <1>5, <1>6

-----------------------------------------------------------------------------
(* The invariant *)

\* What a position that is still open needs besides its types: units to
\* close.
UnitsLeft == \A i \in PosIds : IsOpen(i) => positions[i].qty > 0

MarginInv == MarginTypeOK /\ UnitsLeft /\ MarginSolvent

\* A position whose times are in order.
Timely(p) == p.opened <= p.last /\ p.last <= now

\* A price a position is closed at is a natural number, and its result an
\* integer.
LEMMA ResultType ==
  ASSUME NEW p \in Position, NEW q \in 1..p.qty, NEW at \in Prices
  PROVE  CloseResult(p, q, at) \in Int
<1> DEFINE f == CloseFill(p, at)
           r == [p EXCEPT !.qty = q]
<1>1. f \in Nat
  BY PriceAssumption DEF CloseFill
<1> HIDE DEF f
<1>2. /\ p.qty \in Nat /\ p.entry \in Nat /\ p.interest \in Nat
      /\ r.qty = q /\ r.entry = p.entry /\ r.side = p.side
  BY DEF Position
<1>3. q \in Nat /\ Scale \in Nat /\ FeeRate \in Nat
  BY <1>2, RateAssumption
<1> HIDE DEF r
<1>4. Upnl(r, f) \in Int
  <2>1. p.entry - f \in Int /\ f - p.entry \in Int
    BY <1>1, <1>2
  <2>2. q * (p.entry - f) * Scale \in Int /\ q * (f - p.entry) * Scale \in Int
    BY <2>1, <1>3
  <2> QED  BY <1>2, <2>2 DEF Upnl
<1>5. Share(p.interest, q, p) \in Nat
  BY <1>2, ShareIsPart DEF Share
<1>6. Fee(q, f) \in Nat
  BY <1>1, <1>3 DEF Fee
<1>7. CloseResult(p, q, at) = Upnl(r, f) - Share(p.interest, q, p) - Fee(q, f)
  BY DEF CloseResult, r, f
<1> QED  BY <1>4, <1>5, <1>6, <1>7

\* Closing units of a position returns a natural number, leaves a position
\* with the remaining units, and leaves its times alone.
LEMMA CloseType ==
  ASSUME NEW p \in Position, NEW q \in 1..p.qty, NEW at \in Prices
  PROVE  /\ Returned(p, q, at) \in Nat
         /\ AfterClose(p, q, at) \in Position
         /\ AfterClose(p, q, at).opened = p.opened
         /\ AfterClose(p, q, at).last = p.last
         /\ q = p.qty => AfterClose(p, q, at).state = "closed"
         /\ q # p.qty => AfterClose(p, q, at).qty > 0
<1>1. CloseResult(p, q, at) \in Int
  BY ResultType
<1>2. /\ p.qty \in Nat \ {0} /\ p.collateral \in Nat /\ p.loan \in Nat
      /\ p.interest \in Nat /\ p.pnl \in Int
  BY DEF Position
<1>3. \A x \in Nat : Share(x, q, p) \in Nat /\ Share(x, q, p) <= x
  BY <1>2, ShareIsPart DEF Share
<1>4. Returned(p, q, at) \in Nat
  BY <1>1, <1>2, <1>3 DEF Returned, AtLeastZero
<1>5. p.pnl + CloseResult(p, q, at) \in Int
  BY <1>1, <1>2
<1>6. CASE q = p.qty
  BY <1>4, <1>5, <1>6 DEF AfterClose, Position
<1>7. CASE q # p.qty
  <2>1. /\ p.qty - q \in Nat /\ p.qty - q > 0
        /\ p.collateral - Share(p.collateral, q, p) \in Nat
        /\ p.loan - Share(p.loan, q, p) \in Nat
        /\ p.interest - Share(p.interest, q, p) \in Nat
    BY <1>2, <1>3, <1>7
  <2> QED  BY <1>4, <1>5, <1>7, <2>1 DEF AfterClose, Position
<1> QED  BY <1>6, <1>7

\* Charging interest keeps the types, never charges ahead of the clock, and
\* touches nothing but the interest and its time.
LEMMA AccruedType ==
  ASSUME NEW p \in Position, now \in Nat, Timely(p)
  PROVE  /\ Accrued(p) \in Position
         /\ Accrued(p).opened = p.opened
         /\ p.last <= Accrued(p).last /\ Accrued(p).last <= now
         /\ Accrued(p).qty = p.qty /\ Accrued(p).state = p.state
<1> DEFINE n == Periods(p)
           d == now - p.last
<1>1. /\ p.last \in Nat /\ p.opened \in Nat /\ p.loan \in Nat /\ p.interest \in Nat
      /\ d \in Nat /\ Period \in Nat \ {0} /\ InterestDiv \in Nat \ {0}
  BY TimeAssumption, RateAssumption DEF Position, Timely
<1>2. n = d \div Period
  BY DEF Periods
<1> HIDE DEF n, d
<1>3. n \in Nat /\ Period * n <= d
  BY <1>1, <1>2
<1>4. n * Period \in Nat /\ p.last + n * Period \in Nat /\ n * Period <= d
  BY <1>1, <1>3
<1>5. p.last <= p.last + n * Period /\ p.last + n * Period <= now
  BY <1>1, <1>4 DEF d
<1>6. (p.loan * n) \div InterestDiv \in Nat
  <2>1. p.loan * n \in Nat
    BY <1>1, <1>3
  <2> QED  BY <1>1, <2>1
<1>7. p.interest + (p.loan * n) \div InterestDiv \in Nat
  BY <1>1, <1>6
<1>8. CASE n > 0 /\ p.loan > 0
  <2>1. Accrued(p) = [p EXCEPT !.interest = @ + (p.loan * n) \div InterestDiv,
                               !.last = @ + n * Period]
    BY <1>8 DEF Accrued, n
  <2> QED  BY <2>1, <1>4, <1>5, <1>7 DEF Position
<1>9. CASE ~(n > 0 /\ p.loan > 0)
  <2>1. Accrued(p) = p
    BY <1>9 DEF Accrued, n
  <2> QED  BY <2>1, <1>1 DEF Timely
<1> QED  BY <1>8, <1>9

\* Maintenance of an open position keeps it well-typed and timely, keeps
\* units in it while it stays open, and returns a natural number.
LEMMA MaintainedType ==
  ASSUME NEW p \in Position, now \in Nat, price \in Prices, Timely(p), p.qty > 0,
         NEW lo, NEW hi
  PROVE  /\ Maintained(p, lo, hi) \in Position
         /\ Timely(Maintained(p, lo, hi))
         /\ Maintained(p, lo, hi).state = "open" => Maintained(p, lo, hi).qty > 0
         /\ ReturnedBy(p, lo, hi) \in Nat
<1> DEFINE a == Accrued(p)
<1>1. /\ a \in Position /\ a.opened = p.opened /\ p.last <= a.last /\ a.last <= now
      /\ a.qty = p.qty /\ a.state = p.state
  BY AccruedType
<1>2. p.opened \in Nat /\ p.last \in Nat /\ p.qty \in Nat /\ a.last \in Nat
  BY <1>1 DEF Position
<1>3. Timely(a)
  BY <1>1, <1>2 DEF Timely
<1>4. /\ Maintained(p, lo, hi) = CASE Liquidated(a, lo, hi) -> AfterLiquidation(a)
                                   [] ~Liquidated(a, lo, hi) /\ Expired(a) -> AfterClose(a, a.qty, price)
                                   [] OTHER -> a
      /\ ReturnedBy(p, lo, hi) =
           IF ~Liquidated(a, lo, hi) /\ Expired(a) THEN Returned(a, a.qty, price) ELSE 0
  BY DEF Maintained, ReturnedBy
<1> HIDE DEF a
<1>5. CASE Liquidated(a, lo, hi)
  <2>1. /\ AfterLiquidation(a) \in Position /\ AfterLiquidation(a).state = "closed"
        /\ AfterLiquidation(a).opened = a.opened /\ AfterLiquidation(a).last = a.last
    <3>1. -(a.collateral + a.interest) \in Int
      BY <1>1 DEF Position
    <3> QED  BY <1>1, <3>1 DEF AfterLiquidation, Position
  <2> QED  BY <1>4, <1>5, <1>3, <2>1 DEF Timely
<1>6. CASE ~Liquidated(a, lo, hi) /\ Expired(a)
  <2>1. a.qty \in 1..a.qty
    BY <1>1, <1>2
  <2>2. /\ Returned(a, a.qty, price) \in Nat
        /\ AfterClose(a, a.qty, price) \in Position
        /\ AfterClose(a, a.qty, price).opened = a.opened
        /\ AfterClose(a, a.qty, price).last = a.last
        /\ AfterClose(a, a.qty, price).state = "closed"
    BY <1>1, <2>1, CloseType
  <2> QED  BY <1>4, <1>6, <1>3, <2>2 DEF Timely
<1>7. CASE ~Liquidated(a, lo, hi) /\ ~Expired(a)
  BY <1>1, <1>3, <1>4, <1>7
<1> QED  BY <1>5, <1>6, <1>7

-----------------------------------------------------------------------------
(* The invariant is inductive *)

\* At first the account is empty.
LEMMA MarginInit == Init => MarginInv
BY AmountAssumption, PriceAssumption
   DEF Init, MarginInv, MarginTypeOK, UnitsLeft, MarginSolvent, IsOpen, PosIds, Position, NoPosition

\* An order costs what is free at most, and leaves a position with units.
LEMMA OpenKeepsInv ==
  ASSUME MarginInv, NEW i \in PosIds, NEW side \in {"long", "short"}, NEW q \in Qtys,
         NEW rc \in RiskCoefs, NEW slip \in OpenSlips, Open(i, side, q, rc, slip)
  PROVE  MarginInv'
<1> DEFINE x == OpenFill(side, price, slip)
           lev == Leverage(rc)
           o == OrderQty(q, x, lev)
           s == Scale \div lev
           cost == Collateral(o, x, lev) + Fee(o, x)
           new == [state |-> "open", side |-> side, qty |-> o, entry |-> x, lev |-> lev,
                   collateral |-> Collateral(o, x, lev),
                   loan |-> o * x * (Scale - Scale \div lev),
                   liq |-> LiquidationPrice(side, x, lev),
                   interest |-> 0, opened |-> now, last |-> now, pnl |-> 0]
<1>1. /\ x \in Nat \ {0} /\ q \in Nat
      /\ Scale \in Nat \ {0} /\ FeeRate \in Nat /\ MaintRate \in Nat
  <2>1. price \in Nat \ {0} /\ slip \in Nat /\ slip < price
    BY PriceAssumption DEF MarginInv, MarginTypeOK
  <2> QED  BY <2>1, RateAssumption, AmountAssumption DEF OpenFill
<1>2. lev \in Nat \ {0} /\ s \in Nat /\ s <= Scale /\ lev * s = Scale
  BY LeverageType
<1>3. Accepted(o, x, lev) /\ o > 0
  BY DEF Open, Accepted
<1>4. Available \in Nat /\ Available <= cash
  BY DEF MarginInv, MarginTypeOK, MarginSolvent, Available, AtLeastZero
<1>5. positions' = [positions EXCEPT ![i] = new] /\ cash' = cash - cost
  BY DEF Open
<1>6. UNCHANGED <<reserved, price, now, funding>>
  BY DEF Open
<1> HIDE DEF x, lev
<1>7. o \in Nat /\ cost <= Available
  BY <1>1, <1>2, <1>3, <1>4, OrderFits
<1> HIDE DEF o, s
<1>8. Collateral(o, x, lev) \in Nat /\ Fee(o, x) \in Nat
  BY <1>1, <1>2, <1>7 DEF Collateral, Fee, s
<1>9. o * x * (Scale - Scale \div lev) \in Nat
  <2>1. Scale - Scale \div lev \in Nat
    BY <1>1, <1>2 DEF s
  <2> QED  BY <2>1, <1>1, <1>7
<1>10. LiquidationPrice(side, x, lev) \in Int
  <2>1. lev * Scale \in Nat \ {0}
    BY <1>1, <1>2
  <2>2. /\ x * (lev * Scale - (Scale - MaintRate)) \in Int
        /\ -(x * (lev * Scale + (Scale - MaintRate))) \in Int
    BY <2>1, <1>1
  <2> DEFINE u == x * (lev * Scale - (Scale - MaintRate))
             v == -(x * (lev * Scale + (Scale - MaintRate)))
             w == lev * Scale
  <2> HIDE DEF u, v, w
  <2>3. u \div w \in Int /\ -(v \div w) \in Int
    BY <2>1, <2>2 DEF u, v, w
  <2> QED  BY <2>3 DEF LiquidationPrice, u, v, w
<1>11. now \in Nat
  BY DEF MarginInv, MarginTypeOK
<1>12. new \in Position
  BY <1>1, <1>2, <1>7, <1>8, <1>9, <1>10, <1>11 DEF Position
<1>13. /\ new.state = "open" /\ new.qty > 0
       /\ new.opened <= new.last /\ new.last <= now
  BY <1>3, <1>11 DEF o
<1>14. cash' \in Int /\ cash' >= 0
  BY <1>4, <1>5, <1>7, <1>8 DEF MarginInv, MarginTypeOK
<1> HIDE DEF new, cost
<1>15. positions' \in [PosIds -> Position]
  BY <1>5, <1>12 DEF MarginInv, MarginTypeOK
<1>16. \A j \in PosIds : positions'[j] = IF j = i THEN new ELSE positions[j]
  BY <1>5 DEF MarginInv, MarginTypeOK
<1>17. MarginTypeOK'
  BY <1>6, <1>13, <1>14, <1>15, <1>16 DEF MarginInv, MarginTypeOK
<1>18. UnitsLeft'
  BY <1>13, <1>16 DEF MarginInv, UnitsLeft, IsOpen
<1> QED  BY <1>14, <1>17, <1>18 DEF MarginInv, MarginSolvent

\* Closing only adds to the cash.
LEMMA CloseKeepsInv ==
  ASSUME MarginInv, NEW i \in PosIds, NEW q \in 1..positions[i].qty, Close(i, q)
  PROVE  MarginInv'
<1> DEFINE p == positions[i]
           new == AfterClose(p, q, price)
           r == Returned(p, q, price)
<1>1. p \in Position /\ price \in Prices /\ q \in 1..p.qty
  BY DEF MarginInv, MarginTypeOK
<1>2. p.opened <= p.last /\ p.last <= now
  BY DEF MarginInv, MarginTypeOK
<1>3. positions' = [positions EXCEPT ![i] = new] /\ cash' = cash + r
  BY DEF Close
<1>4. UNCHANGED <<reserved, price, now, funding>>
  BY DEF Close
<1> HIDE DEF p
<1>5. /\ r \in Nat /\ new \in Position
      /\ new.opened = p.opened /\ new.last = p.last
      /\ new.state = "open" => new.qty > 0
  BY <1>1, CloseType
<1> HIDE DEF new, r
<1>6. positions' \in [PosIds -> Position]
  BY <1>3, <1>5 DEF MarginInv, MarginTypeOK
<1>7. \A j \in PosIds : positions'[j] = IF j = i THEN new ELSE positions[j]
  BY <1>3 DEF MarginInv, MarginTypeOK
<1>8. cash' \in Int /\ cash' >= 0
  BY <1>3, <1>5 DEF MarginInv, MarginTypeOK, MarginSolvent
<1>9. MarginTypeOK'
  BY <1>2, <1>4, <1>5, <1>6, <1>7, <1>8 DEF MarginInv, MarginTypeOK
<1>10. UnitsLeft'
  BY <1>5, <1>7 DEF MarginInv, UnitsLeft, IsOpen
<1> QED  BY <1>8, <1>9, <1>10 DEF MarginInv, MarginSolvent

\* Maintenance only adds to the cash: a liquidation returns nothing, and an
\* expired position what its collateral still holds.
LEMMA MaintainKeepsInv ==
  ASSUME MarginInv, NEW lo, NEW hi, MaintainAll(lo, hi)
  PROVE  MarginInv'
<1> DEFINE back == [i \in PosIds |-> IF IsOpen(i) THEN ReturnedBy(positions[i], lo, hi) ELSE 0]
<1>1. /\ positions' = [i \in PosIds |->
             IF IsOpen(i) THEN Maintained(positions[i], lo, hi) ELSE positions[i]]
      /\ cash' = cash + SumTo(back, NPos)
      /\ UNCHANGED <<reserved, price, now, funding>>
  BY DEF MaintainAll
<1>2. ASSUME NEW i \in PosIds
      PROVE  /\ positions'[i] \in Position
             /\ positions'[i].opened <= positions'[i].last /\ positions'[i].last <= now
             /\ positions'[i].state = "open" => positions'[i].qty > 0
             /\ back[i] \in Nat
  <2>1. positions[i] \in Position /\ now \in Nat /\ price \in Prices /\ Timely(positions[i])
    BY DEF MarginInv, MarginTypeOK, Timely
  <2>2. CASE IsOpen(i)
    <3>1. positions[i].qty > 0
      BY <2>2 DEF MarginInv, UnitsLeft
    <3>2. /\ Maintained(positions[i], lo, hi) \in Position
          /\ Timely(Maintained(positions[i], lo, hi))
          /\ Maintained(positions[i], lo, hi).state = "open" => Maintained(positions[i], lo, hi).qty > 0
          /\ ReturnedBy(positions[i], lo, hi) \in Nat
      BY <2>1, <3>1, MaintainedType
    <3>3. positions'[i] = Maintained(positions[i], lo, hi) /\ back[i] = ReturnedBy(positions[i], lo, hi)
      BY <1>1, <2>2
    <3> QED  BY <3>2, <3>3 DEF Timely
  <2>3. CASE ~IsOpen(i)
    <3>1. positions'[i] = positions[i] /\ back[i] = 0
      BY <1>1, <2>3
    <3> QED  BY <2>1, <2>3, <3>1 DEF IsOpen, Timely
  <2> QED  BY <2>2, <2>3
<1> HIDE DEF back
<1>3. SumTo(back, NPos) \in Nat
  <2>1. back \in [1..NPos -> Nat]
    BY <1>2 DEF back, PosIds
  <2>2. NPos \in Nat /\ NPos \in 0..NPos
    BY SizeAssumption
  <2> QED  BY <2>1, <2>2, SumNat
<1>4. positions' \in [PosIds -> Position]
  BY <1>1, <1>2
<1>5. cash' \in Int /\ cash' >= 0
  BY <1>1, <1>3 DEF MarginInv, MarginTypeOK, MarginSolvent
<1>6. MarginTypeOK'
  BY <1>1, <1>2, <1>4, <1>5 DEF MarginInv, MarginTypeOK
<1>7. UnitsLeft'
  BY <1>2 DEF UnitsLeft, IsOpen
<1> QED  BY <1>5, <1>6, <1>7 DEF MarginInv, MarginSolvent

\* Every step keeps the account within its types and its deposits.
LEMMA MarginStep == MarginInv /\ [Next]_vars => MarginInv'
<1> SUFFICES ASSUME MarginInv, [Next]_vars PROVE MarginInv'
  OBVIOUS
<1> USE DEF MarginInv, MarginTypeOK, UnitsLeft, MarginSolvent, IsOpen
<1>1. CASE OpenAny
  BY <1>1, OpenKeepsInv DEF OpenAny
<1>2. CASE CloseAny
  BY <1>2, CloseKeepsInv DEF CloseAny
<1>3. CASE TickMaintenance
  BY <1>3, MaintainKeepsInv DEF TickMaintenance
<1>4. CASE CandleCloses
  BY <1>4, MaintainKeepsInv DEF CandleCloses, CheckExtremes
<1>5. CASE PriceMoves
  BY <1>5 DEF PriceMoves, SetPrice
<1>6. CASE TimePasses
  <2>1. \A i \in PosIds : positions[i].last \in Nat
    BY DEF Position
  <2> QED  BY <1>6, <2>1 DEF TimePasses
<1>7. CASE MoveFunds
  BY <1>7, AmountAssumption DEF MoveFunds, Deposit, Withdraw
<1>8. CASE MoveReservations
  BY <1>8, AmountAssumption DEF MoveReservations, Reserve, Release
<1>9. CASE UNCHANGED vars
  BY <1>9 DEF vars
<1> QED
  BY <1>1, <1>2, <1>3, <1>4, <1>5, <1>6, <1>7, <1>8, <1>9 DEF Next

\* The margin account is well-typed in every state.
THEOREM MarginTypeCorrect == Spec => []MarginTypeOK
<1>1. MarginInv => MarginTypeOK
  BY DEF MarginInv
<1> QED  BY MarginInit, MarginStep, <1>1, PTL DEF Spec

\* The margin account is never overdrawn.
THEOREM MarginNeverOverdrawn == Spec => []MarginSolvent
<1>1. MarginInv => MarginSolvent
  BY DEF MarginInv
<1> QED  BY MarginInit, MarginStep, <1>1, PTL DEF Spec

-----------------------------------------------------------------------------
(* The terms a position was opened on *)

\* What is lent per money unit of a position's value.
LoanRate(lev) == Scale - Scale \div lev

\* An open position has the collateral, the loan and the interest of k periods
\* for each of its units, and dies where the terms it was opened on say.
Terms(p, k) ==
    /\ p.lev \in Leverages /\ p.entry \in Nat \ {0}
    /\ p.collateral = p.qty * (p.entry * (Scale \div p.lev))
    /\ p.loan = p.qty * (p.entry * LoanRate(p.lev))
    /\ p.interest = p.qty * (p.entry * ((LoanRate(p.lev) \div InterestDiv) * k))
    /\ p.last = p.opened + k * Period
    /\ p.liq = LiquidationPrice(p.side, p.entry, p.lev)

TermsInv == \A i \in PosIds : IsOpen(i) => \E k \in Nat : Terms(positions[i], k)

\* A multiple divides without a rest.
LEMMA DivExact ==
  ASSUME NEW n \in Nat \ {0}, NEW y \in Int
  PROVE  (n * y) \div n = y /\ (n * y) % n = 0
<1> DEFINE z == n * y
           d == z \div n
<1>1. z \in Int
  OBVIOUS
<1>2. d \in Int /\ n * d <= z /\ z < n * d + n /\ z % n = z - n * d
  <2> HIDE DEF z
  <2>1. \A a \in Int : /\ a \div n \in Int /\ n * (a \div n) <= a /\ a < n * (a \div n) + n
                       /\ a % n = a - n * (a \div n)
    OBVIOUS
  <2> QED  BY <1>1, <2>1
<1> HIDE DEF d
<1>3. d <= y
  <2>1. d * n <= y * n
    BY <1>2
  <2> QED  BY <1>2, <2>1, Cancel
<1>4. y <= d
  <2> SUFFICES ASSUME y >= d + 1 PROVE FALSE
    BY <1>2
  <2>1. n * y >= n * (d + 1)
    BY <1>2
  <2>2. n * (d + 1) = n * d + n
    BY <1>2
  <2>3. n * d \in Int
    BY <1>2
  <2> QED  BY <1>1, <1>2, <2>1, <2>2, <2>3
<1>5. d = y
  BY <1>2, <1>3, <1>4
<1> QED  BY <1>2, <1>5 DEF d

\* Of n units at m each, q units' share is theirs exactly.
LEMMA ShareExact ==
  ASSUME NEW p \in Position, NEW q \in 1..p.qty, NEW m \in Nat
  PROVE  /\ Share(p.qty * m, q, p) = q * m
         /\ p.qty * m - Share(p.qty * m, q, p) = (p.qty - q) * m
<1>1. p.qty \in Nat \ {0} /\ q \in Nat
  BY DEF Position
<1>2. (p.qty * m) * q = p.qty * (q * m) /\ q * m \in Int
  BY <1>1
<1>3. (p.qty * (q * m)) \div p.qty = q * m
  BY <1>1, <1>2, DivExact
<1>4. p.qty * m - q * m = (p.qty - q) * m
  BY <1>1
<1> QED  BY <1>2, <1>3, <1>4 DEF Share

\* Every leverage in use splits the value of a unit in whole money units, and
\* the interest of a period on the part that is lent is whole too.
LEMMA RatesType ==
  ASSUME NEW lev \in Leverages
  PROVE  /\ lev \in Nat \ {0}
         /\ Scale \div lev \in Nat /\ lev * (Scale \div lev) = Scale
         /\ LoanRate(lev) \in Nat /\ LoanRate(lev) + Scale \div lev = Scale
         /\ LoanRate(lev) \div InterestDiv \in Nat
         /\ (LoanRate(lev) \div InterestDiv) * InterestDiv = LoanRate(lev)
<1>1. PICK rc \in RiskCoefs : lev = Leverage(rc)
  BY DEF Leverages, Leverage
<1>2. /\ lev \in Nat \ {0}
      /\ Scale \div lev \in Nat /\ Scale \div lev <= Scale /\ lev * (Scale \div lev) = Scale
  BY <1>1, LeverageType
<1> DEFINE s == Scale \div lev
<1>3. Scale \in Nat /\ InterestDiv \in Nat \ {0}
  BY RateAssumption
<1>4. LoanRate(lev) = Scale - s /\ (Scale - s) % InterestDiv = 0
  BY ExactAssumption DEF LoanRate
<1>5. s \in Nat /\ s <= Scale
  BY <1>2
<1> HIDE DEF s
<1>6. LoanRate(lev) \in Nat /\ LoanRate(lev) + s = Scale
  BY <1>3, <1>4, <1>5
<1>7. \A a \in Nat : a % InterestDiv = 0 => a \div InterestDiv \in Nat /\ (a \div InterestDiv) * InterestDiv = a
  BY <1>3
<1>8. LoanRate(lev) \div InterestDiv \in Nat /\ (LoanRate(lev) \div InterestDiv) * InterestDiv = LoanRate(lev)
  BY <1>4, <1>6, <1>7
<1> QED  BY <1>2, <1>6, <1>8 DEF s

\* A position that is closed in part keeps its terms.
LEMMA CloseKeepsTerms ==
  ASSUME NEW p \in Position, NEW q \in 1..p.qty, q # p.qty, NEW at \in Prices,
         NEW k \in Nat, Terms(p, k)
  PROVE  Terms(AfterClose(p, q, at), k)
<1> DEFINE a == AfterClose(p, q, at)
           c == p.entry * (Scale \div p.lev)
           l == p.entry * LoanRate(p.lev)
           n == p.entry * ((LoanRate(p.lev) \div InterestDiv) * k)
<1>1. /\ p.collateral = p.qty * c /\ p.loan = p.qty * l /\ p.interest = p.qty * n
      /\ p.lev \in Leverages /\ p.entry \in Nat
  BY DEF Terms
<1>2. c \in Nat /\ l \in Nat /\ n \in Nat
  <2>1. /\ Scale \div p.lev \in Nat /\ LoanRate(p.lev) \in Nat
        /\ LoanRate(p.lev) \div InterestDiv \in Nat
    BY <1>1, RatesType
  <2> QED  BY <1>1, <2>1
<1>3. a = [p EXCEPT !.qty = p.qty - q, !.collateral = p.collateral - Share(p.collateral, q, p),
                    !.loan = p.loan - Share(p.loan, q, p),
                    !.interest = p.interest - Share(p.interest, q, p),
                    !.pnl = p.pnl + CloseResult(p, q, at)]
  BY DEF AfterClose
<1> HIDE DEF a
<1>4. /\ a.qty = p.qty - q
      /\ a.collateral = p.collateral - Share(p.collateral, q, p)
      /\ a.loan = p.loan - Share(p.loan, q, p)
      /\ a.interest = p.interest - Share(p.interest, q, p)
      /\ a.lev = p.lev /\ a.entry = p.entry /\ a.side = p.side /\ a.liq = p.liq
      /\ a.last = p.last /\ a.opened = p.opened
  BY <1>3 DEF Position
<1> HIDE DEF c, l, n
<1>5. /\ a.collateral = (p.qty - q) * c
      /\ a.loan = (p.qty - q) * l
      /\ a.interest = (p.qty - q) * n
  BY <1>1, <1>2, <1>4, ShareExact
<1> QED  BY <1>1, <1>4, <1>5 DEF Terms, a, c, l, n

\* Interest is charged for the periods that are over, and the clock of the
\* position moves on by just those.
LEMMA AccrueKeepsTerms ==
  ASSUME NEW p \in Position, now \in Nat, Timely(p), NEW k \in Nat, Terms(p, k)
  PROVE  \E m \in Nat : Terms(Accrued(p), m)
<1> DEFINE n == Periods(p)
           r == LoanRate(p.lev) \div InterestDiv
           more == (p.loan * n) \div InterestDiv
<1>1. /\ p.qty \in Nat /\ p.entry \in Nat /\ p.last \in Nat /\ p.opened \in Nat
      /\ p.loan \in Nat /\ p.interest \in Nat
      /\ Period \in Nat \ {0} /\ InterestDiv \in Nat \ {0}
      /\ p.lev \in Leverages
  BY TimeAssumption, RateAssumption DEF Position, Terms
<1>2. r \in Nat /\ r * InterestDiv = LoanRate(p.lev)
  BY <1>1, RatesType
<1>3. n \in Nat
  <2>1. now - p.last \in Nat
    BY <1>1 DEF Timely
  <2> QED  BY <1>1, <2>1 DEF Periods
<1>4. CASE ~(n > 0 /\ p.loan > 0)
  <2>1. Accrued(p) = p
    BY <1>4 DEF Accrued
  <2> QED  BY <2>1
<1>5. CASE n > 0 /\ p.loan > 0
  <2>1. Accrued(p) = [p EXCEPT !.interest = p.interest + more, !.last = p.last + n * Period]
    BY <1>5 DEF Accrued
  <2>2. p.loan = p.qty * (p.entry * LoanRate(p.lev))
        /\ p.interest = p.qty * (p.entry * (r * k)) /\ p.last = p.opened + k * Period
    BY DEF Terms
  <2> DEFINE a == Accrued(p)
  <2>3. more = p.qty * (p.entry * (r * n))
    <3> HIDE DEF n, r
    <3> DEFINE y == p.qty * (p.entry * (r * n))
    <3>1. y \in Int
      BY <1>1, <1>2, <1>3
    <3>2. p.loan * n = InterestDiv * y
      <4>1. p.loan * n = (p.qty * (p.entry * (r * InterestDiv))) * n
        BY <1>2, <2>2
      <4> QED  BY <4>1, <1>1, <1>2, <1>3
    <3> HIDE DEF y
    <3>3. (InterestDiv * y) \div InterestDiv = y
      BY <1>1, <3>1, DivExact
    <3> QED  BY <3>2, <3>3 DEF y
  <2> HIDE DEF n, r, more
  <2>4. p.interest + more = p.qty * (p.entry * (r * (k + n)))
    <3>1. r * (k + n) = r * k + r * n
      BY <1>2, <1>3
    <3> DEFINE u == r * k
               v == r * n
    <3>2. u \in Nat /\ v \in Nat
      BY <1>2, <1>3
    <3> HIDE DEF u, v
    <3>3. p.qty * (p.entry * u) + p.qty * (p.entry * v) = p.qty * (p.entry * (u + v))
      BY <1>1, <3>2
    <3> QED  BY <2>2, <2>3, <3>1, <3>3 DEF u, v
  <2>5. p.last + n * Period = p.opened + (k + n) * Period
    BY <1>1, <1>3, <2>2
  <2>6. /\ a.interest = p.interest + more /\ a.last = p.last + n * Period
        /\ a.qty = p.qty /\ a.entry = p.entry /\ a.lev = p.lev /\ a.side = p.side
        /\ a.collateral = p.collateral /\ a.loan = p.loan /\ a.liq = p.liq /\ a.opened = p.opened
    BY <2>1 DEF Position
  <2> HIDE DEF a
  <2>7. Terms(a, k + n)
    BY <2>4, <2>5, <2>6 DEF Terms, r
  <2>8. k + n \in Nat
    BY <1>3
  <2> QED  BY <2>7, <2>8 DEF a
<1> QED  BY <1>4, <1>5

\* What maintenance leaves open has been charged its interest, was not due for
\* liquidation at the low and the high, and keeps its terms.
LEMMA MaintainKeepsTerms ==
  ASSUME NEW p \in Position, now \in Nat, Timely(p), p.qty > 0, NEW k \in Nat, Terms(p, k),
         NEW lo, NEW hi, Maintained(p, lo, hi).state = "open", price \in Prices
  PROVE  /\ Maintained(p, lo, hi) = Accrued(p)
         /\ ~Liquidated(Accrued(p), lo, hi)
         /\ \E m \in Nat : Terms(Maintained(p, lo, hi), m)
<1> DEFINE a == Accrued(p)
<1>1. a \in Position /\ a.qty = p.qty
  BY AccruedType
<1>2. /\ Maintained(p, lo, hi) = CASE Liquidated(a, lo, hi) -> AfterLiquidation(a)
                                   [] ~Liquidated(a, lo, hi) /\ Expired(a) -> AfterClose(a, a.qty, price)
                                   [] OTHER -> a
  BY DEF Maintained
<1>3. \E m \in Nat : Terms(a, m)
  BY AccrueKeepsTerms
<1> HIDE DEF a
<1>4. ~Liquidated(a, lo, hi)
  <2> SUFFICES ASSUME Liquidated(a, lo, hi) PROVE FALSE
    OBVIOUS
  <2>1. AfterLiquidation(a).state = "closed"
    BY <1>1 DEF AfterLiquidation, Position
  <2> QED  BY <1>2, <2>1
<1>5. ~Expired(a)
  <2> SUFFICES ASSUME Expired(a) PROVE FALSE
    OBVIOUS
  <2>1. a.qty \in 1..a.qty
    BY <1>1 DEF Position
  <2>2. AfterClose(a, a.qty, price).state = "closed"
    BY <1>1, <2>1, CloseType
  <2> QED  BY <1>2, <1>4, <2>2
<1> QED  BY <1>2, <1>3, <1>4, <1>5 DEF a

\* At first nothing is open.
LEMMA TermsInit == Init => TermsInv
BY DEF Init, TermsInv, IsOpen, NoPosition

\* A position is opened on its terms.
LEMMA OpenHasTerms ==
  ASSUME MarginInv, TermsInv, NEW i \in PosIds, NEW side \in {"long", "short"}, NEW q \in Qtys,
         NEW rc \in RiskCoefs, NEW slip \in OpenSlips, Open(i, side, q, rc, slip)
  PROVE  TermsInv'
<1> DEFINE x == OpenFill(side, price, slip)
           lev == Leverage(rc)
           o == OrderQty(q, x, lev)
           new == [state |-> "open", side |-> side, qty |-> o, entry |-> x, lev |-> lev,
                   collateral |-> Collateral(o, x, lev),
                   loan |-> o * x * (Scale - Scale \div lev),
                   liq |-> LiquidationPrice(side, x, lev),
                   interest |-> 0, opened |-> now, last |-> now, pnl |-> 0]
<1>1. x \in Nat \ {0} /\ now \in Nat
  <2>1. price \in Nat \ {0} /\ slip \in Nat /\ slip < price
    BY PriceAssumption DEF MarginInv, MarginTypeOK
  <2> QED  BY <2>1 DEF OpenFill, MarginInv, MarginTypeOK
<1>2. lev \in Leverages
  BY DEF Leverages, Leverage
<1>3. positions' = [positions EXCEPT ![i] = new]
  BY DEF Open
<1>4. MarginInv'
  BY OpenKeepsInv
<1>5. new \in Position
  <2>1. positions'[i] = new
    BY <1>3 DEF MarginInv, MarginTypeOK
  <2> QED  BY <1>4, <2>1 DEF MarginInv, MarginTypeOK
<1>6. o \in Nat
  <2>1. new.qty = o
    OBVIOUS
  <2> HIDE DEF new, o
  <2> QED  BY <1>5, <2>1 DEF Position
<1>7. /\ Scale \div lev \in Nat /\ LoanRate(lev) \in Nat /\ LoanRate(lev) \div InterestDiv \in Nat
  BY <1>2, RatesType
<1>8. Terms(new, 0)
  <2> HIDE DEF x, lev, o
  <2>1. /\ Collateral(o, x, lev) = o * (x * (Scale \div lev))
        /\ o * x * LoanRate(lev) = o * (x * LoanRate(lev))
    BY <1>1, <1>6, <1>7 DEF Collateral
  <2>2. 0 = o * (x * ((LoanRate(lev) \div InterestDiv) * 0))
    BY <1>1, <1>6, <1>7
  <2>3. now = now + 0 * Period
    BY <1>1, TimeAssumption
  <2> QED  BY <1>1, <1>2, <2>1, <2>2, <2>3 DEF Terms, LoanRate
<1> HIDE DEF new
<1>9. \A j \in PosIds : positions'[j] = IF j = i THEN new ELSE positions[j]
  BY <1>3 DEF MarginInv, MarginTypeOK
<1> QED  BY <1>8, <1>9 DEF TermsInv, IsOpen

\* So the terms are an invariant, whatever is closed in part and whatever is
\* charged.
LEMMA TermsStep == MarginInv /\ TermsInv /\ [Next]_vars => TermsInv'
<1> SUFFICES ASSUME MarginInv, TermsInv, [Next]_vars PROVE TermsInv'
  OBVIOUS
<1>1. CASE OpenAny
  BY <1>1, OpenHasTerms DEF OpenAny
<1>2. CASE CloseAny
  <2>1. PICK i \in PosIds : \E q \in 1..positions[i].qty : Close(i, q)
    BY <1>2 DEF CloseAny
  <2>2. PICK q \in 1..positions[i].qty : Close(i, q)
    BY <2>1
  <2> DEFINE p == positions[i]
  <2>3. p \in Position /\ price \in Prices /\ IsOpen(i)
    BY <2>2 DEF MarginInv, MarginTypeOK, Close
  <2>4. \A j \in PosIds : positions'[j] = IF j = i THEN AfterClose(p, q, price) ELSE positions[j]
    BY <2>2 DEF Close, MarginInv, MarginTypeOK
  <2>5. PICK k \in Nat : Terms(p, k)
    BY <2>3 DEF TermsInv
  <2>6. CASE q = p.qty
    <3>1. AfterClose(p, q, price).state = "closed"
      BY <2>3, <2>6, CloseType
    <3> QED  BY <2>4, <3>1 DEF TermsInv, IsOpen
  <2>7. CASE q # p.qty
    <3>1. Terms(AfterClose(p, q, price), k)
      BY <2>3, <2>5, <2>7, CloseKeepsTerms
    <3> QED  BY <2>4, <3>1 DEF TermsInv, IsOpen
  <2> QED  BY <2>6, <2>7
<1>3. ASSUME NEW lo, NEW hi, MaintainAll(lo, hi) PROVE TermsInv'
  <2> SUFFICES ASSUME NEW i \in PosIds, IsOpen(i)' PROVE \E k \in Nat : Terms(positions'[i], k)
    BY DEF TermsInv
  <2>1. positions'[i] = IF IsOpen(i) THEN Maintained(positions[i], lo, hi) ELSE positions[i]
    BY <1>3 DEF MaintainAll
  <2>2. IsOpen(i) /\ positions'[i] = Maintained(positions[i], lo, hi)
    BY <2>1 DEF IsOpen
  <2>3. /\ positions[i] \in Position /\ now \in Nat /\ Timely(positions[i]) /\ positions[i].qty > 0
        /\ price \in Prices
    BY <2>2 DEF MarginInv, MarginTypeOK, UnitsLeft, Timely
  <2>4. PICK k \in Nat : Terms(positions[i], k)
    BY <2>2 DEF TermsInv
  <2>5. Maintained(positions[i], lo, hi).state = "open"
    BY <2>2 DEF IsOpen
  <2> QED  BY <2>2, <2>3, <2>4, <2>5, MaintainKeepsTerms
<1>4. CASE UNCHANGED positions
  BY <1>4 DEF TermsInv, IsOpen
<1> QED
  BY <1>1, <1>2, <1>3, <1>4
  DEF Next, TickMaintenance, CandleCloses, CheckExtremes, PriceMoves, SetPrice, TimePasses,
      MoveFunds, Deposit, Withdraw, MoveReservations, Reserve, Release, vars

\* Every open position always keeps the terms it was opened on.
LEMMA TermsHold == Spec => [](MarginInv /\ TermsInv)
BY MarginInit, MarginStep, TermsInit, TermsStep, PTL DEF Spec

\* The two parts of a position's value, and the share that is borrowed.
LEMMA TermsShares ==
  ASSUME NEW p \in Position, NEW k \in Nat, Terms(p, k)
  PROVE  /\ p.collateral * p.lev = p.qty * p.entry * Scale
         /\ p.collateral + p.loan = p.qty * p.entry * Scale
         /\ (p.last - p.opened) % Period = 0
         /\ p.interest * InterestDiv = p.loan * ((p.last - p.opened) \div Period)
<1> DEFINE s == Scale \div p.lev
           l == LoanRate(p.lev)
           r == l \div InterestDiv
<1>1. /\ p.lev \in Nat /\ s \in Nat /\ p.lev * s = Scale /\ l \in Nat /\ l + s = Scale
      /\ r \in Nat /\ r * InterestDiv = l
  BY RatesType DEF Terms
<1>2. /\ p.qty \in Nat /\ p.entry \in Nat /\ p.opened \in Nat
      /\ InterestDiv \in Nat /\ Period \in Nat \ {0}
  BY RateAssumption, TimeAssumption DEF Position
<1>3. /\ p.collateral = p.qty * (p.entry * s) /\ p.loan = p.qty * (p.entry * l)
      /\ p.interest = p.qty * (p.entry * (r * k)) /\ p.last = p.opened + k * Period
  BY DEF Terms
<1> HIDE DEF s, l, r
<1>4. p.collateral * p.lev = p.qty * p.entry * Scale
  <2>1. (p.qty * (p.entry * s)) * p.lev = p.qty * p.entry * (p.lev * s)
    BY <1>1, <1>2
  <2> QED  BY <1>1, <1>3, <2>1
<1>5. p.collateral + p.loan = p.qty * p.entry * Scale
  <2>1. p.qty * (p.entry * s) + p.qty * (p.entry * l) = p.qty * p.entry * (l + s)
    BY <1>1, <1>2
  <2> QED  BY <1>1, <1>3, <2>1
<1>6. (p.last - p.opened) % Period = 0 /\ (p.last - p.opened) \div Period = k
  <2>1. p.last - p.opened = Period * k
    BY <1>2, <1>3
  <2> QED  BY <1>2, <2>1, DivExact
<1>7. p.interest * InterestDiv = p.loan * k
  <2>1. (p.qty * (p.entry * (r * k))) * InterestDiv = (p.qty * (p.entry * (r * InterestDiv))) * k
    BY <1>1, <1>2
  <2> QED  BY <1>1, <1>3, <2>1
<1> QED  BY <1>4, <1>5, <1>6, <1>7

\* However often a position is closed in part, no rounding is left over: its
\* collateral and its loan are those of the units it still has (broker.py:405).
THEOREM SharesExact == Spec => []SharesStayExact
<1>1. MarginInv /\ TermsInv => SharesStayExact
  BY TermsShares DEF MarginInv, MarginTypeOK, TermsInv, SharesStayExact
<1> QED  BY <1>1, TermsHold, PTL

\* No period of interest is charged twice or left out, whenever the ticks come
\* (broker.py:465).
THEOREM InterestRight == Spec => []InterestOncePerPeriod
<1>1. MarginInv /\ TermsInv => InterestOncePerPeriod
  BY TermsShares DEF MarginInv, MarginTypeOK, TermsInv, InterestOncePerPeriod
<1> QED  BY <1>1, TermsHold, PTL

\* What is left of a position's collateral at a price it was not liquidated
\* at: the maintenance margin is never negative, and the liquidation price is
\* rounded towards the entry.
LEMMA AliveIsCovered ==
  ASSUME NEW p \in Position, NEW k \in Nat, Terms(p, k), p.qty > 0,
         NEW lo \in Nat \ {0}, NEW hi \in Nat, NEW low \in Nat, NEW high \in Nat,
         lo <= low, high <= hi, ~Liquidated(p, lo, hi)
  PROVE  p.collateral + Upnl(p, IF p.side = "long" THEN low ELSE high) > 0
<1> DEFINE s == Scale \div p.lev
           lev == p.lev
           x == p.entry
           M == Scale - MaintRate
           D == lev * Scale
<1>1. /\ lev \in Nat \ {0} /\ s \in Nat /\ lev * s = Scale
  BY RatesType DEF Terms
<1>2. /\ p.qty \in Nat \ {0} /\ x \in Nat \ {0} /\ Scale \in Nat \ {0}
      /\ MaintRate \in Nat /\ M \in Nat /\ M <= Scale /\ D \in Nat \ {0}
  BY <1>1, RateAssumption DEF Position, Terms
<1>3. p.collateral = p.qty * (x * s)
  BY DEF Terms
<1>4. ASSUME NEW px \in Nat, NEW gain \in Int,
             gain = (IF p.side = "short" THEN x - px ELSE px - x),
             x + gain * lev > 0
      PROVE  p.collateral + Upnl(p, px) > 0
  <2>1. Upnl(p, px) = p.qty * gain * Scale
    BY <1>4 DEF Upnl
  <2> DEFINE e == x * s + gain * Scale
  <2>2. e * lev = Scale * (x + gain * lev)
    <3>1. (x * s) * lev = x * Scale
      BY <1>1, <1>2
    <3> QED  BY <1>1, <1>2, <1>4, <3>1
  <2>3. e \in Int
    BY <1>1, <1>2, <1>4
  <2>4. Scale * (x + gain * lev) > 0
    <3> DEFINE y == x + gain * lev
    <3>1. y \in Int /\ y > 0
      BY <1>1, <1>2, <1>4
    <3> HIDE DEF y
    <3>2. Scale * y > 0
      BY <1>2, <3>1
    <3> QED  BY <3>2 DEF y
  <2>5. e > 0
    <3> HIDE DEF e
    <3> SUFFICES ASSUME e <= 0 PROVE FALSE
      BY <2>3
    <3>1. e * lev <= 0
      BY <1>1, <2>3
    <3> QED  BY <1>1, <1>2, <1>4, <2>2, <2>3, <2>4, <3>1
  <2>6. p.collateral + Upnl(p, px) = p.qty * e
    BY <1>1, <1>2, <1>3, <1>4, <2>1
  <2> HIDE DEF e
  <2>7. p.qty * e > 0
    BY <1>2, <2>3, <2>5
  <2> QED  BY <2>6, <2>7
<1>5. CASE p.side = "long"
  <2> DEFINE N == x * (D - M)
             liq == N \div D
  <2>1. p.liq = liq
    BY <1>5 DEF Terms, LiquidationPrice
  <2>2. N \in Int
    BY <1>2
  <2> HIDE DEF N
  <2>3. liq \in Int /\ N < D * (liq + 1)
    <3> HIDE DEF D
    <3>1. liq \in Int /\ N < D * liq + D
      BY <1>2, <2>2
    <3> HIDE DEF liq
    <3> QED  BY <1>2, <3>1
  <2> HIDE DEF liq
  <2>4. liq + 1 <= lo
    BY <1>5, <2>1, <2>3 DEF Liquidated
  <2>5. D * (liq + 1) <= D * low
    <3> HIDE DEF D
    <3> DEFINE u == liq + 1
    <3>1. u \in Int /\ u <= low
      BY <2>3, <2>4
    <3> HIDE DEF u
    <3>2. D * u <= D * low
      BY <1>2, <3>1
    <3> QED  BY <3>2 DEF u
  <2>6. x * (D - Scale) <= N
    <3>1. D - Scale <= D - M
      BY <1>2
    <3> DEFINE u == D - Scale
               v == D - M
    <3>2. u \in Int /\ v \in Int /\ u <= v
      BY <1>2, <3>1
    <3> HIDE DEF u, v
    <3>3. x * u <= x * v
      BY <1>2, <3>2
    <3> QED  BY <3>3 DEF u, v, N
  <2>7. x * (D - Scale) = (x * lev - x) * Scale /\ D * low = (low * lev) * Scale
    BY <1>1, <1>2
  <2>8. (x * lev - x) * Scale < (low * lev) * Scale
    <3>1. x * (D - Scale) \in Int /\ D * (liq + 1) \in Int /\ D * low \in Int
      BY <1>2, <2>3
    <3> HIDE DEF D
    <3> QED  BY <2>2, <2>3, <2>5, <2>6, <2>7, <3>1
  <2>9. x * lev - x < low * lev
    <3> DEFINE u == x * lev - x
               v == low * lev
    <3>1. u \in Int /\ v \in Int /\ u * Scale < v * Scale
      BY <1>1, <1>2, <2>8
    <3> HIDE DEF u, v
    <3> SUFFICES ASSUME v <= u PROVE FALSE
      BY <3>1 DEF u, v
    <3>2. v * Scale <= u * Scale
      BY <1>2, <3>1
    <3>3. u * Scale \in Int /\ v * Scale \in Int
      BY <1>2, <3>1
    <3> QED  BY <3>1, <3>2, <3>3
  <2>10. x + (low - x) * lev > 0
    BY <1>1, <1>2, <2>9
  <2>11. low - x \in Int
    BY <1>2
  <2> QED  BY <1>4, <1>5, <2>10, <2>11
<1>6. CASE p.side = "short"
  <2> DEFINE N == x * (D + M)
             liq == -((-N) \div D)
  <2>1. p.liq = liq
    BY <1>6 DEF Terms, LiquidationPrice
  <2>2. N \in Int /\ N > 0
    <3>1. D + M \in Nat \ {0}
      BY <1>2
    <3> DEFINE u == D + M
    <3> HIDE DEF u
    <3>2. x * u \in Int /\ x * u > 0
      BY <1>2, <3>1 DEF u
    <3> QED  BY <3>2 DEF u
  <2> HIDE DEF N
  <2>3. liq \in Int /\ N > D * (liq - 1) /\ N <= D * liq
    <3> HIDE DEF D
    <3> DEFINE d == (-N) \div D
    <3>1. d \in Int /\ -N < D * d + D /\ D * d <= -N
      BY <1>2, <2>2
    <3>2. liq = -d
      OBVIOUS
    <3> HIDE DEF d, liq
    <3>3. D * d \in Int /\ D * liq = -(D * d) /\ D * (liq - 1) = D * liq - D
      BY <1>2, <3>1, <3>2
    <3> QED  BY <1>2, <2>2, <3>1, <3>2, <3>3
  <2> HIDE DEF liq
  <2>4. liq > 0
    <3> HIDE DEF D
    <3> SUFFICES ASSUME liq <= 0 PROVE FALSE
      BY <2>3
    <3>1. D * liq <= 0
      BY <1>2, <2>3
    <3>2. D * liq \in Int
      BY <1>2, <2>3
    <3> QED  BY <2>2, <2>3, <3>1, <3>2
  <2>5. high <= liq - 1
    BY <1>6, <2>1, <2>3, <2>4 DEF Liquidated
  <2>6. D * high <= D * (liq - 1)
    <3> HIDE DEF D
    <3> DEFINE u == liq - 1
    <3>1. u \in Int /\ high <= u
      BY <2>3, <2>5
    <3> HIDE DEF u
    <3>2. D * high <= D * u
      BY <1>2, <3>1
    <3> QED  BY <3>2 DEF u
  <2>7. N <= x * (D + Scale)
    <3> DEFINE u == D + Scale
               v == D + M
    <3>1. u \in Int /\ v \in Int /\ v <= u
      BY <1>2
    <3> HIDE DEF u, v
    <3>2. x * v <= x * u
      BY <1>2, <3>1
    <3> QED  BY <3>2 DEF u, v, N
  <2>8. x * (D + Scale) = (x * lev + x) * Scale /\ D * high = (high * lev) * Scale
    BY <1>1, <1>2
  <2>9. (high * lev) * Scale < (x * lev + x) * Scale
    <3>1. x * (D + Scale) \in Int /\ D * (liq - 1) \in Int /\ D * high \in Int
      BY <1>2, <2>3
    <3> HIDE DEF D
    <3> QED  BY <2>2, <2>3, <2>6, <2>7, <2>8, <3>1
  <2>10. high * lev < x * lev + x
    <3> DEFINE u == x * lev + x
               v == high * lev
    <3>1. u \in Int /\ v \in Int /\ v * Scale < u * Scale
      BY <1>1, <1>2, <2>9
    <3> HIDE DEF u, v
    <3> SUFFICES ASSUME u <= v PROVE FALSE
      BY <3>1 DEF u, v
    <3>2. u * Scale <= v * Scale
      BY <1>2, <3>1
    <3>3. u * Scale \in Int /\ v * Scale \in Int
      BY <1>2, <3>1
    <3> QED  BY <3>1, <3>2, <3>3
  <2>11. x + (x - high) * lev > 0
    BY <1>1, <1>2, <2>10
  <2>12. x - high \in Int
    BY <1>2
  <2> QED  BY <1>4, <1>6, <2>11, <2>12
<1>7. p.side \in {"long", "short"}
  BY DEF Position
<1> QED  BY <1>5, <1>6, <1>7

\* Whatever the leverage and the rounding, a position that outlives a candle
\* still has collateral at the worst price of that candle (broker.py:475).
THEOREM LiquidationComesFirst == Spec => WicksLiquidateFirst
<1>1. ASSUME MarginInv, TermsInv, NEW low \in Prices, NEW high \in Prices, CheckExtremes(low, high),
             NEW i \in PosIds, IsOpen(i)'
      PROVE  LET p == positions'[i]
             IN  p.collateral + Upnl(p, IF p.side = "long" THEN low ELSE high) > 0
  <2> DEFINE lo == Lower(low, price)
             hi == Higher(high, price)
             p == positions[i]
             a == Accrued(p)
  <2>1. /\ price \in Nat \ {0} /\ price \in Prices /\ low \in Nat \ {0} /\ high \in Nat
    BY <1>1, PriceAssumption DEF MarginInv, MarginTypeOK
  <2>2. /\ lo \in Nat \ {0} /\ lo <= low /\ hi \in Nat /\ high <= hi
    BY <2>1 DEF Lower, Higher
  <2> HIDE DEF lo, hi
  <2>3. positions'[i] = IF IsOpen(i) THEN Maintained(p, lo, hi) ELSE p
    BY <1>1 DEF CheckExtremes, MaintainAll, lo, hi
  <2>4. IsOpen(i) /\ positions'[i] = Maintained(p, lo, hi) /\ Maintained(p, lo, hi).state = "open"
    BY <1>1, <2>3 DEF IsOpen
  <2>5. p \in Position /\ now \in Nat /\ Timely(p) /\ p.qty > 0
    BY <1>1, <2>4 DEF MarginInv, MarginTypeOK, UnitsLeft, Timely
  <2>6. PICK k \in Nat : Terms(p, k)
    BY <1>1, <2>4 DEF TermsInv
  <2> HIDE DEF p
  <2>7. /\ positions'[i] = a /\ ~Liquidated(a, lo, hi) /\ \E m \in Nat : Terms(a, m)
    BY <2>1, <2>4, <2>5, <2>6, MaintainKeepsTerms
  <2>8. a \in Position /\ a.qty > 0
    BY <2>5, AccruedType
  <2> HIDE DEF a
  <2>9. a.collateral + Upnl(a, IF a.side = "long" THEN low ELSE high) > 0
    BY <2>1, <2>2, <2>7, <2>8, AliveIsCovered
  <2> QED  BY <2>7, <2>9
<1> DEFINE A == \A low, high \in Prices : CheckExtremes(low, high) =>
         \A i \in PosIds : IsOpen(i)' =>
             LET p == positions'[i]
             IN  p.collateral + Upnl(p, IF p.side = "long" THEN low ELSE high) > 0
<1>2. MarginInv /\ TermsInv /\ [Next]_vars => [A]_vars
  BY <1>1
<1>3. Spec => [][A]_vars
  <2> HIDE DEF A
  <2> QED  BY <1>2, TermsHold, PTL DEF Spec
<1> QED  BY <1>3 DEF WicksLiquidateFirst
=============================================================================
