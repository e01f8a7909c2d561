------------------------- MODULE LiveTrading_proofs -------------------------
(***************************************************************************)
(* For any number of threads, positions, calls, retries and faults: what   *)
(* the live brokers believe about the exchange (LiveTrading).              *)
(***************************************************************************)
EXTENDS LiveTrading, Sums_proofs

\* The requests of the broker (broker.py:_order and its callers), the entries of
\* the exchange's book and the positions the broker keeps.
CallRec == [op : {"buy", "sell", "open", "close"}, pos : Positions, qty : 1..Qty, id : Nat,
            marginId : Nat, phase : {"dry_run", "order", "check"}, says : Nat]
EntryRec == [op : {"buy", "sell", "open"}, pos : Positions, id : Nat, asked : 1..Qty,
             filled : 0..Qty, live : BOOLEAN]
PositionRec == [state : {"none", "open", "closed"}, qty : 0..Qty, marginId : Nat]

\* Every request that may still reach the exchange.
Requests == late \cup {call[t] : t \in {u \in Threads : InCall(u)}}

-----------------------------------------------------------------------------
(* The book *)

\* The entries that add to a position and those that take from it.
Buys(b, p) == {i \in DOMAIN b : b[i].pos = p /\ b[i].op \in {"buy", "open"}}
Sells(b, p) == {i \in DOMAIN b : /\ b[i].pos = p
                                 /\ b[i].op = "sell" \/ (b[i].op = "open" /\ ~b[i].live)}

\* The units of some entries.
Total(b, T) == SumFunction([i \in T |-> b[i].filled])

\* What the exchange bought and sold for a position, as totals over the book.
LEMMA LedgerTotals ==
    \A p : Bought(p) = Total(book, Buys(book, p)) /\ Sold(p) = Total(book, Sells(book, p))
BY DEF Bought, Sold, Units, Total, Buys, Sells

\* A part of the book is finite.
LEMMA BookFinite ==
  ASSUME NEW b \in Seq(EntryRec), NEW T \in SUBSET DOMAIN b
  PROVE  IsFiniteSet(T) /\ \A i \in T : b[i].filled \in Nat /\ b[i] \in EntryRec
<1>1. Len(b) \in Nat /\ DOMAIN b = 1..Len(b) /\ \A i \in DOMAIN b : b[i] \in EntryRec
  OBVIOUS
<1>2. IsFiniteSet(1..Len(b))
  BY <1>1, FS_Interval
<1> QED  BY <1>1, <1>2, FS_Subset DEF EntryRec

\* A total is the sum of a function over a set, the form the lemmas of Sums are about.
LEMMA TotalUnfold ==
  ASSUME NEW b, NEW T
  PROVE  Total(b, T) = SumFunctionOnSet([i \in T |-> b[i].filled], T)
<1> DEFINE f == [i \in T |-> b[i].filled]
<1>1. DOMAIN f = T
  OBVIOUS
<1> HIDE DEF f
<1>2. SumFunction(f) = SumFunctionOnSet(f, T)
  BY <1>1, FunctionSum
<1> QED  BY <1>2 DEF Total, f

\* A total is a number of units.
LEMMA TotalType ==
  ASSUME NEW b \in Seq(EntryRec), NEW T \in SUBSET DOMAIN b
  PROVE  Total(b, T) \in Nat
<1> DEFINE f == [i \in T |-> b[i].filled]
<1>1. IsFiniteSet(T) /\ \A i \in T : f[i] \in Int /\ f[i] >= 0
  BY BookFinite
<1> HIDE DEF f
<1>2. SumFunctionOnSet(f, T) \in Int /\ SumFunctionOnSet(f, T) >= 0
  BY <1>1, SetSumType
<1> QED  BY <1>2, TotalUnfold DEF f

\* One entry more.
LEMMA TotalAdd ==
  ASSUME NEW b \in Seq(EntryRec), NEW T \in SUBSET DOMAIN b, NEW i \in DOMAIN b \ T
  PROVE  Total(b, T \cup {i}) = Total(b, T) + b[i].filled
<1> DEFINE U == T \cup {i}
           f == [j \in U |-> b[j].filled]
           g == [j \in T |-> b[j].filled]
<1>0. U \in SUBSET DOMAIN b
  OBVIOUS
<1>1. IsFiniteSet(U) /\ IsFiniteSet(T) /\ \A j \in U : f[j] \in Int
  <2>1. IsFiniteSet(U) /\ \A j \in U : b[j].filled \in Nat
    BY <1>0, BookFinite
  <2>2. IsFiniteSet(T)
    BY BookFinite
  <2> QED  BY <2>1, <2>2
<1>2. U \ {i} = T /\ i \in U /\ f[i] = b[i].filled /\ \A j \in T : f[j] = g[j]
  OBVIOUS
<1>3. Total(b, U) = SumFunctionOnSet(f, U) /\ Total(b, T) = SumFunctionOnSet(g, T)
  BY TotalUnfold
<1> HIDE DEF f, g, U
<1>4. SumFunctionOnSet(f, U) = f[i] + SumFunctionOnSet(f, U \ {i})
  BY <1>1, <1>2, SetSumRemove
<1>5. SumFunctionOnSet(f, T) = SumFunctionOnSet(g, T)
  BY <1>1, <1>2, SetSumEqual
<1>6. b[i].filled \in Int /\ Total(b, T) \in Int
  <2>1. b[i].filled \in Int
    BY <1>1, <1>2
  <2> QED  BY <2>1, TotalType
<1>7. Total(b, U) = b[i].filled + Total(b, T)
  BY <1>2, <1>3, <1>4, <1>5
<1> QED  BY <1>6, <1>7 DEF U

\* More entries, or entries that executed more.
LEMMA TotalGrows ==
  ASSUME NEW b \in Seq(EntryRec), NEW d \in Seq(EntryRec),
         NEW T \in SUBSET DOMAIN b, NEW U \in SUBSET DOMAIN d,
         \A i \in T : i \in U /\ b[i].filled <= d[i].filled
  PROVE  Total(b, T) <= Total(d, U)
<1> DEFINE f == [i \in T |-> b[i].filled]
           g == [i \in U |-> d[i].filled]
           h == [i \in U |-> IF i \in T THEN b[i].filled ELSE 0]
<1>1. IsFiniteSet(T) /\ IsFiniteSet(U) /\ T \in SUBSET U
  BY BookFinite
<1>2. /\ \A i \in T : f[i] = h[i] /\ h[i] <= g[i]
      /\ \A i \in U : h[i] \in Int /\ g[i] \in Int /\ g[i] >= 0
  BY BookFinite
<1>3. Total(b, T) = SumFunctionOnSet(f, T) /\ Total(d, U) = SumFunctionOnSet(g, U)
  BY TotalUnfold
<1> HIDE DEF f, g, h
<1>4. SumFunctionOnSet(f, T) = SumFunctionOnSet(h, T)
  BY <1>1, <1>2, SetSumEqual
<1>5. SumFunctionOnSet(h, T) <= SumFunctionOnSet(g, U)
  BY <1>1, <1>2, SetSumMonotone
<1> QED  BY <1>3, <1>4, <1>5

\* The same entries, with the same units.
LEMMA TotalSame ==
  ASSUME NEW b, NEW d, NEW T, NEW U, T = U, \A i \in T : b[i].filled = d[i].filled
  PROVE  Total(b, T) = Total(d, U)
<1>1. [i \in T |-> b[i].filled] = [i \in U |-> d[i].filled]
  OBVIOUS
<1> QED  BY <1>1 DEF Total

-----------------------------------------------------------------------------
(* What may happen to the book *)

\* The exchange enters an order, or changes one that it has.
Appended(e) == book' = Append(book, e)
Replaced(i, e) == book' = [book EXCEPT ![i] = e]

\* What an order that is entered leaves alone.
LEMMA AppendedBook ==
  ASSUME book \in Seq(EntryRec), NEW e \in EntryRec, Appended(e)
  PROVE  /\ book' \in Seq(EntryRec)
         /\ Len(book) \in Nat /\ DOMAIN book = 1..Len(book)
         /\ DOMAIN book' = DOMAIN book \cup {Len(book) + 1} /\ Len(book) + 1 \notin DOMAIN book
         /\ book'[Len(book) + 1] = e /\ \A i \in DOMAIN book : book'[i] = book[i]
BY DEF Appended

\* What a change of one order leaves alone.
LEMMA ReplacedBook ==
  ASSUME book \in Seq(EntryRec), NEW i \in DOMAIN book, NEW e \in EntryRec, Replaced(i, e)
  PROVE  /\ book' \in Seq(EntryRec)
         /\ DOMAIN book' = DOMAIN book
         /\ \A j \in DOMAIN book : book'[j] = IF j = i THEN e ELSE book[j]
BY DEF Replaced

\* The order a request stands for, as the book would hold it.
Stands(c, e) == e.id = c.id /\ e.op = c.op /\ e.pos = c.pos /\ e.asked = c.qty

\* A request that is carried out: a look into an order or a dry run, an order,
\* or the end of a margin position.
Looked(c, says) ==
    /\ c.phase = "check" \/ c.phase = "dry_run"
    /\ book' = book
    /\ c.phase = "check" => \E i \in Of(c.id) : says = book[i].filled
    /\ c.phase = "dry_run" => says = 0
Ordered(c, e, says) ==
    /\ c.phase = "order" /\ c.op # "close" /\ ~(Dedup /\ c.op \in Spot /\ Known(c.id))
    /\ e \in EntryRec /\ Stands(c, e) /\ Appended(e) /\ e.filled <= e.asked
    /\ c.op \in Spot => (e.live <=> e.filled = 0) /\ says \in {0, e.filled}
    /\ c.op = "open" => e.live /\ e.filled = e.asked /\ says = Len(book) + 1
Ended(c, e, says) ==
    /\ c.phase = "order" /\ c.op = "close" /\ book[c.marginId].live
    /\ says = 0
    /\ e = [book[c.marginId] EXCEPT !.live = FALSE]
    /\ Replaced(c.marginId, e)

\* There is no other way to carry a request out.
LEMMA CarriedOut ==
  ASSUME book \in Seq(EntryRec), NEW c \in CallRec, Accepts(c), NEW o \in Outcomes(c), book' = o.book,
         c.phase = "check" => c.op \in Spot
  PROVE  /\ o.says \in Nat
         /\ \/ Looked(c, o.says)
            \/ \E e : Ordered(c, e, o.says)
            \/ \E e : Ended(c, e, o.says)
<1>1. c.qty \in 1..Qty /\ c.op \in {"buy", "sell", "open", "close"} /\ Qty \in Nat
      /\ c.phase \in {"dry_run", "order", "check"} /\ c.pos \in Positions /\ c.id \in Nat
  BY TradingAssumption DEF CallRec
<1>2. Len(book) \in Nat /\ \A i \in DOMAIN book : book[i].filled \in Nat
  <2>1. Len(book) \in Nat /\ DOMAIN book \in SUBSET DOMAIN book
    OBVIOUS
  <2> QED  BY <2>1, BookFinite
<1>3. CASE c.phase = "check"
  <2>1. o \in {[book |-> book, says |-> book[i].filled] : i \in Of(c.id)}
    BY <1>3 DEF Outcomes
  <2>2. PICK i \in Of(c.id) : o = [book |-> book, says |-> book[i].filled]
    BY <2>1
  <2> QED  BY <1>2, <1>3, <2>2 DEF Looked, Of
<1>4. CASE c.phase = "dry_run"
  <2>1. o = [book |-> book, says |-> 0]
    BY <1>4 DEF Outcomes
  <2> QED  BY <1>4, <2>1 DEF Looked
<1>5. CASE c.phase = "order" /\ c.op \in Spot
  <2>1. o \in {[x EXCEPT !.says = x.says * x.book[Len(x.book)].filled] : x \in Placed(c)}
    BY <1>5 DEF Outcomes, Spot
  <2>2. PICK x \in Placed(c) : o = [x EXCEPT !.says = x.says * x.book[Len(x.book)].filled]
    BY <2>1, Zenon
  <2>3. PICK f \in 0..c.qty, s \in {0, 1} :
          x = [book |-> Append(book, Entry(c, f, f = 0)), says |-> s]
    BY <2>2 DEF Placed
  <2> DEFINE e == Entry(c, f, f = 0)
  <2>4. e \in EntryRec
    <3>1. (f = 0) \in BOOLEAN
      OBVIOUS
    <3>2. f \in 0..Qty
      <4>1. \A n \in 1..Qty : \A m \in 0..n : m \in 0..Qty
        BY TradingAssumption
      <4> QED  BY <1>1, <4>1
    <3>3. c.op \in {"buy", "sell", "open"}
      BY <1>5 DEF Spot
    <3> QED  BY <1>1, <3>1, <3>2, <3>3 DEF Entry, EntryRec
  <2>5. Stands(c, e) /\ e.filled = f /\ (e.live <=> f = 0)
    BY DEF Stands, Entry
  <2>12. e.filled <= e.asked
    <3>1. e.filled = f /\ e.asked = c.qty
      BY DEF Entry
    <3>2. c.qty \in Nat
      BY <1>1
    <3>3. f <= c.qty
      BY <2>3, <3>2
    <3> QED  BY <3>1, <3>3
  <2> HIDE DEF e
  <2>6. o.book = Append(book, e) /\ o.says = s * x.book[Len(x.book)].filled /\ x.book = Append(book, e)
    BY <2>2, <2>3 DEF e
  <2>7. Append(book, e)[Len(Append(book, e))] = e
    BY <1>2, <2>4
  <2>8. o.says \in {0, f}
    BY <2>3, <2>5, <2>6, <2>7
  <2>9. ~(Dedup /\ Known(c.id))
    BY <1>5 DEF Accepts, Spot
  <2>10. c.op # "close" /\ c.op # "open"
    BY <1>5 DEF Spot
  <2>11. Ordered(c, e, o.says)
    BY <1>5, <2>4, <2>5, <2>6, <2>8, <2>9, <2>10, <2>12 DEF Ordered, Appended
  <2> QED  BY <2>8, <2>11
<1>6. CASE c.phase = "order" /\ c.op = "open"
  <2> DEFINE e == Entry(c, c.qty, TRUE)
  <2>1. c.op \notin Spot
    BY <1>6 DEF Spot
  <2>2. o = [book |-> Append(book, e), says |-> Len(book) + 1]
    BY <1>6, <2>1 DEF Outcomes
  <2>3. e \in EntryRec
    BY <1>1, <1>6 DEF Entry, EntryRec
  <2>4. Stands(c, e) /\ e.live /\ e.filled = e.asked
    BY DEF Stands, Entry
  <2>6. e.filled <= e.asked
    <3>1. e.filled = c.qty /\ e.asked = c.qty
      BY DEF Entry
    <3>2. c.qty \in Nat /\ c.qty <= c.qty
      BY <1>1
    <3> QED  BY <3>1, <3>2
  <2> HIDE DEF e
  <2>5. Ordered(c, e, o.says)
    BY <1>6, <2>1, <2>2, <2>3, <2>4, <2>6 DEF Ordered, Appended
  <2> QED  BY <1>2, <2>2, <2>5
<1>7. CASE c.phase = "order" /\ c.op = "close"
  <2>1. c.op \notin Spot
    BY <1>7 DEF Spot
  <2>2. o = [book |-> [book EXCEPT ![c.marginId].live = FALSE], says |-> 0]
    BY <1>7, <2>1 DEF Outcomes
  <2>3. book[c.marginId].live
    BY <1>7, <2>1 DEF Accepts
  <2> DEFINE e == [book[c.marginId] EXCEPT !.live = FALSE]
  <2>4. [book EXCEPT ![c.marginId].live = FALSE] = [book EXCEPT ![c.marginId] = e]
    OBVIOUS
  <2>5. Ended(c, e, o.says)
    BY <1>7, <2>2, <2>3, <2>4 DEF Ended, Replaced
  <2> QED  BY <2>2, <2>5
<1>8. c.op \in Spot \/ c.op = "open" \/ c.op = "close"
  BY <1>1 DEF Spot
<1> QED  BY <1>1, <1>3, <1>4, <1>5, <1>6, <1>7, <1>8

-----------------------------------------------------------------------------
(* The invariant *)

\* A thread is in open_long (spot or margin), or in close_long.
Opening(t) == InCall(t) /\ call[t].op \in {"buy", "open"}
Closing(t) == InCall(t) /\ call[t].op \in {"sell", "close"}

\* A request that waits has no answer yet, and only a result says something.
Fresh(t) ==
    /\ req[t].stage = "answered" <=> req[t].answer # "none"
    /\ InCall(t) /\ req[t].answer # "result" => call[t].says = 0

\* Types; a position has units while it is open, and a thread has a request
\* under way while it is in a call.
TypeInv ==
    /\ ClientTypeOK
    /\ broker \in {"spot", "margin"}
    /\ pos \in [Positions -> PositionRec]
    /\ level \subseteq Positions
    /\ call \in [Threads -> CallRec \cup {NoCall}]
    /\ calls \in Nat /\ faults \in Nat
    /\ book \in Seq(EntryRec)
    /\ late \subseteq CallRec
    /\ reported \in [Positions -> [bought : Nat, sold : Nat]]
    /\ touched \subseteq Positions /\ raced \subseteq Positions
    /\ \A p \in Positions : pos[p].state = "open" <=> pos[p].qty > 0
    /\ \A t \in Threads : req[t].stage # "idle" <=> InCall(t)
    /\ \A t \in Threads : Fresh(t)
    /\ \A p \in level : pos[p].state # "none"

\* Every call has an id of its own, and requests and entries that share one
\* stand for the same order: a retry asks for nothing else.
SameOrder(c, d) == c.id = d.id => c.op = d.op /\ c.pos = d.pos /\ c.qty = d.qty
IdInv ==
    /\ \A c \in Requests : c.id \in 1..calls
    /\ \A i \in DOMAIN book : book[i].id \in 1..calls
    /\ \A t, u \in Threads : InCall(t) /\ InCall(u) /\ call[t].id = call[u].id => t = u
    /\ \A c, d \in Requests : SameOrder(c, d)
    /\ \A c \in Requests : \A i \in Of(c.id) : Stands(c, book[i])

\* Which requests and which entries either broker knows, what is live, and
\* where a margin position is in the book.
RequestShape(c) ==
    /\ broker = "spot" => c.op \in Spot /\ c.phase \in {"order", "check"}
    /\ broker = "margin" => c.op \in {"open", "close"} /\ c.phase \in {"dry_run", "order"}
    /\ c.phase = "dry_run" => c.op = "open"
    /\ c.op = "open" => c.qty = Qty
    /\ c.op = "close" => pos[c.pos].state # "none" /\ c.marginId = pos[c.pos].marginId
EntryShape(e) ==
    /\ e.filled <= e.asked
    /\ broker = "spot" => e.op \in Spot /\ (e.live <=> e.filled = 0)
    /\ broker = "margin" => e.op = "open" /\ e.filled = Qty
ShapeInv ==
    /\ \A c \in Requests : RequestShape(c)
    /\ \A c \in late : c.phase = "order"
    /\ \A i \in DOMAIN book : EntryShape(book[i])
    /\ \A p \in Positions : broker = "margin" /\ pos[p].state # "none" =>
           /\ pos[p].marginId \in DOMAIN book /\ book[pos[p].marginId].pos = p
           /\ pos[p].state = "open" => pos[p].qty = Qty
    /\ \A t \in Threads : Opening(t) =>
           pos[call[t].pos].state = "none" /\ \A u \in Threads : On(u, call[t].pos) => u = t
    /\ \A t \in Threads : Closing(t) => pos[call[t].pos].state # "none"
    /\ Closing(GridThread) => pos[call[GridThread].pos].qty <= call[GridThread].qty

\* What an answer says is in the book.
SaysTrue(t) ==
    LET c == call[t]
    IN  /\ c.op \in Spot /\ c.says > 0 => \E i \in Of(c.id) : book[i].filled = c.says
        /\ c.op = "open" /\ c.phase = "order" /\ req[t].answer = "result" => c.says \in Of(c.id)
        /\ c.op = "close" /\ req[t].answer = "result" => ~book[c.marginId].live
        /\ c.phase = "check" /\ req[t].answer = "result" /\ c.says = 0 =>
               c.pos \in touched \/ \E i \in Of(c.id) : book[i].filled = 0
        /\ req[t].answer = "useless" => c.pos \in touched
AnswerInv == \A t \in Threads : InCall(t) => SaysTrue(t)

\* The sales of calls that are over.
Settled(b, p) == {i \in Sells(b, p) : \A t \in Threads : InCall(t) => b[i].id # call[t].id}

\* What the broker was told is in the book, each sale in entries of its own.
ReportInv == \A p \in Positions :
    /\ pos[p].state = "none" => reported[p].sold = 0
    /\ reported[p].bought > 0 => \E i \in Buys(book, p) : reported[p].bought <= book[i].filled
    /\ broker = "spot" => reported[p].sold <= Total(book, Settled(book, p))
    /\ broker = "margin" =>
           /\ reported[p].sold \in {0, Qty}
           /\ pos[p].state = "open" => reported[p].sold = 0
           /\ reported[p].sold > 0 => ~book[pos[p].marginId].live

\* What the exchange holds for a position, and what an order made of it.
Net(p) == Total(book, Buys(book, p)) - Total(book, Sells(book, p))
Signed(e) == IF e.op = "sell" THEN -e.filled ELSE e.filled

\* A call about a position that no fault and no other thread touched: the
\* exchange has not carried its order out, or has, once, and the answer says
\* so; a margin position that has ended is still in the bot's account.
Unplaced(c, answer) ==
    /\ Of(c.id) = {} /\ c.phase # "check" /\ ~(c.phase = "order" /\ answer = "result")
    /\ Net(c.pos) = pos[c.pos].qty
PlacedOnce(c, answer) ==
    /\ c.op # "close" /\ c.phase # "dry_run"
    /\ c.phase = "order" => answer = "result"
    /\ c.phase = "check" => answer # "error"
    /\ \E i \in Of(c.id) :
         /\ Of(c.id) = {i}
         /\ Net(c.pos) = pos[c.pos].qty + Signed(book[i])
         /\ c.op \in Spot /\ c.phase = "order" => c.says \in {0, book[i].filled}
         /\ c.phase = "check" /\ answer = "result" => c.says = book[i].filled
EndedOnce(c, answer) ==
    /\ c.op = "close" /\ answer = "result"
    /\ Net(c.pos) = pos[c.pos].qty - Qty
Halfway(t) ==
    LET c == call[t]
    IN  /\ Closing(t) => c.qty <= pos[c.pos].qty
        /\ \/ Unplaced(c, req[t].answer)
           \/ PlacedOnce(c, req[t].answer)
           \/ EndedOnce(c, req[t].answer)

\* No fault was about p, and no two threads closed it at once.
Calm(p) == p \notin touched \cup raced

\* The broker and the exchange agree on p: between calls on its units, during
\* a call on how far the exchange has got.
Reckoned(p) ==
    /\ \A t, u \in Threads : On(t, p) /\ On(u, p) => t = u
    /\ (\A t \in Threads : ~On(t, p)) => pos[p].qty = Net(p)
    /\ \A t \in Threads : On(t, p) => Halfway(t)
CalmInv ==
    /\ \A c \in late : c.pos \in touched
    /\ \A p \in Positions : Calm(p) => Reckoned(p)

\* The inductive invariant.
LiveInv == TypeInv /\ IdInv /\ ShapeInv /\ AnswerInv /\ ReportInv /\ CalmInv

-----------------------------------------------------------------------------
(* What happens at the exchange *)

\* Two stages of one call.
SameCall(c, d) ==
    /\ c.op = d.op /\ c.pos = d.pos /\ c.qty = d.qty /\ c.id = d.id
    /\ c.marginId = d.marginId /\ c.phase = d.phase

\* The book after a request about q was carried out, or a live entry moved.
Moved(e) == IF e.op \in Spot THEN [e EXCEPT !.filled = e.asked, !.live = FALSE]
            ELSE [e EXCEPT !.live = FALSE]
Enters(c, e) ==
    /\ c.phase = "order" /\ c.op # "close"
    /\ e \in EntryRec /\ Stands(c, e) /\ Appended(e) /\ e.filled <= e.asked
    /\ c.op \in Spot => (e.live <=> e.filled = 0)
    /\ c.op = "open" => e.live /\ e.filled = e.asked
Moves(q, i) ==
    /\ book[i].pos = q /\ book[i].live /\ Replaced(i, Moved(book[i]))
    /\ book[i].op \in Spot => q \in touched'
BookStep(q) ==
    \/ book' = book
    \/ \E c \in Requests : c.pos = q /\ \E e : Enters(c, e)
    \/ \E i \in DOMAIN book : Moves(q, i)

\* A step of the exchange about q, in which only the threads of T are answered.
WorldStep(q, T) ==
    /\ UNCHANGED <<broker, pos, level, reported, calls, raced>>
    /\ q \in Positions /\ touched \subseteq touched' /\ touched' \subseteq touched \cup {q}
    /\ faults' \in Nat
    /\ \A c \in late' : c \in late \/ (c \in Requests /\ c.phase = "order" /\ c.pos \in touched')
    /\ call' \in [Threads -> CallRec \cup {NoCall}]
    /\ \A u \in Threads : /\ InCall(u)' <=> InCall(u)
                          /\ InCall(u) => SameCall(call'[u], call[u])
                          /\ u \notin T => call'[u] = call[u] /\ req'[u] = req[u]
    /\ ClientTypeOK'
    /\ \A u \in Threads : (req'[u].stage # "idle" <=> InCall(u)') /\ Fresh(u)'
    /\ BookStep(q)

\* Who the requests are.
LEMMA RequestFacts ==
  ASSUME TypeInv
  PROVE  /\ \A t \in Threads : InCall(t) => call[t] \in CallRec /\ call[t] \in Requests
         /\ \A c \in Requests : c \in CallRec
         /\ \A c \in Requests : c \in late \/ \E t \in Threads : InCall(t) /\ c = call[t]
         /\ \A i \in DOMAIN book : book[i] \in EntryRec
         /\ Qty \in Nat \ {0}
BY TradingAssumption DEF TypeInv, Requests, InCall

\* No entry is ever taken back, and what an entry has executed stays.
Fixed(e, f) ==
    /\ e.op = f.op /\ e.pos = f.pos /\ e.id = f.id /\ e.asked = f.asked
    /\ e.filled <= f.filled
    /\ ~e.live => f = e

\* What may become of the book in a step about q.
Grown(q) ==
    /\ book' \in Seq(EntryRec)
    /\ DOMAIN book \subseteq DOMAIN book'
    /\ \A i \in DOMAIN book : Fixed(book[i], book'[i])
    /\ \A i \in DOMAIN book : book[i].pos # q => book'[i] = book[i]
    /\ \A i \in DOMAIN book' \ DOMAIN book : \E c \in Requests : Stands(c, book'[i]) /\ c.pos = q
    /\ \A i \in DOMAIN book' : EntryShape(book'[i])
    /\ \A i \in DOMAIN book :
           book[i].op \in Spot /\ book[i].pos \notin touched' => book'[i] = book[i]

\* The book only grows, in what is about q.
LEMMA BookGrows ==
  ASSUME TypeInv, ShapeInv, NEW q \in Positions, BookStep(q), UNCHANGED broker
  PROVE  Grown(q)
<1>0. /\ book \in Seq(EntryRec) /\ \A i \in DOMAIN book : book[i] \in EntryRec /\ EntryShape(book[i])
      /\ Qty \in Nat \ {0} /\ broker \in {"spot", "margin"}
  BY RequestFacts DEF TypeInv, ShapeInv
<1>1. CASE book' = book
  BY <1>0, <1>1 DEF Grown, Fixed, EntryRec
<1>2. ASSUME NEW c \in Requests, c.pos = q, NEW e, Enters(c, e) PROVE Grown(q)
  <2>1. /\ book' \in Seq(EntryRec) /\ DOMAIN book' = DOMAIN book \cup {Len(book) + 1}
        /\ book'[Len(book) + 1] = e /\ \A i \in DOMAIN book : book'[i] = book[i]
    BY <1>0, <1>2, AppendedBook DEF Enters
  <2>2. EntryShape(e)
    <3>1. RequestShape(c)
      BY <1>2 DEF ShapeInv
    <3> QED  BY <1>2, <3>1 DEF Enters, Stands, EntryShape, RequestShape
  <2>3. Stands(c, e)
    BY <1>2 DEF Enters
  <2>4. \A i \in DOMAIN book : Fixed(book[i], book'[i])
    BY <1>0, <2>1 DEF Fixed, EntryRec
  <2> QED  BY <1>0, <1>2, <2>1, <2>2, <2>3, <2>4 DEF Grown
<1>3. ASSUME NEW i \in DOMAIN book, book[i].pos = q, book[i].live, Replaced(i, Moved(book[i])),
             book[i].op \in Spot => q \in touched'
      PROVE  Grown(q)
  <2> DEFINE e == Moved(book[i])
  <2>1. /\ e.op = book[i].op /\ e.pos = book[i].pos /\ e.id = book[i].id /\ e.asked = book[i].asked
        /\ e \in EntryRec /\ book[i].filled <= e.filled /\ EntryShape(e)
    <3>1. book[i] \in EntryRec /\ EntryShape(book[i])
      BY <1>0
    <3>2. CASE book[i].op \in Spot
      <4>1. e = [book[i] EXCEPT !.filled = book[i].asked, !.live = FALSE]
        BY <3>2 DEF Moved
      <4>2. /\ e.op = book[i].op /\ e.pos = book[i].pos /\ e.id = book[i].id
            /\ e.asked = book[i].asked /\ e.filled = book[i].asked /\ e.live = FALSE
            /\ book[i].asked \in 1..Qty /\ book[i].filled \in 0..Qty
        BY <3>1, <4>1 DEF EntryRec
      <4>3. e \in EntryRec
        <5>1. book[i].asked \in 0..Qty /\ FALSE \in BOOLEAN
          BY <1>0, <4>2
        <5> QED  BY <3>1, <4>1, <5>1 DEF EntryRec
      <4>4. EntryShape(e)
        BY <1>0, <3>1, <3>2, <4>2 DEF EntryShape, Spot
      <4>5. CASE book[i].filled = 0
        BY <1>0, <4>2, <4>3, <4>4, <4>5
      <4>6. CASE book[i].filled # 0
        BY <1>0, <1>3, <3>1, <3>2, <4>6 DEF EntryShape, Spot
      <4> QED  BY <4>2, <4>3, <4>4, <4>5, <4>6
    <3>3. CASE book[i].op \notin Spot
      <4>1. e = [book[i] EXCEPT !.live = FALSE]
        BY <3>3 DEF Moved
      <4>2. /\ e.op = book[i].op /\ e.pos = book[i].pos /\ e.id = book[i].id
            /\ e.asked = book[i].asked /\ e.filled = book[i].filled /\ e.live = FALSE
            /\ book[i].filled \in 0..Qty
        BY <3>1, <4>1 DEF EntryRec
      <4>3. e \in EntryRec
        BY <1>0, <3>1, <4>1, <4>2 DEF EntryRec
      <4>4. EntryShape(e)
        BY <1>0, <3>1, <3>3, <4>2 DEF EntryShape
      <4> QED  BY <1>0, <4>2, <4>3, <4>4
    <3> QED  BY <3>2, <3>3
  <2> HIDE DEF e
  <2>2. /\ book' \in Seq(EntryRec) /\ DOMAIN book' = DOMAIN book
        /\ \A j \in DOMAIN book : book'[j] = IF j = i THEN e ELSE book[j]
    BY <1>0, <1>3, <2>1, ReplacedBook DEF e
  <2>3. ASSUME NEW j \in DOMAIN book PROVE Fixed(book[j], book'[j])
    <3>1. CASE j = i
      BY <1>3, <2>1, <2>2, <3>1 DEF Fixed
    <3>2. CASE j # i
      <4>1. book'[j] = book[j] /\ book[j].filled <= book[j].filled
        BY <1>0, <2>2, <3>2 DEF EntryRec
      <4> QED  BY <4>1 DEF Fixed
    <3> QED  BY <3>1, <3>2
  <2> QED  BY <1>0, <1>3, <2>1, <2>2, <2>3 DEF Grown
<1>4. CASE \E c \in Requests : c.pos = q /\ \E e : Enters(c, e)
  <2>1. PICK c \in Requests : c.pos = q /\ \E e : Enters(c, e)
    BY <1>4
  <2>2. PICK e : Enters(c, e)
    BY <2>1
  <2> QED  BY <1>2, <2>1, <2>2
<1>5. CASE \E i \in DOMAIN book : Moves(q, i)
  <2>1. PICK i \in DOMAIN book : Moves(q, i)
    BY <1>5
  <2> QED  BY <1>3, <2>1 DEF Moves
<1> QED  BY <1>1, <1>4, <1>5 DEF BookStep

\* The exchange makes no request.
LEMMA NoNewRequest ==
  ASSUME TypeInv, NEW q, NEW T, WorldStep(q, T)
  PROVE  /\ \A c \in Requests' : c \in CallRec /\ \E d \in Requests : SameCall(c, d)
         /\ \A u \in Threads : InCall(u)' => call'[u] \in Requests' /\ call'[u] \in CallRec
<1>1. ASSUME NEW c \in Requests' PROVE c \in CallRec /\ \E d \in Requests : SameCall(c, d)
  <2>1. CASE c \in late'
    <3>1. c \in Requests
      BY <2>1 DEF WorldStep, Requests
    <3> QED  BY <3>1, RequestFacts DEF SameCall
  <2>2. CASE c \notin late'
    <3>1. PICK u \in Threads : InCall(u)' /\ c = call'[u]
      BY <2>2 DEF Requests
    <3>2. InCall(u) /\ SameCall(c, call[u])
      BY <3>1 DEF WorldStep
    <3>3. c \in CallRec
      BY <3>1 DEF WorldStep, InCall
    <3> QED  BY <3>2, <3>3, RequestFacts
  <2> QED  BY <2>1, <2>2
<1>2. \A u \in Threads : InCall(u)' => call'[u] \in Requests' /\ call'[u] \in CallRec
  BY DEF WorldStep, InCall, Requests
<1> QED  BY <1>1, <1>2

\* A new entry with the id of a request is that request's order.
LEMMA WorldKeepsIds ==
  ASSUME TypeInv, IdInv, ShapeInv, NEW q, NEW T, WorldStep(q, T)
  PROVE  /\ IdInv'
         /\ \A u \in Threads : InCall(u) /\ call[u].pos # q =>
                Of(call[u].id)' = Of(call[u].id) /\ \A i \in Of(call[u].id) : book'[i] = book[i]
<1>0. q \in Positions /\ BookStep(q) /\ UNCHANGED broker /\ calls' = calls
  BY DEF WorldStep
<1>1. /\ DOMAIN book \subseteq DOMAIN book'
      /\ \A i \in DOMAIN book : Fixed(book[i], book'[i])
      /\ \A i \in DOMAIN book : book[i].pos # q => book'[i] = book[i]
      /\ \A i \in DOMAIN book' \ DOMAIN book : \E c \in Requests : Stands(c, book'[i]) /\ c.pos = q
  BY <1>0, BookGrows DEF Grown
<1>2. \A c \in Requests' : \E d \in Requests : SameCall(c, d)
  BY NoNewRequest
<1>3. \A c \in Requests : c.id \in 1..calls
  BY DEF IdInv
<1>4. \A c \in Requests' : c.id \in 1..calls'
  BY <1>0, <1>2, <1>3 DEF SameCall
<1>5. \A i \in DOMAIN book' : book'[i].id \in 1..calls'
  BY <1>0, <1>1, <1>3 DEF IdInv, Fixed, Stands
<1>6. \A t, u \in Threads : InCall(t)' /\ InCall(u)' /\ call'[t].id = call'[u].id => t = u
  BY DEF WorldStep, SameCall, IdInv
<1>7. \A c, d \in Requests : SameOrder(c, d)
  BY DEF IdInv
<1>8. \A c, d \in Requests' : SameOrder(c, d)
  BY <1>2, <1>7 DEF SameCall, SameOrder
<1>9. ASSUME NEW c \in Requests', NEW i \in DOMAIN book', book'[i].id = c.id PROVE Stands(c, book'[i])
  <2>1. PICK d \in Requests : SameCall(c, d)
    BY <1>2
  <2>2. CASE i \in DOMAIN book
    <3>1. i \in Of(d.id)
      BY <1>1, <1>9, <2>1, <2>2 DEF Of, SameCall, Fixed
    <3>2. Stands(d, book[i])
      BY <3>1 DEF IdInv
    <3> QED  BY <1>1, <2>1, <2>2, <3>2 DEF Stands, SameCall, Fixed
  <2>3. CASE i \notin DOMAIN book
    <3>1. PICK e \in Requests : Stands(e, book'[i])
      BY <1>1, <2>3
    <3>2. SameOrder(e, d)
      BY <1>7
    <3> QED  BY <1>9, <2>1, <3>1, <3>2 DEF Stands, SameCall, SameOrder
  <2> QED  BY <2>2, <2>3
<1>10. IdInv'
  BY <1>4, <1>5, <1>6, <1>8, <1>9 DEF IdInv, Of
<1>11. ASSUME NEW u \in Threads, InCall(u), call[u].pos # q
       PROVE  Of(call[u].id)' = Of(call[u].id) /\ \A i \in Of(call[u].id) : book'[i] = book[i]
  <2>0. call[u] \in Requests /\ call'[u].id = call[u].id
    BY <1>11, RequestFacts DEF WorldStep, SameCall
  <2>1. \A i \in Of(call[u].id) : book[i].pos = call[u].pos /\ i \in DOMAIN book
    BY <2>0 DEF IdInv, Stands, Of
  <2>2. ASSUME NEW i \in DOMAIN book' \ DOMAIN book, book'[i].id = call[u].id PROVE FALSE
    <3>1. PICK c \in Requests : Stands(c, book'[i]) /\ c.pos = q
      BY <1>1
    <3>2. SameOrder(c, call[u])
      BY <1>7, <2>0
    <3> QED  BY <1>11, <2>2, <3>1, <3>2 DEF Stands, SameOrder
  <2>3. \A i \in DOMAIN book : book'[i].id = book[i].id
    BY <1>1 DEF Fixed
  <2>4. Of(call[u].id)' = {i \in DOMAIN book' : book'[i].id = call[u].id}
    BY <2>0 DEF Of
  <2>5. Of(call[u].id)' = Of(call[u].id)
    BY <1>1, <2>2, <2>3, <2>4 DEF Of
  <2> QED  BY <1>1, <1>11, <2>1, <2>5
<1> QED  BY <1>10, <1>11

\* The rest of what is known of requests and entries stays true too.
LEMMA WorldKeepsShape ==
  ASSUME TypeInv, IdInv, ShapeInv, NEW q, NEW T, WorldStep(q, T)
  PROVE  TypeInv' /\ ShapeInv'
<1>0. q \in Positions /\ BookStep(q) /\ UNCHANGED <<broker, pos, level, reported, calls, raced>>
  BY DEF WorldStep
<1>1. /\ book' \in Seq(EntryRec) /\ DOMAIN book \subseteq DOMAIN book'
      /\ \A i \in DOMAIN book : Fixed(book[i], book'[i])
      /\ \A i \in DOMAIN book' : EntryShape(book'[i])
  BY <1>0, BookGrows DEF Grown
<1>2. /\ \A c \in Requests' : c \in CallRec /\ \E d \in Requests : SameCall(c, d)
      /\ \A u \in Threads : InCall(u)' => call'[u] \in Requests'
  BY NoNewRequest
<1>3. late' \subseteq CallRec
  BY <1>2 DEF Requests
<1>4. TypeInv'
  BY <1>0, <1>1, <1>3 DEF WorldStep, TypeInv
<1>5. ASSUME NEW c \in Requests' PROVE RequestShape(c)'
  <2>1. PICK d \in Requests : SameCall(c, d)
    BY <1>2
  <2>2. RequestShape(d)
    BY DEF ShapeInv
  <2>3. broker' = broker /\ pos' = pos
    BY <1>0
  <2> QED  BY <2>1, <2>2, <2>3 DEF RequestShape, SameCall
<1>6. \A c \in late' : c.phase = "order"
  BY DEF WorldStep, ShapeInv
<1>7. \A i \in DOMAIN book' : EntryShape(book[i])'
  BY <1>0, <1>1 DEF EntryShape
<1>8. \A p \in Positions : broker' = "margin" /\ pos'[p].state # "none" =>
           /\ pos'[p].marginId \in DOMAIN book' /\ book'[pos'[p].marginId].pos = p
           /\ pos'[p].state = "open" => pos'[p].qty = Qty
  BY <1>0, <1>1 DEF ShapeInv, Fixed
<1>9. /\ \A t \in Threads : Opening(t)' <=> Opening(t)
      /\ \A t \in Threads : Closing(t)' <=> Closing(t)
      /\ \A t \in Threads : InCall(t) => call'[t].pos = call[t].pos
      /\ \A t \in Threads : InCall(t)' <=> InCall(t)
      /\ \A t \in Threads, p \in Positions : On(t, p)' <=> On(t, p)
  BY DEF WorldStep, Opening, Closing, SameCall, On
<1>10. \A t \in Threads : InCall(t) => call[t].pos \in Positions
  BY RequestFacts DEF CallRec
<1>11. ASSUME NEW t \in Threads, Opening(t)'
       PROVE  pos'[call'[t].pos].state = "none" /\ \A u \in Threads : On(u, call[t].pos)' => u = t
  <2>1. Opening(t) /\ InCall(t)
    BY <1>9, <1>11 DEF Opening
  <2> QED  BY <1>0, <1>9, <1>10, <2>1 DEF ShapeInv
<1>12. ASSUME NEW t \in Threads, Opening(t)'
       PROVE  \A u \in Threads : On(u, call[t].pos)' <=> InCall(u)' /\ call'[u].pos = call'[t].pos
  BY <1>9, <1>12 DEF On, Opening
<1>13. \A t \in Threads : Opening(t)' =>
           pos'[call'[t].pos].state = "none"
           /\ \A u \in Threads : InCall(u)' /\ call'[u].pos = call'[t].pos => u = t
  BY <1>11, <1>12
<1>14. \A t \in Threads : Closing(t)' => pos'[call'[t].pos].state # "none"
  BY <1>0, <1>9 DEF ShapeInv, Closing
<1>15. Closing(GridThread)' => pos'[call'[GridThread].pos].qty <= call'[GridThread].qty
  <2> SUFFICES ASSUME Closing(GridThread)'
               PROVE  pos'[call'[GridThread].pos].qty <= call'[GridThread].qty
    OBVIOUS
  <2>1. GridThread \in Threads
    BY TradingAssumption
  <2>2. Closing(GridThread) /\ InCall(GridThread)
    BY <1>9, <2>1 DEF Closing
  <2>3. call'[GridThread].pos = call[GridThread].pos /\ call'[GridThread].qty = call[GridThread].qty
    BY <2>1, <2>2 DEF WorldStep, SameCall
  <2> QED  BY <1>0, <2>2, <2>3 DEF ShapeInv
<1>16. ShapeInv'
  BY <1>5, <1>6, <1>7, <1>8, <1>13, <1>14, <1>15 DEF ShapeInv, On
<1> QED  BY <1>4, <1>16

\* What was said to threads that get no answer now remains true.
LEMMA WorldKeepsAnswers ==
  ASSUME TypeInv, IdInv, ShapeInv, AnswerInv, NEW q, NEW T, WorldStep(q, T),
         NEW u \in Threads \ T, InCall(u)'
  PROVE  SaysTrue(u)'
<1> DEFINE c == call[u]
<1>0. /\ q \in Positions /\ BookStep(q) /\ UNCHANGED <<broker, pos>> /\ touched \subseteq touched'
      /\ InCall(u) /\ call'[u] = c /\ req'[u] = req[u]
  BY DEF WorldStep
<1>1. /\ DOMAIN book \subseteq DOMAIN book'
      /\ \A i \in DOMAIN book : Fixed(book[i], book'[i])
      /\ \A i \in DOMAIN book :
           book[i].op \in Spot /\ book[i].pos \notin touched' => book'[i] = book[i]
  BY <1>0, BookGrows DEF Grown
<1>2. SaysTrue(u)
  BY <1>0 DEF AnswerInv
<1>3. c \in Requests /\ c \in CallRec
  BY <1>0, RequestFacts
<1>4. RequestShape(c) /\ \A i \in DOMAIN book : EntryShape(book[i]) /\ book[i] \in EntryRec
  BY <1>3, RequestFacts DEF ShapeInv
<1>5. \A i \in Of(c.id) : i \in DOMAIN book /\ Stands(c, book[i])
  BY <1>3 DEF IdInv, Of
<1>7. broker \in {"spot", "margin"}
  BY DEF TypeInv
<1>13. c' = c
  BY <1>0
<1> HIDE DEF c
<1>6. \A i \in Of(c.id) : i \in Of(c.id)'
  BY <1>1, <1>13 DEF Of, Fixed
<1>8. c.op \in Spot /\ c.says > 0 => \E i \in Of(c.id)' : book'[i].filled = c.says
  <2> SUFFICES ASSUME c.op \in Spot, c.says > 0 PROVE \E i \in Of(c.id)' : book'[i].filled = c.says
    OBVIOUS
  <2>1. PICK i \in Of(c.id) : book[i].filled = c.says
    BY <1>2 DEF SaysTrue, c
  <2>2. broker = "spot"
    BY <1>4, <1>7 DEF RequestShape, Spot
  <2>3. i \in DOMAIN book /\ ~book[i].live
    BY <1>4, <1>5, <2>1, <2>2 DEF EntryShape, EntryRec
  <2>4. book'[i] = book[i]
    BY <1>1, <2>3 DEF Fixed
  <2> QED  BY <1>6, <2>1, <2>4
<1>9. c.op = "open" /\ c.phase = "order" /\ req[u].answer = "result" => c.says \in Of(c.id)'
  BY <1>2, <1>6 DEF SaysTrue, c
<1>10. c.op = "close" /\ req[u].answer = "result" => ~book'[c.marginId].live
  <2> SUFFICES ASSUME c.op = "close", req[u].answer = "result" PROVE ~book'[c.marginId].live
    OBVIOUS
  <2>1. ~book[c.marginId].live
    BY <1>2 DEF SaysTrue, c
  <2>2. broker = "margin" /\ pos[c.pos].state # "none" /\ c.marginId = pos[c.pos].marginId
    BY <1>4, <1>7 DEF RequestShape, Spot
  <2>3. c.marginId \in DOMAIN book
    BY <1>3, <2>2 DEF ShapeInv, CallRec
  <2> QED  BY <1>1, <2>1, <2>3 DEF Fixed
<1>11. c.phase = "check" /\ req[u].answer = "result" /\ c.says = 0 =>
           c.pos \in touched' \/ \E i \in Of(c.id)' : book'[i].filled = 0
  <2> SUFFICES ASSUME c.phase = "check", req[u].answer = "result", c.says = 0, c.pos \notin touched'
               PROVE  \E i \in Of(c.id)' : book'[i].filled = 0
    OBVIOUS
  <2>1. PICK i \in Of(c.id) : book[i].filled = 0
    BY <1>0, <1>2 DEF SaysTrue, c
  <2>2. broker = "spot" /\ c.op \in Spot
    BY <1>4, <1>7 DEF RequestShape
  <2>3. book[i].op \in Spot /\ book[i].pos \notin touched' /\ i \in DOMAIN book
    BY <1>5, <2>1, <2>2 DEF Stands
  <2>4. book'[i] = book[i]
    BY <1>1, <2>3
  <2> QED  BY <1>6, <2>1, <2>4
<1>12. req[u].answer = "useless" => c.pos \in touched'
  BY <1>0, <1>2 DEF SaysTrue, c
<1> QED  BY <1>0, <1>8, <1>9, <1>10, <1>11, <1>12 DEF SaysTrue, c

\* What the broker was told stays in the book.
LEMMA WorldKeepsReports ==
  ASSUME TypeInv, IdInv, ShapeInv, ReportInv, NEW q, NEW T, WorldStep(q, T)
  PROVE  ReportInv'
<1>0. /\ q \in Positions /\ BookStep(q) /\ UNCHANGED <<broker, pos, reported>>
      /\ \A t \in Threads : (InCall(t)' <=> InCall(t)) /\ (InCall(t) => call'[t].id = call[t].id)
  BY DEF WorldStep, SameCall
<1>1. /\ book' \in Seq(EntryRec) /\ DOMAIN book \subseteq DOMAIN book'
      /\ \A i \in DOMAIN book : Fixed(book[i], book'[i])
  BY <1>0, BookGrows DEF Grown
<1>2. book \in Seq(EntryRec) /\ \A i \in DOMAIN book : book[i] \in EntryRec
  BY RequestFacts DEF TypeInv
<1>3. \A i \in DOMAIN book' : book'[i] \in EntryRec
  BY <1>1
<1> SUFFICES ASSUME NEW p \in Positions
    PROVE /\ pos'[p].state = "none" => reported'[p].sold = 0
          /\ reported'[p].bought > 0 => \E i \in Buys(book, p)' : reported'[p].bought <= book'[i].filled
          /\ broker' = "spot" => reported'[p].sold <= Total(book, Settled(book, p))'
          /\ broker' = "margin" =>
                 /\ reported'[p].sold \in {0, Qty}
                 /\ pos'[p].state = "open" => reported'[p].sold = 0
                 /\ reported'[p].sold > 0 => ~book'[pos'[p].marginId].live
  BY DEF ReportInv
<1>4. reported'[p] = reported[p] /\ reported[p].bought \in Nat /\ reported[p].sold \in Nat
  BY <1>0 DEF TypeInv
<1>5. pos[p].state = "none" => reported[p].sold = 0
  BY DEF ReportInv
<1>6. reported[p].bought > 0 => \E i \in Buys(book, p)' : reported[p].bought <= book'[i].filled
  <2> SUFFICES ASSUME reported[p].bought > 0
               PROVE  \E i \in Buys(book, p)' : reported[p].bought <= book'[i].filled
    OBVIOUS
  <2>1. PICK i \in Buys(book, p) : reported[p].bought <= book[i].filled
    BY DEF ReportInv
  <2>2. i \in DOMAIN book /\ book[i].pos = p /\ book[i].op \in {"buy", "open"}
    BY DEF Buys
  <2>3. i \in Buys(book, p)' /\ book[i].filled <= book'[i].filled
    BY <1>1, <2>2 DEF Buys, Fixed
  <2>4. book[i].filled \in Nat /\ book'[i].filled \in Nat
    BY <1>1, <1>2, <1>3, <2>2 DEF EntryRec
  <2> QED  BY <1>4, <2>1, <2>3, <2>4
<1>7. broker = "spot" => reported[p].sold <= Total(book, Settled(book, p))'
  <2> SUFFICES ASSUME broker = "spot" PROVE reported[p].sold <= Total(book, Settled(book, p))'
    OBVIOUS
  <2>1. reported[p].sold <= Total(book, Settled(book, p))
    BY DEF ReportInv
  <2> DEFINE S == Settled(book, p)
             R == Settled(book, p)'
  <2>2. ASSUME NEW i \in S PROVE i \in R /\ book[i].filled <= book'[i].filled
    <3>1. /\ i \in DOMAIN book /\ book[i].pos = p /\ EntryShape(book[i])
          /\ book[i].op = "sell" \/ (book[i].op = "open" /\ ~book[i].live)
          /\ \A t \in Threads : InCall(t) => book[i].id # call[t].id
      BY DEF Settled, Sells, ShapeInv
    <3>2. i \in DOMAIN book'
      BY <1>1, <3>1
    <3>3. Fixed(book[i], book'[i])
      BY <1>1, <3>1
    <3> QED  BY <1>0, <3>1, <3>2, <3>3 DEF Settled, Sells, Fixed
  <2>3. S \in SUBSET DOMAIN book /\ R \in SUBSET DOMAIN book'
    BY DEF Settled, Sells
  <2> HIDE DEF S, R
  <2>4. Total(book, S) <= Total(book', R)
    BY <1>1, <1>2, <2>2, <2>3, TotalGrows
  <2>5. Total(book, S) \in Nat /\ Total(book', R) \in Nat
    BY <1>1, <1>2, <2>3, TotalType
  <2>6. reported[p].sold <= Total(book', R)
    BY <1>4, <2>1, <2>4, <2>5 DEF S
  <2> QED  BY <2>6 DEF R, Total
<1>8. broker = "margin" =>
          /\ reported[p].sold \in {0, Qty}
          /\ pos[p].state = "open" => reported[p].sold = 0
          /\ reported[p].sold > 0 => ~book'[pos[p].marginId].live
  <2> SUFFICES ASSUME broker = "margin", reported[p].sold > 0 PROVE ~book'[pos[p].marginId].live
    BY DEF ReportInv
  <2>1. ~book[pos[p].marginId].live /\ pos[p].marginId \in DOMAIN book
    BY <1>5 DEF ReportInv, ShapeInv
  <2> QED  BY <1>1, <2>1 DEF Fixed
<1> QED  BY <1>0, <1>4, <1>5, <1>6, <1>7, <1>8

\* What the exchange does about q is not about another position.
LEMMA NetKept ==
  ASSUME TypeInv, ShapeInv, NEW q, NEW T, WorldStep(q, T), NEW p, p # q
  PROVE  Net(p)' = Net(p)
<1>0. q \in Positions /\ BookStep(q) /\ UNCHANGED broker
  BY DEF WorldStep
<1>1. /\ DOMAIN book \subseteq DOMAIN book'
      /\ \A i \in DOMAIN book : Fixed(book[i], book'[i])
      /\ \A i \in DOMAIN book : book[i].pos # q => book'[i] = book[i]
      /\ \A i \in DOMAIN book' \ DOMAIN book : book'[i].pos = q
  BY <1>0, BookGrows DEF Grown, Stands
<1>2. \A i \in DOMAIN book' : book'[i].pos = p => i \in DOMAIN book /\ book'[i] = book[i]
  BY <1>1 DEF Fixed
<1>3. \A i \in DOMAIN book : book[i].pos = p => i \in DOMAIN book' /\ book'[i] = book[i]
  BY <1>1
<1>4. Buys(book', p) = Buys(book, p) /\ \A i \in Buys(book, p) : book'[i].filled = book[i].filled
  BY <1>2, <1>3 DEF Buys
<1>5. Sells(book', p) = Sells(book, p) /\ \A i \in Sells(book, p) : book'[i].filled = book[i].filled
  BY <1>2, <1>3 DEF Sells
<1>6. Total(book', Buys(book', p)) = Total(book, Buys(book, p))
  BY <1>4, TotalSame
<1>7. Total(book', Sells(book', p)) = Total(book, Sells(book, p))
  BY <1>5, TotalSame
<1> QED  BY <1>6, <1>7 DEF Net, Total, Buys, Sells

\* A step of the exchange about q leaves the reckoning of every other position.
LEMMA WorldSparesOthers ==
  ASSUME TypeInv, IdInv, ShapeInv, CalmInv, NEW q, NEW T, WorldStep(q, T), \A t \in T : On(t, q),
         NEW p \in Positions, p # q, Calm(p)'
  PROVE  Reckoned(p)'
<1>1. /\ UNCHANGED <<pos, raced>> /\ Calm(p)
      /\ \A u \in Threads : On(u, p)' <=> On(u, p)
      /\ \A u \in Threads : On(u, p) => call'[u] = call[u] /\ req'[u] = req[u]
  BY DEF WorldStep, Calm, On, SameCall
<1>2. Reckoned(p)
  BY <1>1 DEF CalmInv
<1>3. Net(p)' = Net(p)
  BY NetKept
<1>4. ASSUME NEW u \in Threads, On(u, p) PROVE Halfway(u)'
  <2>1. Of(call[u].id)' = Of(call[u].id) /\ \A i \in Of(call[u].id) : book'[i] = book[i]
    BY <1>4, WorldKeepsIds DEF On
  <2>2. call'[u] = call[u] /\ req'[u] = req[u] /\ pos' = pos /\ call[u].pos = p
    BY <1>1, <1>4 DEF On
  <2>3. Net(call[u].pos)' = Net(call[u].pos)
    BY <1>3, <2>2 DEF Net
  <2>4. Unplaced(call[u], req[u].answer) => Unplaced(call[u], req[u].answer)'
    BY <2>1, <2>2, <2>3 DEF Unplaced
  <2>5. PlacedOnce(call[u], req[u].answer) => PlacedOnce(call[u], req[u].answer)'
    BY <2>1, <2>2, <2>3 DEF PlacedOnce
  <2>6. EndedOnce(call[u], req[u].answer) => EndedOnce(call[u], req[u].answer)'
    BY <2>2, <2>3 DEF EndedOnce
  <2>7. (Closing(u) => call[u].qty <= pos[call[u].pos].qty)' <=> (Closing(u) => call[u].qty <= pos[call[u].pos].qty)
    BY <2>2 DEF Closing, InCall
  <2>8. Halfway(u)
    BY <1>2, <1>4 DEF Reckoned
  <2> QED  BY <2>4, <2>5, <2>6, <2>7, <2>8 DEF Halfway
<1> QED  BY <1>1, <1>2, <1>3, <1>4 DEF Reckoned

\* A margin position that the broker knows is an entry of its own position.
LEMMA MarginEntry ==
  ASSUME TypeInv, ShapeInv, NEW c \in Requests, c.op = "close"
  PROVE  /\ broker = "margin" /\ c.pos \in Positions
         /\ pos[c.pos].state # "none" /\ c.marginId = pos[c.pos].marginId
         /\ c.marginId \in DOMAIN book
         /\ book[c.marginId].pos = c.pos /\ book[c.marginId].op = "open" /\ book[c.marginId].filled = Qty
         /\ book[c.marginId] \in EntryRec
<1>1. RequestShape(c) /\ c.pos \in Positions
  BY RequestFacts DEF ShapeInv, CallRec
<1>2. broker = "margin"
  BY <1>1 DEF RequestShape, TypeInv, Spot
<1>3. pos[c.pos].state # "none" /\ c.marginId = pos[c.pos].marginId
  BY <1>1 DEF RequestShape
<1>4. c.marginId \in DOMAIN book /\ book[c.marginId].pos = c.pos
  BY <1>1, <1>2, <1>3 DEF ShapeInv
<1>5. EntryShape(book[c.marginId])
  BY <1>4 DEF ShapeInv
<1> QED  BY <1>1, <1>2, <1>3, <1>4, <1>5, RequestFacts DEF EntryShape

\* A look is one at a spot order.
LEMMA ChecksAreSpot ==
  ASSUME TypeInv, ShapeInv, NEW c \in Requests, c.phase = "check" \/ c.op \in Spot
  PROVE  broker = "spot" /\ c.op \in Spot
BY DEF ShapeInv, RequestShape, TypeInv, Spot

\* A request that is carried out is a step of the book about its position.
LEMMA OutcomeSteps ==
  ASSUME TypeInv, ShapeInv, NEW c \in Requests, Accepts(c), NEW o \in Outcomes(c), book' = o.book
  PROVE  /\ BookStep(c.pos) /\ o.says \in Nat
         /\ \/ Looked(c, o.says)
            \/ \E e : Ordered(c, e, o.says)
            \/ \E e : Ended(c, e, o.says)
<1>1. c \in CallRec /\ book \in Seq(EntryRec)
  BY RequestFacts DEF TypeInv
<1>2. c.phase = "check" => c.op \in Spot
  BY ChecksAreSpot
<1>3. /\ o.says \in Nat
      /\ \/ Looked(c, o.says)
         \/ \E e : Ordered(c, e, o.says)
         \/ \E e : Ended(c, e, o.says)
  BY <1>1, <1>2, CarriedOut
<1>4. CASE Looked(c, o.says)
  BY <1>3, <1>4 DEF Looked, BookStep
<1>5. CASE \E e : Ordered(c, e, o.says)
  <2>1. PICK e : Ordered(c, e, o.says)
    BY <1>5
  <2>2. Enters(c, e)
    BY <2>1 DEF Ordered, Enters
  <2> QED  BY <1>3, <2>2 DEF BookStep
<1>6. CASE \E e : Ended(c, e, o.says)
  <2>1. PICK e : Ended(c, e, o.says)
    BY <1>6
  <2>2. c.op = "close"
    BY <2>1 DEF Ended
  <2>3. c.marginId \in DOMAIN book /\ book[c.marginId].pos = c.pos /\ book[c.marginId].op \notin Spot
    BY <2>2, MarginEntry DEF Spot
  <2>4. Moved(book[c.marginId]) = [book[c.marginId] EXCEPT !.live = FALSE]
    BY <2>3 DEF Moved
  <2>5. Moves(c.pos, c.marginId)
    BY <2>1, <2>3, <2>4 DEF Ended, Moves
  <2> QED  BY <1>3, <2>3, <2>5 DEF BookStep
<1> QED  BY <1>3, <1>4, <1>5, <1>6

\* The client makes of an answer that is no result a reason to retry or an error.
LEMMA Classes ==
  /\ \A a \in Answers : Class(a) \in {"result", "useless", "error"}
  /\ Class("result") = "result" /\ Class("refused") = "error"
  /\ \A a \in Answers \ {"result"} : Class(a) \in {"useless", "error"}
<1>1. "result" \notin Retried /\ "refused" \notin Retried
  BY DEF Retried, WallexRetries, GenericRetries
<1>2. Class("result") = "result"
  BY <1>1 DEF Class
<1>3. Class("refused") = "error"
  BY <1>1 DEF Class
<1>4. \A a \in Answers \ {"result"} : Class(a) \in {"useless", "error"}
  BY <1>1 DEF Class
<1> QED  BY <1>2, <1>3, <1>4

\* A request of thread t about which nothing else changes than its answer.
LEMMA AnswerFacts ==
  ASSUME TypeInv, NEW t \in Threads, NEW a \in Answers, Answered(t, a), UNCHANGED client
  PROVE  /\ InCall(t) /\ call[t] \in CallRec /\ call[t] \in Requests
         /\ req[t].answer = "none" /\ call[t].says = 0
         /\ req'[t].answer = Class(a) /\ req'[t].stage = "answered"
         /\ \A u \in Threads \ {t} : req'[u] = req[u]
         /\ ClientTypeOK'
<1>1. req[t].stage = "queued" /\ req' = [req EXCEPT ![t].stage = "answered", ![t].answer = Class(a)]
  BY DEF Answered
<1>2. InCall(t) /\ call[t] \in CallRec /\ call[t] \in Requests
  BY <1>1, RequestFacts DEF TypeInv
<1>3. req[t].answer = "none" /\ call[t].says = 0
  BY <1>1, <1>2 DEF TypeInv, Fresh
<1>4. /\ req \in [Threads -> [stage : {"idle", "queued", "answered"}, attempt : 0..MaxRetries,
                              answer : {"none", "result", "useless", "error"}]]
      /\ client \in Clients
  BY DEF TypeInv, ClientTypeOK
<1>5. Class(a) \in {"result", "useless", "error"}
  BY Classes
<1>6. req'[t].answer = Class(a) /\ req'[t].stage = "answered" /\ \A u \in Threads \ {t} : req'[u] = req[u]
  BY <1>1, <1>4
<1>7. ClientTypeOK'
  <2>1. req' \in [Threads -> [stage : {"idle", "queued", "answered"}, attempt : 0..MaxRetries,
                              answer : {"none", "result", "useless", "error"}]]
    BY <1>1, <1>4, <1>5
  <2> QED  BY <1>4, <2>1 DEF ClientTypeOK
<1> QED  BY <1>2, <1>3, <1>6, <1>7

\* A request is of the same call as itself.
LEMMA SameCallItself == \A c : SameCall(c, c)
BY DEF SameCall

\* A request of thread t that is answered is a step of the exchange.
LEMMA AnswerIsWorld ==
  ASSUME TypeInv, NEW t \in Threads, NEW a \in Answers, Answered(t, a),
         UNCHANGED <<client, broker, localVars, calls, raced>>,
         touched \subseteq touched', touched' \subseteq touched \cup {call[t].pos}, faults' \in Nat,
         \A c \in late' : c \in late \/ (c \in Requests /\ c.phase = "order" /\ c.pos \in touched'),
         call' = call \/ (a = "result" /\ \E s \in Nat : call' = [call EXCEPT ![t].says = s]),
         BookStep(call[t].pos)
  PROVE  WorldStep(call[t].pos, {t})
<1>1. /\ InCall(t) /\ call[t] \in CallRec /\ req[t].answer = "none" /\ call[t].says = 0
      /\ req'[t].answer = Class(a) /\ req'[t].stage = "answered"
      /\ \A u \in Threads \ {t} : req'[u] = req[u]
      /\ ClientTypeOK'
  BY AnswerFacts
<1>2. call[t].pos \in Positions /\ call[t] # NoCall
  BY <1>1 DEF CallRec, InCall
<1>3. call \in [Threads -> CallRec \cup {NoCall}]
  BY DEF TypeInv
<1>4. /\ call' \in [Threads -> CallRec \cup {NoCall}]
      /\ \A u \in Threads : u # t => call'[u] = call[u]
      /\ SameCall(call'[t], call[t]) /\ call'[t] # NoCall
      /\ a # "result" => call'[t].says = 0
  <2>1. CASE call' = call
    BY <1>1, <1>2, <1>3, <2>1, SameCallItself
  <2>2. CASE a = "result" /\ \E s \in Nat : call' = [call EXCEPT ![t].says = s]
    <3>1. PICK s \in Nat : call' = [call EXCEPT ![t].says = s]
      BY <2>2
    <3> DEFINE d == [call[t] EXCEPT !.says = s]
    <3>2. d \in CallRec /\ SameCall(d, call[t])
      BY <1>1 DEF CallRec, SameCall
    <3>3. d # NoCall
      BY <3>2 DEF CallRec, NoCall
    <3>4. call' = [call EXCEPT ![t] = d]
      BY <3>1
    <3> HIDE DEF d
    <3> QED  BY <1>3, <2>2, <3>2, <3>3, <3>4
  <2> QED  BY <2>1, <2>2
<1>5. \A u \in Threads : /\ InCall(u)' <=> InCall(u)
                         /\ InCall(u) => SameCall(call'[u], call[u])
                         /\ u \notin {t} => call'[u] = call[u] /\ req'[u] = req[u]
  BY <1>1, <1>4, SameCallItself DEF InCall
<1>6. a # "result" => Class(a) # "result"
  BY Classes
<1>7. Class(a) \in {"result", "useless", "error"} /\ (a = "result" => Class(a) = "result")
  BY Classes
<1>8. Fresh(t)'
  BY <1>1, <1>4, <1>7 DEF Fresh
<1>9. req'[t].stage # "idle" <=> InCall(t)'
  BY <1>1, <1>5
<1>10. ASSUME NEW u \in Threads, u # t PROVE (req'[u].stage # "idle" <=> InCall(u)') /\ Fresh(u)'
  <2>1. req'[u] = req[u] /\ call'[u] = call[u]
    BY <1>5, <1>10
  <2> QED  BY <2>1 DEF TypeInv, Fresh, InCall
<1> QED  BY <1>1, <1>2, <1>4, <1>5, <1>8, <1>9, <1>10 DEF WorldStep, localVars

\* The exchange carries a request out and says so: what it says is so.
LEMMA ServeStep ==
  ASSUME TypeInv, IdInv, ShapeInv, NEW t \in Threads, Serve(t),
         UNCHANGED <<client, broker, localVars, calls, raced>>
  PROVE  WorldStep(call[t].pos, {t}) /\ SaysTrue(t)'
<1> DEFINE c == call[t]
<1>1. Answered(t, "result") /\ Accepts(c) /\ UNCHANGED <<late, faults, touched>>
  BY DEF Serve
<1>2. PICK o \in Outcomes(c) : book' = o.book /\ call' = [call EXCEPT ![t].says = o.says]
  BY DEF Serve
<1>3. "result" \in Answers /\ Class("result") = "result"
  BY Classes DEF Answers
<1>4. /\ c \in CallRec /\ c \in Requests /\ req'[t].answer = "result" /\ c.says = 0
  BY <1>1, <1>3, AnswerFacts
<1>5. /\ BookStep(c.pos) /\ o.says \in Nat
      /\ \/ Looked(c, o.says)
         \/ \E e : Ordered(c, e, o.says)
         \/ \E e : Ended(c, e, o.says)
  BY <1>1, <1>2, <1>4, OutcomeSteps
<1>6. WorldStep(c.pos, {t})
  <2>1. faults' \in Nat
    BY <1>1 DEF TypeInv
  <2>2. \E s \in Nat : call' = [call EXCEPT ![t].says = s]
    BY <1>2, <1>5
  <2> QED  BY <1>1, <1>3, <1>5, <2>1, <2>2, AnswerIsWorld
<1>7. /\ call'[t].op = c.op /\ call'[t].pos = c.pos /\ call'[t].id = c.id
      /\ call'[t].marginId = c.marginId /\ call'[t].phase = c.phase /\ call'[t].says = o.says
  <2>1. call \in [Threads -> CallRec \cup {NoCall}]
    BY DEF TypeInv
  <2> QED  BY <1>2, <1>4, <2>1 DEF CallRec
<1>8. book \in Seq(EntryRec)
  BY DEF TypeInv
<1>9. RequestShape(c)
  BY <1>4 DEF ShapeInv
<1>10. \A i \in Of(c.id) : i \in DOMAIN book
  BY DEF Of
<1> HIDE DEF c
<1>11. CASE Looked(c, o.says)
  <2>1. book' = book /\ Of(c.id)' = {i \in DOMAIN book : book[i].id = call'[t].id}
    BY <1>7, <1>11 DEF Looked, Of, c
  <2>2. Of(call[t].id)' = Of(c.id)
    BY <1>7, <2>1 DEF Of, c
  <2>3. c.phase \in {"check", "dry_run"} /\ c.op # "close"
    <3>1. c.phase \in {"check", "dry_run"}
      BY <1>11 DEF Looked
    <3>2. c.phase = "check" => c.op \in Spot
      BY <1>4, ChecksAreSpot
    <3>3. c.phase = "dry_run" => c.op = "open"
      BY <1>9 DEF RequestShape
    <3> QED  BY <3>1, <3>2, <3>3 DEF Spot
  <2>4. c.phase = "check" => \E i \in Of(c.id) : o.says = book[i].filled
    BY <1>11 DEF Looked
  <2>5. c.phase = "dry_run" => o.says = 0
    BY <1>11 DEF Looked
  <2>6. c.op \in Spot /\ o.says > 0 => \E i \in Of(call[t].id)' : book'[i].filled = o.says
    <3>1. o.says > 0 => c.phase = "check"
      <4>1. o.says > 0 => o.says # 0
        OBVIOUS
      <4> QED  BY <2>3, <2>5, <4>1
    <3> QED  BY <2>1, <2>2, <2>4, <3>1
  <2>7. c.phase = "check" => \E i \in Of(call[t].id)' : book'[i].filled = o.says
    BY <2>1, <2>2, <2>4
  <2>8. c.phase # "order"
    BY <2>3
  <2>21. call'[t].op \in Spot /\ call'[t].says > 0 =>
             \E i \in Of(call[t].id)' : book'[i].filled = call'[t].says
    BY <1>7, <2>6
  <2>22. call'[t].op = "open" /\ call'[t].phase = "order" /\ req'[t].answer = "result" =>
             call'[t].says \in Of(call[t].id)'
    BY <1>7, <2>8
  <2>23. call'[t].op = "close" /\ req'[t].answer = "result" => ~book'[call'[t].marginId].live
    BY <1>7, <2>3
  <2>24. call'[t].phase = "check" /\ req'[t].answer = "result" /\ call'[t].says = 0 =>
             call'[t].pos \in touched' \/ \E i \in Of(call[t].id)' : book'[i].filled = 0
    BY <1>7, <2>7
  <2>25. req'[t].answer = "useless" => call'[t].pos \in touched'
    BY <1>4
  <2>26. SaysTrue(t)'
    BY <2>21, <2>22, <2>23, <2>24, <2>25 DEF SaysTrue
  <2> QED  BY <1>6, <2>26 DEF c
<1>12. CASE \E e : Ordered(c, e, o.says)
  <2>1. PICK e : Ordered(c, e, o.says)
    BY <1>12
  <2>2. e \in EntryRec /\ Stands(c, e) /\ Appended(e) /\ c.phase = "order" /\ c.op # "close"
    BY <2>1 DEF Ordered
  <2>3. Len(book) + 1 \in DOMAIN book' /\ book'[Len(book) + 1] = e
    BY <1>8, <2>2, AppendedBook
  <2>4. Len(book) + 1 \in Of(call[t].id)'
    BY <1>7, <2>2, <2>3 DEF Of, Stands
  <2>5. c.op \in Spot => o.says \in {0, e.filled}
    BY <2>1 DEF Ordered
  <2>6. c.op = "open" => o.says = Len(book) + 1
    BY <2>1 DEF Ordered
  <2>7. c.op \in Spot /\ o.says > 0 => \E i \in Of(call[t].id)' : book'[i].filled = o.says
    BY <2>3, <2>4, <2>5
  <2>8. c.op = "open" => o.says \in Of(call[t].id)'
    BY <2>4, <2>6
  <2>21. call'[t].op \in Spot /\ call'[t].says > 0 =>
             \E i \in Of(call[t].id)' : book'[i].filled = call'[t].says
    BY <1>7, <2>7
  <2>22. call'[t].op = "open" /\ call'[t].phase = "order" /\ req'[t].answer = "result" =>
             call'[t].says \in Of(call[t].id)'
    BY <1>7, <2>8
  <2>23. call'[t].op = "close" /\ req'[t].answer = "result" => ~book'[call'[t].marginId].live
    BY <1>7, <2>2
  <2>24. call'[t].phase = "check" /\ req'[t].answer = "result" /\ call'[t].says = 0 =>
             call'[t].pos \in touched' \/ \E i \in Of(call[t].id)' : book'[i].filled = 0
    BY <1>7, <2>2
  <2>25. req'[t].answer = "useless" => call'[t].pos \in touched'
    BY <1>4
  <2>26. SaysTrue(t)'
    BY <2>21, <2>22, <2>23, <2>24, <2>25 DEF SaysTrue
  <2> QED  BY <1>6, <2>26 DEF c
<1>13. CASE \E e : Ended(c, e, o.says)
  <2>1. PICK e : Ended(c, e, o.says)
    BY <1>13
  <2>2. c.op = "close" /\ o.says = 0 /\ Replaced(c.marginId, e) /\ c.phase = "order"
        /\ e = [book[c.marginId] EXCEPT !.live = FALSE]
    BY <2>1 DEF Ended
  <2>3. c.marginId \in DOMAIN book /\ book[c.marginId] \in EntryRec
    BY <1>4, <2>2, MarginEntry
  <2>4. e.live = FALSE
    BY <2>2, <2>3 DEF EntryRec
  <2>5. book'[c.marginId] = e
    BY <2>2, <2>3 DEF Replaced
  <2>6. c.op \notin Spot
    BY <2>2 DEF Spot
  <2>21. call'[t].op \in Spot /\ call'[t].says > 0 =>
             \E i \in Of(call[t].id)' : book'[i].filled = call'[t].says
    BY <1>7, <2>6
  <2>22. call'[t].op = "open" /\ call'[t].phase = "order" /\ req'[t].answer = "result" =>
             call'[t].says \in Of(call[t].id)'
    BY <1>7, <2>2
  <2>23. call'[t].op = "close" /\ req'[t].answer = "result" => ~book'[call'[t].marginId].live
    BY <1>7, <2>4, <2>5
  <2>24. call'[t].phase = "check" /\ req'[t].answer = "result" /\ call'[t].says = 0 =>
             call'[t].pos \in touched' \/ \E i \in Of(call[t].id)' : book'[i].filled = 0
    BY <1>7, <2>2
  <2>25. req'[t].answer = "useless" => call'[t].pos \in touched'
    BY <1>4
  <2>26. SaysTrue(t)'
    BY <2>21, <2>22, <2>23, <2>24, <2>25 DEF SaysTrue
  <2> QED  BY <1>6, <2>26 DEF c
<1> QED  BY <1>5, <1>6, <1>11, <1>12, <1>13 DEF c

\* Nothing is said by an answer that is no result, and a useless one is a fault.
LEMMA NothingSaid ==
  ASSUME TypeInv, NEW t \in Threads, NEW a \in Answers \ {"result"}, Answered(t, a), UNCHANGED client,
         call' = call, Class(a) = "useless" => call[t].pos \in touched'
  PROVE  SaysTrue(t)'
<1>1. call[t].says = 0 /\ req'[t].answer = Class(a) /\ Class(a) # "result"
  BY AnswerFacts, Classes
<1>2. ~(call'[t].says > 0)
  BY <1>1
<1>3. req'[t].answer = "useless" => call'[t].pos \in touched'
  BY <1>1
<1> QED  BY <1>1, <1>2, <1>3 DEF SaysTrue

\* The exchange refuses a request, and is wrong if it was asked about an order it knows.
LEMMA RefuseStep ==
  ASSUME TypeInv, ShapeInv, NEW t \in Threads, Refuse(t),
         UNCHANGED <<client, broker, localVars, calls, raced>>
  PROVE  WorldStep(call[t].pos, {t}) /\ SaysTrue(t)'
<1>1. Answered(t, "refused") /\ book' = book /\ late' = late /\ call' = call
  BY DEF Refuse
<1>2. "refused" \in Answers \ {"result"}
  BY DEF Answers
<1>3. touched \subseteq touched' /\ touched' \subseteq touched \cup {call[t].pos} /\ faults' \in Nat
  BY DEF Refuse, Fault, TypeInv
<1>4. WorldStep(call[t].pos, {t})
  BY <1>1, <1>2, <1>3, AnswerIsWorld DEF BookStep
<1>5. SaysTrue(t)'
  BY <1>1, <1>2, Classes, NothingSaid
<1> QED  BY <1>4, <1>5

\* A request whose answer is of no use is a fault about its position.
LEMMA VainStep ==
  ASSUME TypeInv, ShapeInv, NEW t \in Threads, NEW a \in Answers \ {"result", "refused"},
         ServeInVain(t, a) \/ Miss(t, a), UNCHANGED <<client, broker, localVars, calls, raced>>
  PROVE  WorldStep(call[t].pos, {t}) /\ SaysTrue(t)' /\ call[t].pos \in touched'
<1>1. Answered(t, a) /\ call' = call /\ Fault(call[t].pos) /\ a \in Answers
  BY DEF ServeInVain, Miss
<1>2. /\ touched \subseteq touched' /\ touched' \subseteq touched \cup {call[t].pos} /\ faults' \in Nat
      /\ call[t].pos \in touched'
  BY <1>1 DEF Fault, TypeInv
<1>3. call[t] \in Requests
  BY <1>1, AnswerFacts
<1>4. \A c \in late' : c \in late \/ (c \in Requests /\ c.phase = "order" /\ c.pos \in touched')
  BY <1>2, <1>3 DEF ServeInVain, Miss
<1>5. BookStep(call[t].pos)
  <2>1. CASE ServeInVain(t, a)
    <3>1. PICK o \in Outcomes(call[t]) : book' = o.book
      BY <2>1 DEF ServeInVain
    <3>2. Accepts(call[t])
      BY <2>1 DEF ServeInVain
    <3> QED  BY <1>3, <3>1, <3>2, OutcomeSteps
  <2>2. CASE Miss(t, a)
    BY <2>2 DEF Miss, BookStep
  <2> QED  BY <2>1, <2>2
<1>6. WorldStep(call[t].pos, {t})
  BY <1>1, <1>2, <1>4, <1>5, AnswerIsWorld
<1>7. SaysTrue(t)'
  BY <1>1, <1>2, NothingSaid
<1> QED  BY <1>2, <1>6, <1>7

\* What an order that is carried out adds to its position.
LEMMA NetOrdered ==
  ASSUME TypeInv, NEW e, e \in EntryRec, Appended(e), e.op = "open" => e.live, NEW p, p = e.pos
  PROVE  Net(p)' = Net(p) + Signed(e)
<1> DEFINE n == Len(book) + 1
<1>1. book \in Seq(EntryRec)
  BY DEF TypeInv
<1>2. /\ book' \in Seq(EntryRec)
      /\ DOMAIN book' = DOMAIN book \cup {n} /\ n \notin DOMAIN book /\ n \in DOMAIN book'
      /\ book'[n] = e /\ \A i \in DOMAIN book : book'[i] = book[i]
  BY <1>1, AppendedBook
<1>3. e.pos = p /\ e.op \in {"buy", "sell", "open"} /\ e.filled \in 0..Qty /\ Qty \in Nat
  BY TradingAssumption DEF EntryRec
<1> HIDE DEF n
<1> DEFINE B == Buys(book, p)
           S == Sells(book, p)
<1>4. B \in SUBSET DOMAIN book /\ S \in SUBSET DOMAIN book
  BY DEF Buys, Sells
<1>5. B \in SUBSET DOMAIN book' /\ S \in SUBSET DOMAIN book' /\ n \in DOMAIN book' \ B /\ n \in DOMAIN book' \ S
  BY <1>2, <1>4
<1>6. Total(book', B) = Total(book, B) /\ Total(book', S) = Total(book, S)
  <2>1. \A i \in B : book[i].filled = book'[i].filled
    BY <1>2, <1>4
  <2>2. \A i \in S : book[i].filled = book'[i].filled
    BY <1>2, <1>4
  <2> QED  BY <2>1, <2>2, TotalSame
<1>7. Total(book, B) \in Nat /\ Total(book, S) \in Nat
  BY <1>1, <1>4, TotalType
<1>9. CASE e.op = "sell"
  <2>1. Buys(book', p) = B /\ Sells(book', p) = S \cup {n}
    BY <1>2, <1>3, <1>9 DEF Buys, Sells
  <2>2. Total(book', S \cup {n}) = Total(book', S) + book'[n].filled
    BY <1>2, <1>5, TotalAdd
  <2>3. Signed(e) = -e.filled
    BY <1>9 DEF Signed
  <2>4. Total(book', Buys(book', p)) = Total(book, B)
        /\ Total(book', Sells(book', p)) = Total(book, S) + e.filled
    BY <1>2, <1>6, <2>1, <2>2
  <2>5. Total(book', Buys(book', p)) - Total(book', Sells(book', p)) = Total(book, B) - Total(book, S) + Signed(e)
    BY <1>3, <1>7, <2>3, <2>4
  <2> QED  BY <2>5 DEF Net, B, S, Total, Buys, Sells
<1>10. CASE e.op # "sell"
  <2>0. e.op \in {"buy", "open"} /\ (e.op = "open" => e.live)
    BY <1>3, <1>10
  <2>1. Buys(book', p) = B \cup {n} /\ Sells(book', p) = S
    BY <1>2, <1>3, <2>0 DEF Buys, Sells
  <2>2. Total(book', B \cup {n}) = Total(book', B) + book'[n].filled
    BY <1>2, <1>5, TotalAdd
  <2>3. Signed(e) = e.filled
    BY <1>10 DEF Signed
  <2>4. Total(book', Buys(book', p)) = Total(book, B) + e.filled
        /\ Total(book', Sells(book', p)) = Total(book, S)
    BY <1>2, <1>6, <2>1, <2>2
  <2>5. Total(book', Buys(book', p)) - Total(book', Sells(book', p)) = Total(book, B) - Total(book, S) + Signed(e)
    BY <1>3, <1>7, <2>3, <2>4
  <2> QED  BY <2>5 DEF Net, B, S, Total, Buys, Sells
<1> QED  BY <1>9, <1>10

\* What the end of a margin position takes from its position.
LEMMA NetEnded ==
  ASSUME TypeInv, NEW i \in DOMAIN book, book[i].op = "open", book[i].live,
         Replaced(i, [book[i] EXCEPT !.live = FALSE]), NEW p, p = book[i].pos
  PROVE  Net(p)' = Net(p) - book[i].filled
<1> DEFINE e == [book[i] EXCEPT !.live = FALSE]
<1>1. book \in Seq(EntryRec) /\ book[i] \in EntryRec /\ Qty \in Nat
  BY TradingAssumption, RequestFacts DEF TypeInv
<1>2. /\ e.op = "open" /\ e.pos = p /\ e.filled = book[i].filled /\ e.live = FALSE
      /\ e \in EntryRec
  BY <1>1 DEF EntryRec
<1> HIDE DEF e
<1>3. /\ book' \in Seq(EntryRec) /\ DOMAIN book' = DOMAIN book
      /\ \A j \in DOMAIN book : book'[j] = IF j = i THEN e ELSE book[j]
  BY <1>1, <1>2, ReplacedBook DEF e
<1> DEFINE B == Buys(book, p)
           S == Sells(book, p)
<1>4. B \in SUBSET DOMAIN book' /\ S \in SUBSET DOMAIN book' /\ i \in DOMAIN book' \ S
      /\ B \in SUBSET DOMAIN book /\ S \in SUBSET DOMAIN book
  BY <1>3 DEF Buys, Sells
<1>5. Buys(book', p) = B /\ Sells(book', p) = S \cup {i}
  BY <1>2, <1>3 DEF Buys, Sells
<1>6. Total(book', B) = Total(book, B) /\ Total(book', S) = Total(book, S)
  <2>1. \A j \in DOMAIN book : book[j].filled = book'[j].filled
    BY <1>2, <1>3
  <2>2. (\A j \in B : book[j].filled = book'[j].filled) /\ \A j \in S : book[j].filled = book'[j].filled
    BY <1>4, <2>1
  <2> QED  BY <2>2, TotalSame
<1>7. Total(book', S \cup {i}) = Total(book', S) + book'[i].filled
  BY <1>3, <1>4, TotalAdd
<1>8. Total(book, B) \in Nat /\ Total(book, S) \in Nat
  BY <1>1, <1>4, TotalType
<1>9. book[i].filled \in Nat /\ book'[i].filled = book[i].filled
  BY <1>1, <1>2, <1>3 DEF EntryRec
<1>10. Total(book', Buys(book', p)) - Total(book', Sells(book', p))
         = Total(book, B) - Total(book, S) - book[i].filled
  BY <1>5, <1>6, <1>7, <1>8, <1>9
<1> QED  BY <1>10 DEF Net, B, S, Total, Buys, Sells

\* The answer to a request about a calm position tells the broker what came of it.
LEMMA ServedHalfway ==
  ASSUME TypeInv, IdInv, ShapeInv, NEW t \in Threads, Serve(t), Halfway(t),
         UNCHANGED <<client, broker, localVars, calls, raced>>
  PROVE  Halfway(t)'
<1> DEFINE c == call[t]
<1>1. Answered(t, "result") /\ Accepts(c)
  BY DEF Serve
<1>2. PICK o \in Outcomes(c) : book' = o.book /\ call' = [call EXCEPT ![t].says = o.says]
  BY DEF Serve
<1>3. "result" \in Answers /\ Class("result") = "result"
  BY Classes DEF Answers
<1>4. /\ c \in CallRec /\ c \in Requests /\ InCall(t)
      /\ req[t].answer = "none" /\ req'[t].answer = "result"
  BY <1>1, <1>3, AnswerFacts
<1>5. \/ Looked(c, o.says)
      \/ \E e : Ordered(c, e, o.says)
      \/ \E e : Ended(c, e, o.says)
  BY <1>1, <1>2, <1>4, OutcomeSteps
<1>6. /\ call'[t].op = c.op /\ call'[t].pos = c.pos /\ call'[t].id = c.id /\ call'[t].qty = c.qty
      /\ call'[t].marginId = c.marginId /\ call'[t].phase = c.phase /\ call'[t].says = o.says
  <2>1. call \in [Threads -> CallRec \cup {NoCall}]
    BY DEF TypeInv
  <2> QED  BY <1>2, <1>4, <2>1 DEF CallRec
<1>7. book \in Seq(EntryRec) /\ pos' = pos
  BY DEF TypeInv, localVars
<1>8. Closing(t)' => Closing(t) /\ call'[t].qty <= pos'[call'[t].pos].qty
  BY <1>4, <1>6, <1>7 DEF Closing, Halfway
<1>9. Of(call[t].id)' = {i \in DOMAIN book' : book'[i].id = c.id}
  BY <1>6 DEF Of
<1>10. c.phase \in {"order", "check", "dry_run"}
  BY <1>4 DEF CallRec
<1>11. Net(c.pos)' = Net(call[t].pos)'
  OBVIOUS
<1> HIDE DEF c
<1>12. CASE Looked(c, o.says)
  <2>1. book' = book /\ c.phase # "order"
    BY <1>12 DEF Looked
  <2>2. Net(call[t].pos)' = Net(c.pos) /\ Of(call[t].id)' = Of(c.id)
    BY <1>6, <1>9, <2>1 DEF Net, Total, Buys, Sells, Of
  <2>3. CASE Unplaced(c, req[t].answer)
    <3>1. Unplaced(call[t], req[t].answer)'
      BY <1>4, <1>6, <1>7, <2>1, <2>2, <2>3 DEF Unplaced
    <3> QED  BY <1>8, <3>1 DEF Halfway
  <2>4. CASE PlacedOnce(c, req[t].answer)
    <3>1. c.phase = "check" /\ c.op # "close"
      BY <1>10, <2>1, <2>4 DEF PlacedOnce
    <3>2. PICK i \in Of(c.id) : Of(c.id) = {i} /\ Net(c.pos) = pos[c.pos].qty + Signed(book[i])
      BY <2>4 DEF PlacedOnce
    <3>3. o.says = book[i].filled
      BY <1>12, <3>1, <3>2 DEF Looked
    <3>4. PlacedOnce(call[t], req[t].answer)'
      BY <1>4, <1>6, <1>7, <2>1, <2>2, <3>1, <3>2, <3>3 DEF PlacedOnce
    <3> QED  BY <1>8, <3>4 DEF Halfway
  <2>5. CASE EndedOnce(c, req[t].answer)
    BY <1>4, <2>5 DEF EndedOnce
  <2> QED  BY <2>3, <2>4, <2>5 DEF Halfway, c
<1>13. ~Looked(c, o.says) => c.phase = "order"
  BY <1>5 DEF Ordered, Ended
<1>14. c.phase = "order" => Unplaced(c, req[t].answer)
  BY <1>4 DEF Halfway, PlacedOnce, EndedOnce, c
<1>15. CASE \E e : Ordered(c, e, o.says)
  <2>1. PICK e : Ordered(c, e, o.says)
    BY <1>15
  <2>2. /\ e \in EntryRec /\ Stands(c, e) /\ Appended(e) /\ c.phase = "order" /\ c.op # "close"
        /\ c.op \in Spot => o.says \in {0, e.filled}
        /\ c.op = "open" => e.live
    BY <2>1 DEF Ordered
  <2>3. e.op = c.op
    BY <2>2 DEF Stands
  <2>5. Unplaced(c, req[t].answer)
    BY <1>14, <2>2
  <2>6. /\ DOMAIN book' = DOMAIN book \cup {Len(book) + 1} /\ book'[Len(book) + 1] = e
        /\ \A i \in DOMAIN book : book'[i] = book[i]
    BY <1>7, <2>2, AppendedBook
  <2>7. Of(call[t].id)' = {Len(book) + 1}
    BY <1>9, <2>2, <2>5, <2>6 DEF Of, Unplaced, Stands
  <2>8. Net(call[t].pos)' = pos[c.pos].qty + Signed(e)
    <3>1. PICK p \in Positions : p = c.pos
      BY <1>4 DEF CallRec
    <3>2. e.pos = p
      BY <2>2, <3>1 DEF Stands
    <3>3. Net(p)' = Net(p) + Signed(e)
      BY <2>2, <2>3, <3>2, NetOrdered
    <3>4. Net(p) = pos[c.pos].qty
      BY <2>5, <3>1 DEF Unplaced
    <3> QED  BY <1>6, <3>1, <3>3, <3>4 DEF Net
  <2>9. PlacedOnce(call[t], req[t].answer)'
    BY <1>4, <1>6, <1>7, <2>2, <2>6, <2>7, <2>8 DEF PlacedOnce
  <2> QED  BY <1>8, <2>9 DEF Halfway
<1>16. CASE \E e : Ended(c, e, o.says)
  <2>1. PICK e : Ended(c, e, o.says)
    BY <1>16
  <2>2. c.op = "close" /\ Replaced(c.marginId, [book[c.marginId] EXCEPT !.live = FALSE])
        /\ book[c.marginId].live /\ c.phase = "order"
    BY <2>1 DEF Ended
  <2>3. /\ c.marginId \in DOMAIN book /\ book[c.marginId].op = "open"
        /\ book[c.marginId].pos = c.pos /\ book[c.marginId].filled = Qty
    BY <1>4, <2>2, MarginEntry
  <2>4. Net(c.pos) = pos[c.pos].qty
    BY <1>14, <2>2 DEF Unplaced
  <2>5. Net(call[t].pos)' = Net(c.pos) - Qty
    <3>1. PICK p \in Positions : p = c.pos
      BY <1>4, MarginEntry, <2>2
    <3>2. Net(p)' = Net(p) - Qty
      BY <2>2, <2>3, <3>1, NetEnded
    <3> QED  BY <1>6, <3>1, <3>2 DEF Net
  <2>6. EndedOnce(call[t], req[t].answer)'
    BY <1>4, <1>6, <1>7, <2>2, <2>4, <2>5 DEF EndedOnce
  <2> QED  BY <1>8, <2>6 DEF Halfway
<1> QED  BY <1>5, <1>12, <1>15, <1>16

\* A refusal is not about an order that was carried out.
LEMMA RefusedHalfway ==
  ASSUME TypeInv, ShapeInv, NEW t \in Threads, Refuse(t), Halfway(t),
         UNCHANGED <<client, broker, localVars, calls, raced>>, call[t].pos \notin touched'
  PROVE  Halfway(t)'
<1> DEFINE c == call[t]
<1>1. Answered(t, "refused") /\ book' = book /\ call' = call /\ pos' = pos
  BY DEF Refuse, localVars
<1>2. "refused" \in Answers /\ Class("refused") = "error"
  BY Classes DEF Answers
<1>3. req[t].answer = "none" /\ req'[t].answer = "error" /\ c \in Requests
  BY <1>1, <1>2, AnswerFacts
<1>4. ~(c.phase = "check" /\ Known(c.id))
  BY DEF Refuse, Fault
<1>5. Unplaced(c, req[t].answer)
  <2>1. CASE PlacedOnce(c, req[t].answer)
    <3>1. c.phase = "check" /\ \E i \in Of(c.id) : TRUE
      BY <1>3, <2>1, RequestFacts DEF PlacedOnce, CallRec
    <3>2. broker = "spot"
      BY <1>3, <3>1, ChecksAreSpot
    <3>3. \A i \in Of(c.id) : book[i].op \in Spot
      BY <3>2 DEF ShapeInv, EntryShape, Of
    <3> QED  BY <1>4, <3>1, <3>3 DEF Known
  <2> QED  BY <1>3, <2>1 DEF Halfway, EndedOnce
<1>6. Net(call[t].pos)' = Net(call[t].pos) /\ Of(call[t].id)' = Of(call[t].id)
  BY <1>1 DEF Net, Total, Buys, Sells, Of
<1>7. Unplaced(call[t], req[t].answer)'
  BY <1>1, <1>3, <1>5, <1>6 DEF Unplaced
<1>8. (Closing(t) => call[t].qty <= pos[call[t].pos].qty)'
  BY <1>1 DEF Closing, InCall, Halfway
<1> QED  BY <1>7, <1>8 DEF Halfway

\* A step of the exchange keeps all that does not depend on the answers it gives.
LEMMA WorldKeeps ==
  ASSUME LiveInv, NEW q, NEW T, WorldStep(q, T), \A t \in T : On(t, q),
         \A t \in T : SaysTrue(t)', Calm(q)' => Reckoned(q)'
  PROVE  LiveInv'
<1>1. TypeInv /\ IdInv /\ ShapeInv /\ AnswerInv /\ ReportInv /\ CalmInv
  BY DEF LiveInv
<1>2. IdInv'
  BY <1>1, WorldKeepsIds
<1>3. TypeInv' /\ ShapeInv'
  BY <1>1, WorldKeepsShape
<1>4. AnswerInv'
  <2>1. ASSUME NEW u \in Threads, InCall(u)' PROVE SaysTrue(u)'
    <3>1. u \notin T => SaysTrue(u)'
      BY <1>1, <2>1, WorldKeepsAnswers
    <3> QED  BY <3>1
  <2> QED  BY <2>1 DEF AnswerInv
<1>5. ReportInv'
  BY <1>1, WorldKeepsReports
<1>6. CalmInv'
  <2>1. \A c \in late' : c.pos \in touched'
    BY <1>1 DEF WorldStep, CalmInv
  <2>2. ASSUME NEW p \in Positions, Calm(p)' PROVE Reckoned(p)'
    <3>1. CASE p = q
      BY <2>2, <3>1
    <3>2. CASE p # q
      BY <1>1, <2>2, <3>2, WorldSparesOthers
    <3> QED  BY <3>1, <3>2
  <2> QED  BY <2>1, <2>2 DEF CalmInv
<1> QED  BY <1>2, <1>3, <1>4, <1>5, <1>6 DEF LiveInv

\* A request is answered.
LEMMA ExchangeKeeps ==
  ASSUME LiveInv, NEW t \in Threads, Exchange(t)
  PROVE  LiveInv'
<1>1. TypeInv /\ IdInv /\ ShapeInv /\ CalmInv
  BY DEF LiveInv
<1>2. UNCHANGED <<client, broker, localVars, calls, raced>>
  BY DEF Exchange
<1>3. InCall(t) /\ call[t].pos \in Positions
  <2>1. req[t].stage = "queued"
    BY DEF Exchange, Serve, Refuse, ServeInVain, Miss, Answered
  <2>2. InCall(t)
    BY <1>1, <2>1 DEF TypeInv
  <2> QED  BY <1>1, <2>2, RequestFacts DEF CallRec
<1>4. PICK q \in Positions : q = call[t].pos
  BY <1>3
<1>5. On(t, q)
  BY <1>3, <1>4 DEF On
<1>6. /\ WorldStep(q, {t}) /\ SaysTrue(t)'
      /\ \/ Serve(t) \/ Refuse(t)
         \/ q \in touched'
  <2>1. CASE Serve(t)
    BY <1>1, <1>2, <1>4, <2>1, ServeStep
  <2>2. CASE Refuse(t)
    BY <1>1, <1>2, <1>4, <2>2, RefuseStep
  <2>3. CASE \E a \in Answers \ {"result", "refused"} : ServeInVain(t, a) \/ Miss(t, a)
    <3>1. PICK a \in Answers \ {"result", "refused"} : ServeInVain(t, a) \/ Miss(t, a)
      BY <2>3
    <3> QED  BY <1>1, <1>2, <1>4, <3>1, VainStep
  <2> QED  BY <2>1, <2>2, <2>3 DEF Exchange
<1>7. Calm(q)' => Reckoned(q)'
  <2> SUFFICES ASSUME Calm(q)' PROVE Reckoned(q)'
    OBVIOUS
  <2>1. Calm(q) /\ q \notin touched'
    BY <1>6 DEF Calm, WorldStep
  <2>2. Reckoned(q)
    BY <1>1, <2>1 DEF CalmInv
  <2>3. \A u \in Threads : On(u, q)' <=> On(u, q)
    BY <1>6 DEF WorldStep, On, SameCall
  <2>4. \A u \in Threads : On(u, q) => u = t
    BY <1>5, <2>2 DEF Reckoned
  <2>5. Halfway(t)
    BY <1>5, <2>2 DEF Reckoned
  <2>6. Halfway(t)'
    BY <1>1, <1>2, <1>4, <1>6, <2>1, <2>5, ServedHalfway, RefusedHalfway
  <2> QED  BY <1>5, <2>3, <2>4, <2>6 DEF Reckoned
<1> QED  BY <1>5, <1>6, <1>7, WorldKeeps

\* What changes when only the exchange acts.
LEMMA SilentWorld ==
  ASSUME LiveInv, UNCHANGED <<clientVars, broker, localVars, call, calls, raced>>,
         NEW q \in Positions, touched \subseteq touched', touched' \subseteq touched \cup {q},
         faults' \in Nat, late' \subseteq late, BookStep(q), q \in touched'
  PROVE  LiveInv'
<1>1. TypeInv
  BY DEF LiveInv
<1>2. UNCHANGED <<client, req, broker, pos, level, reported, call, calls, raced>>
  BY DEF clientVars, localVars
<1>3. ClientTypeOK' /\ \A u \in Threads : (req'[u].stage # "idle" <=> InCall(u)') /\ Fresh(u)'
  BY <1>1, <1>2 DEF TypeInv, ClientTypeOK, InCall, Fresh
<1>4. WorldStep(q, {})
  BY <1>1, <1>2, <1>3, SameCallItself DEF WorldStep, InCall, TypeInv
<1>5. ~Calm(q)'
  BY DEF Calm
<1> QED  BY <1>4, <1>5, WorldKeeps

\* A request arrives that the client has given up.
LEMMA LateKeeps ==
  ASSUME LiveInv, LateArrival
  PROVE  LiveInv'
<1>1. TypeInv /\ ShapeInv /\ CalmInv
  BY DEF LiveInv
<1>2. PICK c \in late :
         /\ late' = late \ {c}
         /\ IF Accepts(c) THEN \E o \in Outcomes(c) : book' = o.book ELSE UNCHANGED book
  BY DEF LateArrival
<1>3. c \in Requests /\ c.pos \in Positions /\ c.pos \in touched
  <2>1. c \in Requests
    BY <1>2 DEF Requests
  <2>2. c \in CallRec
    BY <1>1, <2>1, RequestFacts
  <2> QED  BY <1>1, <1>2, <2>1, <2>2 DEF CallRec, CalmInv
<1>4. BookStep(c.pos)
  <2>1. CASE Accepts(c)
    BY <1>1, <1>2, <1>3, <2>1, OutcomeSteps
  <2>2. CASE ~Accepts(c)
    BY <1>2, <2>2 DEF BookStep
  <2> QED  BY <2>1, <2>2
<1>5. /\ UNCHANGED <<clientVars, broker, localVars, call, calls, raced>>
      /\ touched' = touched /\ faults' = faults
  BY DEF LateArrival
<1>6. faults' \in Nat
  BY <1>1, <1>5 DEF TypeInv
<1>7. late' \subseteq late /\ touched \subseteq touched' /\ touched' \subseteq touched \cup {c.pos} /\ c.pos \in touched'
  BY <1>2, <1>3, <1>5
<1> QED  BY <1>3, <1>4, <1>5, <1>6, <1>7, SilentWorld

\* An order is filled after its answer, a margin position ends by itself.
LEMMA ActsKeep ==
  ASSUME LiveInv, ExchangeActs
  PROVE  LiveInv'
<1>1. TypeInv
  BY DEF LiveInv
<1>2. PICK i \in DOMAIN book :
         /\ book[i].live
         /\ book' = IF book[i].op \in Spot
                    THEN [book EXCEPT ![i].filled = book[i].asked, ![i].live = FALSE]
                    ELSE [book EXCEPT ![i].live = FALSE]
         /\ Fault(book[i].pos)
  BY DEF ExchangeActs
<1>3. book[i].pos \in Positions /\ book[i].pos \in touched'
  BY <1>1, <1>2, RequestFacts DEF EntryRec, Fault
<1>4. Replaced(i, Moved(book[i]))
  <2>1. CASE book[i].op \in Spot
    <3>1. [book EXCEPT ![i].filled = book[i].asked, ![i].live = FALSE]
            = [book EXCEPT ![i] = [book[i] EXCEPT !.filled = book[i].asked, !.live = FALSE]]
      OBVIOUS
    <3> QED  BY <1>2, <2>1, <3>1 DEF Replaced, Moved
  <2>2. CASE book[i].op \notin Spot
    <3>1. [book EXCEPT ![i].live = FALSE] = [book EXCEPT ![i] = [book[i] EXCEPT !.live = FALSE]]
      OBVIOUS
    <3> QED  BY <1>2, <2>2, <3>1 DEF Replaced, Moved
  <2> QED  BY <2>1, <2>2
<1>5. BookStep(book[i].pos)
  BY <1>2, <1>3, <1>4 DEF BookStep, Moves
<1>6. /\ UNCHANGED <<clientVars, broker, localVars, call, calls, raced>> /\ late' \subseteq late
      /\ faults' \in Nat /\ touched \subseteq touched' /\ touched' \subseteq touched \cup {book[i].pos}
  BY <1>1, <1>2 DEF ExchangeActs, Fault, TypeInv
<1>7. PICK q \in Positions : q = book[i].pos
  BY <1>3
<1> QED  BY <1>3, <1>5, <1>6, <1>7, SilentWorld

-----------------------------------------------------------------------------
(* What the broker does *)

\* A step of the broker: thread t is in call d afterwards, if it is in one.
BrokerStep(t, d) ==
    /\ UNCHANGED <<client, broker, book, late, faults, touched>>
    /\ call' = [call EXCEPT ![t] = d] /\ d \in CallRec \cup {NoCall}
    /\ \A u \in Threads \ {t} : req'[u] = req[u]
    /\ ClientTypeOK' /\ Fresh(t)' /\ (req'[t].stage # "idle" <=> d # NoCall)

\* What the book says is not changed by it, and the other threads' calls are not.
LEMMA BrokerFrame ==
  ASSUME TypeInv, NEW t \in Threads, NEW d, BrokerStep(t, d)
  PROVE  /\ call' \in [Threads -> CallRec \cup {NoCall}]
         /\ call'[t] = d /\ (InCall(t)' <=> d # NoCall)
         /\ \A u \in Threads \ {t} : call'[u] = call[u] /\ (InCall(u)' <=> InCall(u)) /\ req'[u] = req[u]
         /\ \A c \in Requests' : c \in Requests \/ (c = d /\ d # NoCall)
         /\ \A u \in Threads : (req'[u].stage # "idle" <=> InCall(u)') /\ Fresh(u)'
         /\ \A p : Net(p)' = Net(p)
         /\ UNCHANGED <<client, broker, book, late, faults, touched>>
<1>1. call \in [Threads -> CallRec \cup {NoCall}]
  BY DEF TypeInv
<1>2. /\ call' \in [Threads -> CallRec \cup {NoCall}]
      /\ call'[t] = d /\ \A u \in Threads \ {t} : call'[u] = call[u]
  BY <1>1 DEF BrokerStep
<1>3. (InCall(t)' <=> d # NoCall) /\ \A u \in Threads \ {t} : InCall(u)' <=> InCall(u)
  BY <1>2 DEF InCall
<1>4. late' = late /\ book' = book
  BY DEF BrokerStep
<1>5. ASSUME NEW c \in Requests', c \notin late PROVE c \in Requests \/ (c = d /\ d # NoCall)
  <2>1. PICK u \in Threads : InCall(u)' /\ c = call'[u]
    BY <1>4, <1>5 DEF Requests
  <2>2. CASE u = t
    BY <1>2, <1>3, <2>1, <2>2
  <2>3. CASE u # t
    BY <1>2, <1>3, <2>1, <2>3 DEF Requests
  <2> QED  BY <2>2, <2>3
<1>6. \A c \in late : c \in Requests
  BY DEF Requests
<1>7. \A u \in Threads : (req'[u].stage # "idle" <=> InCall(u)') /\ Fresh(u)'
  <2>1. (req'[t].stage # "idle" <=> InCall(t)') /\ Fresh(t)'
    BY <1>3 DEF BrokerStep
  <2>2. ASSUME NEW u \in Threads \ {t} PROVE (req'[u].stage # "idle" <=> InCall(u)') /\ Fresh(u)'
    <3>1. req'[u] = req[u] /\ call'[u] = call[u]
      BY <1>2 DEF BrokerStep
    <3> QED  BY <3>1 DEF TypeInv, Fresh, InCall
  <2> QED  BY <2>1, <2>2
<1>8. \A p : Net(p)' = Net(p)
  BY <1>4 DEF Net, Total, Buys, Sells
<1> QED  BY <1>2, <1>3, <1>5, <1>6, <1>7, <1>8 DEF BrokerStep

\* A later stage of a call, or its end, asks for no other order.
LEMMA BrokerKeepsIds ==
  ASSUME TypeInv, IdInv, NEW t \in Threads, NEW d, BrokerStep(t, d), UNCHANGED calls,
         d = NoCall \/ (InCall(t) /\ \E s, ph : d = [call[t] EXCEPT !.phase = ph, !.says = s])
  PROVE  IdInv'
<1>1. /\ call'[t] = d /\ (InCall(t)' <=> d # NoCall)
      /\ \A u \in Threads \ {t} : call'[u] = call[u] /\ (InCall(u)' <=> InCall(u))
      /\ \A c \in Requests' : c \in Requests \/ (c = d /\ d # NoCall)
      /\ book' = book /\ calls' = calls
  BY BrokerFrame
<1>2. d # NoCall => /\ InCall(t) /\ call[t] \in Requests
                    /\ d.id = call[t].id /\ d.op = call[t].op /\ d.pos = call[t].pos /\ d.qty = call[t].qty
  BY RequestFacts DEF CallRec
<1>3. \A c \in Requests' : \E e \in Requests : c.id = e.id /\ c.op = e.op /\ c.pos = e.pos /\ c.qty = e.qty
  BY <1>1, <1>2
<1>4. \A c \in Requests' : c.id \in 1..calls'
  BY <1>1, <1>3 DEF IdInv
<1>5. \A i \in DOMAIN book' : book'[i].id \in 1..calls'
  BY <1>1 DEF IdInv
<1>6. \A u, v \in Threads : InCall(u)' /\ InCall(v)' /\ call'[u].id = call'[v].id => u = v
  <2>1. \A u \in Threads : InCall(u)' => InCall(u) /\ call'[u].id = call[u].id
    BY <1>1, <1>2
  <2>2. \A u, v \in Threads : InCall(u) /\ InCall(v) /\ call[u].id = call[v].id => u = v
    BY DEF IdInv
  <2> QED  BY <2>1, <2>2
<1>7. ASSUME NEW c \in Requests', NEW e \in Requests' PROVE SameOrder(c, e)
  <2>1. PICK c1 \in Requests : c.id = c1.id /\ c.op = c1.op /\ c.pos = c1.pos /\ c.qty = c1.qty
    BY <1>3
  <2>2. PICK e1 \in Requests : e.id = e1.id /\ e.op = e1.op /\ e.pos = e1.pos /\ e.qty = e1.qty
    BY <1>3
  <2>3. SameOrder(c1, e1)
    BY DEF IdInv
  <2> QED  BY <2>1, <2>2, <2>3 DEF SameOrder
<1>8. ASSUME NEW c \in Requests', NEW i \in DOMAIN book', book'[i].id = c.id PROVE Stands(c, book'[i])
  <2>1. PICK c1 \in Requests : c.id = c1.id /\ c.op = c1.op /\ c.pos = c1.pos /\ c.qty = c1.qty
    BY <1>3
  <2>2. i \in Of(c1.id) /\ book'[i] = book[i]
    BY <1>1, <1>8, <2>1 DEF Of
  <2>3. Stands(c1, book[i])
    BY <2>2 DEF IdInv
  <2> QED  BY <2>1, <2>2, <2>3 DEF Stands
<1> QED  BY <1>4, <1>5, <1>6, <1>7, <1>8 DEF IdInv, Of

\* The next stage of the call of thread t, or its end.
NextStage(t, d) ==
    d = NoCall \/ (InCall(t) /\ \E s, ph : d = [call[t] EXCEPT !.phase = ph, !.says = s])

\* What a call keeps from stage to stage.
LEMMA NextStageFacts ==
  ASSUME TypeInv, NEW t \in Threads, NEW d, NextStage(t, d), d # NoCall
  PROVE  /\ InCall(t) /\ call[t] \in Requests
         /\ d.id = call[t].id /\ d.op = call[t].op /\ d.pos = call[t].pos /\ d.qty = call[t].qty
         /\ d.marginId = call[t].marginId
BY RequestFacts DEF NextStage, CallRec

\* A step of the broker within its types keeps them.
LEMMA BrokerKeepsTypes ==
  ASSUME TypeInv, NEW t \in Threads, NEW d, BrokerStep(t, d),
         pos' \in [Positions -> PositionRec], level' \subseteq Positions, calls' \in Nat,
         reported' \in [Positions -> [bought : Nat, sold : Nat]], raced' \subseteq Positions,
         \A p \in Positions : pos'[p].state = "open" <=> pos'[p].qty > 0,
         \A p \in level' : pos'[p].state # "none"
  PROVE  TypeInv'
<1>1. /\ call' \in [Threads -> CallRec \cup {NoCall}]
      /\ \A u \in Threads : (req'[u].stage # "idle" <=> InCall(u)') /\ Fresh(u)'
      /\ UNCHANGED <<client, broker, book, late, faults, touched>>
  BY BrokerFrame
<1>2. ClientTypeOK'
  BY DEF BrokerStep
<1> QED  BY <1>1, <1>2 DEF TypeInv

\* The next stage of a call, or its end, leaves all requests and entries in shape.
LEMMA BrokerKeepsShape ==
  ASSUME TypeInv, ShapeInv, NEW t \in Threads, NEW d, BrokerStep(t, d), NextStage(t, d), UNCHANGED pos,
         d # NoCall => RequestShape(d)
  PROVE  ShapeInv'
<1>1. /\ call'[t] = d /\ (InCall(t)' <=> d # NoCall)
      /\ \A u \in Threads \ {t} : call'[u] = call[u] /\ (InCall(u)' <=> InCall(u))
      /\ \A c \in Requests' : c \in Requests \/ (c = d /\ d # NoCall)
      /\ book' = book /\ late' = late /\ broker' = broker /\ pos' = pos
  BY BrokerFrame
<1>2. d # NoCall => /\ InCall(t) /\ d.op = call[t].op /\ d.pos = call[t].pos /\ d.qty = call[t].qty
  BY NextStageFacts
<1>3. ASSUME NEW c \in Requests' PROVE RequestShape(c)'
  <2>1. RequestShape(c)
    BY <1>1 DEF ShapeInv
  <2> QED  BY <1>1, <2>1 DEF RequestShape
<1>4. \A u \in Threads : InCall(u)' => /\ InCall(u) /\ call'[u].op = call[u].op
                                       /\ call'[u].pos = call[u].pos /\ call'[u].qty = call[u].qty
  BY <1>1, <1>2
<1>5. \A u \in Threads : Opening(u)' =>
          pos'[call'[u].pos].state = "none" /\ \A v \in Threads : InCall(v)' /\ call'[v].pos = call'[u].pos => v = u
  BY <1>1, <1>4 DEF ShapeInv, Opening, On
<1>6. \A u \in Threads : Closing(u)' => Closing(u) /\ call'[u].pos = call[u].pos /\ call'[u].qty = call[u].qty
  BY <1>4 DEF Closing
<1>7. \A u \in Threads : Closing(u)' => pos'[call'[u].pos].state # "none"
  BY <1>1, <1>6 DEF ShapeInv
<1>8. Closing(GridThread)' => pos'[call'[GridThread].pos].qty <= call'[GridThread].qty
  BY <1>1, <1>6, TradingAssumption DEF ShapeInv
<1>9. \A i \in DOMAIN book' : EntryShape(book[i])'
  BY <1>1 DEF ShapeInv, EntryShape
<1>10. \A p \in Positions : broker' = "margin" /\ pos'[p].state # "none" =>
           /\ pos'[p].marginId \in DOMAIN book' /\ book'[pos'[p].marginId].pos = p
           /\ pos'[p].state = "open" => pos'[p].qty = Qty
  BY <1>1 DEF ShapeInv
<1>11. \A c \in late' : c.phase = "order"
  BY <1>1 DEF ShapeInv
<1> QED  BY <1>3, <1>5, <1>7, <1>8, <1>9, <1>10, <1>11 DEF ShapeInv, On

\* The other threads' answers stay true.
LEMMA BrokerKeepsAnswers ==
  ASSUME TypeInv, AnswerInv, NEW t \in Threads, NEW d, BrokerStep(t, d), InCall(t)' => SaysTrue(t)'
  PROVE  AnswerInv'
<1>1. ASSUME NEW u \in Threads \ {t}, InCall(u)' PROVE SaysTrue(u)'
  <2>1. call'[u] = call[u] /\ req'[u] = req[u] /\ InCall(u) /\ book' = book /\ touched' = touched
    BY <1>1, BrokerFrame
  <2>2. Of(call[u].id)' = Of(call[u].id)
    BY <2>1 DEF Of
  <2> QED  BY <2>1, <2>2 DEF AnswerInv, SaysTrue
<1> QED  BY <1>1 DEF AnswerInv

\* The sales of calls that are over only add up.
LEMMA SettledGrows ==
  ASSUME TypeInv, NEW t \in Threads, NEW d, BrokerStep(t, d),
         d = NoCall \/ Of(d.id) = {} \/ (InCall(t) /\ d.id = call[t].id)
  PROVE  \A p : /\ Settled(book, p) \subseteq Settled(book, p)'
                /\ Total(book, Settled(book, p)) \in Nat /\ Total(book, Settled(book, p))' \in Nat
                /\ Total(book, Settled(book, p)) <= Total(book, Settled(book, p))'
<1> SUFFICES ASSUME NEW p
             PROVE  /\ Settled(book, p) \subseteq Settled(book, p)'
                    /\ Total(book, Settled(book, p)) \in Nat /\ Total(book, Settled(book, p))' \in Nat
                    /\ Total(book, Settled(book, p)) <= Total(book, Settled(book, p))'
  OBVIOUS
<1>1. /\ call'[t] = d /\ (InCall(t)' <=> d # NoCall)
      /\ \A u \in Threads \ {t} : call'[u] = call[u] /\ (InCall(u)' <=> InCall(u))
      /\ book' = book
  BY BrokerFrame
<1>2. ASSUME NEW i \in Settled(book, p) PROVE i \in Settled(book, p)'
  <2>1. i \in Sells(book, p) /\ \A u \in Threads : InCall(u) => book[i].id # call[u].id
    BY DEF Settled
  <2>2. i \in DOMAIN book /\ i \in Sells(book, p)'
    BY <1>1, <2>1 DEF Sells
  <2>3. ASSUME NEW u \in Threads, InCall(u)' PROVE book'[i].id # call'[u].id
    <3>1. CASE u # t
      BY <1>1, <2>1, <2>3, <3>1
    <3>2. CASE u = t
      BY <1>1, <2>1, <2>2, <2>3, <3>2 DEF Of
    <3> QED  BY <3>1, <3>2
  <2> QED  BY <2>2, <2>3 DEF Settled
<1> DEFINE S == Settled(book, p)
           R == Settled(book, p)'
<1>3. S \in SUBSET DOMAIN book /\ R \in SUBSET DOMAIN book
  BY <1>1 DEF Settled, Sells
<1>4. book \in Seq(EntryRec) /\ \A i \in DOMAIN book : book[i].filled \in Nat
  <2>1. book \in Seq(EntryRec)
    BY DEF TypeInv
  <2> QED  BY <2>1, BookFinite
<1>5. \A i \in S : i \in R
  BY <1>2
<1> HIDE DEF S, R
<1>6. Total(book, S) \in Nat /\ Total(book, R) \in Nat
  BY <1>3, <1>4, TotalType
<1>7. \A i \in S : i \in R /\ book[i].filled <= book[i].filled
  BY <1>3, <1>4, <1>5
<1>8. Total(book, S) <= Total(book, R)
  BY <1>3, <1>4, <1>7, TotalGrows
<1>9. Total(book', R) = Total(book, R)
  BY <1>1
<1>10. Total(book, Settled(book, p))' = Total(book', R)
  BY DEF Total, R
<1> QED  BY <1>2, <1>6, <1>8, <1>9, <1>10 DEF S

\* A step that reports nothing leaves what was reported covered by the book.
LEMMA BrokerKeepsReports ==
  ASSUME TypeInv, ReportInv, NEW t \in Threads, NEW d, BrokerStep(t, d), UNCHANGED <<pos, reported>>,
         d = NoCall \/ Of(d.id) = {} \/ (InCall(t) /\ d.id = call[t].id)
  PROVE  ReportInv'
<1>1. book' = book /\ broker' = broker /\ pos' = pos /\ reported' = reported
  BY BrokerFrame
<1>2. \A p : /\ Total(book, Settled(book, p)) \in Nat /\ Total(book, Settled(book, p))' \in Nat
             /\ Total(book, Settled(book, p)) <= Total(book, Settled(book, p))'
  BY SettledGrows
<1>3. ASSUME NEW p \in Positions
      PROVE  /\ pos'[p].state = "none" => reported'[p].sold = 0
             /\ reported'[p].bought > 0 => \E i \in Buys(book, p)' : reported'[p].bought <= book'[i].filled
             /\ broker' = "spot" => reported'[p].sold <= Total(book, Settled(book, p))'
             /\ broker' = "margin" =>
                    /\ reported'[p].sold \in {0, Qty}
                    /\ pos'[p].state = "open" => reported'[p].sold = 0
                    /\ reported'[p].sold > 0 => ~book'[pos'[p].marginId].live
  <2>1. Buys(book, p)' = Buys(book, p)
    BY <1>1 DEF Buys
  <2>2. reported[p].sold \in Nat
    BY DEF TypeInv
  <2>3. broker = "spot" => reported[p].sold <= Total(book, Settled(book, p))
    BY DEF ReportInv
  <2>4. broker = "spot" => reported[p].sold <= Total(book, Settled(book, p))'
    BY <1>2, <2>2, <2>3
  <2> QED  BY <1>1, <2>1, <2>4 DEF ReportInv
<1> QED  BY <1>3 DEF ReportInv

\* A position that thread t is not about is reckoned as before.
LEMMA OthersReckoned ==
  ASSUME TypeInv, NEW t \in Threads, NEW d, BrokerStep(t, d), NEW p \in Positions, Reckoned(p),
         pos'[p] = pos[p], ~On(t, p), ~On(t, p)'
  PROVE  Reckoned(p)'
<1>1. /\ \A u \in Threads \ {t} : call'[u] = call[u] /\ (InCall(u)' <=> InCall(u)) /\ req'[u] = req[u]
      /\ book' = book /\ \A r : Net(r)' = Net(r)
  BY BrokerFrame
<1>2. \A u \in Threads : On(u, p)' <=> On(u, p)
  BY <1>1 DEF On
<1>3. ASSUME NEW u \in Threads, On(u, p) PROVE Halfway(u)'
  <2>1. u # t /\ call'[u] = call[u] /\ req'[u] = req[u] /\ InCall(u)' /\ InCall(u) /\ call[u].pos = p
    BY <1>1, <1>3 DEF On
  <2>2. Of(call[u].id)' = Of(call[u].id) /\ Net(call[u].pos)' = Net(call[u].pos)
    BY <1>1, <2>1 DEF Of, Net, Total, Buys, Sells
  <2>3. Halfway(u)
    BY <1>3 DEF Reckoned
  <2>4. Unplaced(call[u], req[u].answer) => Unplaced(call[u], req[u].answer)'
    BY <2>1, <2>2 DEF Unplaced
  <2>5. PlacedOnce(call[u], req[u].answer) => PlacedOnce(call[u], req[u].answer)'
    BY <1>1, <2>1, <2>2 DEF PlacedOnce
  <2>6. EndedOnce(call[u], req[u].answer) => EndedOnce(call[u], req[u].answer)'
    BY <2>1, <2>2 DEF EndedOnce
  <2>7. (Closing(u) => call[u].qty <= pos[call[u].pos].qty)' <=> (Closing(u) => call[u].qty <= pos[call[u].pos].qty)
    BY <2>1 DEF Closing
  <2> QED  BY <2>3, <2>4, <2>5, <2>6, <2>7 DEF Halfway
<1>4. Net(p)' = Net(p)
  BY <1>1
<1> QED  BY <1>2, <1>3, <1>4 DEF Reckoned

\* The position of the call that thread t is in.
LEMMA CallOf ==
  ASSUME TypeInv, NEW t \in Threads, InCall(t)
  PROVE  call[t] \in CallRec /\ call[t] \in Requests /\ call[t].pos \in Positions /\ On(t, call[t].pos)
         /\ \A p : On(t, p) => p = call[t].pos
BY RequestFacts DEF CallRec, On

\* The broker asks for the next thing within a call.
LEMMA StageKeeps ==
  ASSUME LiveInv, NEW t \in Threads, NEW d, BrokerStep(t, d), NextStage(t, d), d # NoCall,
         UNCHANGED <<pos, level, reported, calls, raced>>, req'[t].answer = "none",
         RequestShape(d), Calm(call[t].pos) /\ Halfway(t) => Halfway(t)'
  PROVE  LiveInv'
<1>1. TypeInv /\ IdInv /\ ShapeInv /\ AnswerInv /\ ReportInv /\ CalmInv
  BY DEF LiveInv
<1>2. TypeInv'
  <2>1. /\ pos' \in [Positions -> PositionRec] /\ level' \subseteq Positions /\ calls' \in Nat
        /\ reported' \in [Positions -> [bought : Nat, sold : Nat]] /\ raced' \subseteq Positions
        /\ \A p \in Positions : pos'[p].state = "open" <=> pos'[p].qty > 0
        /\ \A p \in level' : pos'[p].state # "none"
    BY <1>1 DEF TypeInv
  <2> QED  BY <1>1, <2>1, BrokerKeepsTypes
<1>3. IdInv'
  BY <1>1, BrokerKeepsIds DEF NextStage
<1>4. ShapeInv'
  BY <1>1, BrokerKeepsShape
<1>5. InCall(t) /\ d.id = call[t].id /\ d.pos = call[t].pos
  BY <1>1, NextStageFacts
<1>6. call'[t] = d /\ InCall(t)' /\ touched' = touched /\ raced' = raced /\ pos' = pos
      /\ late' = late
  BY <1>1, BrokerFrame
<1>7. AnswerInv'
  <2>1. Fresh(t)' /\ ~(call'[t].says > 0)
    <3>1. Fresh(t)' /\ InCall(t)'
      BY <1>2, <1>6 DEF TypeInv
    <3>2. call'[t].says = 0
      BY <1>6, <3>1 DEF Fresh
    <3> QED  BY <3>1, <3>2
  <2>2. SaysTrue(t)'
    BY <2>1 DEF SaysTrue
  <2> QED  BY <1>1, <2>2, BrokerKeepsAnswers
<1>8. ReportInv'
  BY <1>1, <1>5, BrokerKeepsReports
<1>9. CalmInv'
  <2>1. \A c \in late' : c.pos \in touched'
    BY <1>1, <1>6 DEF CalmInv
  <2>2. ASSUME NEW p \in Positions, Calm(p)' PROVE Reckoned(p)'
    <3>1. Calm(p) /\ Reckoned(p)
      BY <1>1, <1>6, <2>2 DEF Calm, CalmInv
    <3>2. On(t, p)' <=> On(t, p)
      BY <1>5, <1>6 DEF On
    <3>3. CASE On(t, p)
      <4>1. p = call[t].pos /\ Halfway(t)
        BY <3>1, <3>3 DEF On, Reckoned
      <4>2. Halfway(t)'
        BY <3>1, <4>1
      <4>3. \A u \in Threads : On(u, p)' <=> On(u, p)
        <5>1. \A u \in Threads \ {t} : call'[u] = call[u] /\ (InCall(u)' <=> InCall(u))
          BY <1>1, BrokerFrame
        <5> QED  BY <3>2, <5>1 DEF On
      <4>4. \A u \in Threads : On(u, p) => u = t
        BY <3>1, <3>3 DEF Reckoned
      <4> QED  BY <3>3, <4>2, <4>3, <4>4 DEF Reckoned
    <3>4. CASE ~On(t, p)
      BY <1>1, <1>6, <3>1, <3>2, <3>4, OthersReckoned
    <3> QED  BY <3>3, <3>4
  <2> QED  BY <2>1, <2>2 DEF CalmInv
<1> QED  BY <1>2, <1>3, <1>4, <1>7, <1>8, <1>9 DEF LiveInv

\* A request is made: it has no answer yet.
LEMMA Asks ==
  ASSUME TypeInv, NEW t \in Threads, NEW r, r \in {Ask(req[t]), RetryOf(req[t])},
         r = RetryOf(req[t]) => req[t].attempt < MaxRetries,
         req' = [req EXCEPT ![t] = r], UNCHANGED client
  PROVE  /\ req'[t].stage = "queued" /\ req'[t].answer = "none"
         /\ \A u \in Threads \ {t} : req'[u] = req[u]
         /\ ClientTypeOK'
<1> DEFINE R == [stage : {"idle", "queued", "answered"}, attempt : 0..MaxRetries,
                 answer : {"none", "result", "useless", "error"}]
<1>1. req \in [Threads -> R] /\ client \in Clients /\ MaxRetries \in Nat
  BY ClientAssumption DEF TypeInv, ClientTypeOK
<1>2. Ask(req[t]) = [stage |-> "queued", attempt |-> 0, answer |-> "none"]
  BY DEF Ask, NoRequest
<1>3. RetryOf(req[t]) = [stage |-> "queued", attempt |-> req[t].attempt + 1, answer |-> "none"]
  BY <1>2 DEF RetryOf
<1>4. r \in R /\ r.stage = "queued" /\ r.answer = "none"
  <2>1. req[t].attempt \in 0..MaxRetries
    BY <1>1
  <2>2. req[t].attempt < MaxRetries => req[t].attempt + 1 \in 0..MaxRetries
    BY <1>1, <2>1
  <2>3. CASE r = RetryOf(req[t])
    BY <1>3, <2>2, <2>3
  <2>4. CASE r = Ask(req[t])
    BY <1>1, <1>2, <2>4
  <2> QED  BY <2>3, <2>4
<1>5. req' \in [Threads -> R]
  BY <1>1, <1>4
<1> QED  BY <1>1, <1>4, <1>5 DEF ClientTypeOK

\* The broker goes on to its next request.
LEMMA GoesOnKeeps ==
  ASSUME LiveInv, NEW t \in Threads, DryRunAccepted(t) \/ NoFillReported(t)
  PROVE  LiveInv'
<1>1. TypeInv /\ ShapeInv
  BY DEF LiveInv
<1>2. PICK ph : GoesOn(t, ph) /\ ((ph = "order" /\ DryRunAccepted(t)) \/ (ph = "check" /\ NoFillReported(t)))
  BY DEF DryRunAccepted, NoFillReported
<1> DEFINE d == [call[t] EXCEPT !.phase = ph, !.says = 0]
<1>3. InCall(t) /\ req[t].answer = "result"
  BY <1>1 DEF DryRunAccepted, NoFillReported, Returns, TypeInv
<1>4. call[t] \in CallRec /\ RequestShape(call[t]) /\ call[t] \in Requests
  BY <1>1, <1>3, CallOf DEF ShapeInv
<1>5. ph \in {"order", "check"}
  BY <1>2
<1>6. /\ d \in CallRec /\ d.phase = ph /\ d.says = 0
      /\ d.op = call[t].op /\ d.pos = call[t].pos /\ d.qty = call[t].qty
      /\ d.id = call[t].id /\ d.marginId = call[t].marginId
  BY <1>4, <1>5 DEF CallRec
<1>7. d # NoCall
  BY <1>6 DEF CallRec, NoCall
<1>8. NextStage(t, d)
  BY <1>3 DEF NextStage
<1>9. call' = [call EXCEPT ![t] = d]
  BY <1>2 DEF GoesOn
<1>10. /\ req'[t].stage = "queued" /\ req'[t].answer = "none"
       /\ \A u \in Threads \ {t} : req'[u] = req[u]
       /\ ClientTypeOK'
  <2>1. req' = [req EXCEPT ![t] = Ask(req[t])] /\ client' = client
    BY <1>2 DEF GoesOn
  <2>2. Ask(req[t]) = RetryOf(req[t]) => req[t].attempt < MaxRetries
    <3>1. Ask(req[t]).attempt = 0 /\ RetryOf(req[t]).attempt = req[t].attempt + 1 /\ req[t].attempt \in Nat
      BY <1>1, ClientAssumption DEF Ask, RetryOf, NoRequest, TypeInv, ClientTypeOK
    <3> QED  BY <3>1
  <2> QED  BY <1>1, <2>1, <2>2, Asks
<1>11. call'[t] = d
  BY <1>1, <1>9 DEF TypeInv
<1>12. UNCHANGED <<client, broker, pos, level, reported, calls, book, late, faults, touched, raced>>
  BY <1>2 DEF GoesOn, localVars, worldVars
<1> HIDE DEF d
<1>13. Fresh(t)'
  BY <1>6, <1>10, <1>11 DEF Fresh
<1>14. BrokerStep(t, d)
  BY <1>6, <1>7, <1>9, <1>10, <1>12, <1>13 DEF BrokerStep
<1>15. RequestShape(d)
  <2>1. CASE DryRunAccepted(t) /\ ph = "order"
    BY <1>4, <1>6, <2>1 DEF RequestShape
  <2>2. CASE NoFillReported(t) /\ ph = "check"
    <3>1. broker = "spot" /\ call[t].op \in Spot
      BY <1>1, <1>4, <2>2, ChecksAreSpot DEF NoFillReported
    <3> QED  BY <1>4, <1>6, <2>2, <3>1 DEF RequestShape, Spot
  <2> QED  BY <1>2, <2>1, <2>2
<1>16. ASSUME Halfway(t) PROVE Halfway(t)'
  <2>1. /\ book' = book /\ Of(call[t].id)' = Of(call[t].id) /\ Net(call[t].pos)' = Net(call[t].pos)
    BY <1>6, <1>11, <1>12 DEF Of, Net, Total, Buys, Sells
  <2>2. Closing(t)' => call'[t].qty <= pos'[call'[t].pos].qty
    BY <1>3, <1>6, <1>11, <1>12, <1>16 DEF Closing, Halfway
  <2>3. CASE DryRunAccepted(t) /\ ph = "order"
    <3>1. call[t].phase = "dry_run" /\ call[t].op = "open"
      BY <1>4, <2>3 DEF DryRunAccepted, RequestShape
    <3>2. Unplaced(call[t], req[t].answer)
      BY <1>16, <3>1 DEF Halfway, PlacedOnce, EndedOnce
    <3>3. Unplaced(call[t], req[t].answer)'
      BY <1>6, <1>10, <1>11, <1>12, <2>1, <2>3, <3>2 DEF Unplaced
    <3> QED  BY <2>2, <3>3 DEF Halfway
  <2>4. CASE NoFillReported(t) /\ ph = "check"
    <3>1. call[t].phase = "order" /\ call[t].op \in Spot
      BY <2>4 DEF NoFillReported
    <3>2. PlacedOnce(call[t], req[t].answer)
      BY <1>3, <1>16, <3>1 DEF Halfway, Unplaced, EndedOnce, Spot
    <3>3. PICK i \in Of(call[t].id) :
            Of(call[t].id) = {i} /\ Net(call[t].pos) = pos[call[t].pos].qty + Signed(book[i])
      BY <3>2 DEF PlacedOnce
    <3>4. call'[t].phase = "check" /\ call'[t].op # "close" /\ req'[t].answer = "none"
      BY <1>6, <1>10, <1>11, <2>4, <3>2 DEF PlacedOnce
    <3>5. PlacedOnce(call[t], req[t].answer)'
      BY <1>6, <1>11, <1>12, <2>1, <3>3, <3>4 DEF PlacedOnce
    <3> QED  BY <2>2, <3>5 DEF Halfway
  <2> QED  BY <1>2, <2>3, <2>4
<1> QED  BY <1>7, <1>8, <1>10, <1>12, <1>14, <1>15, <1>16, StageKeeps

\* A request is made once more: its position is one that a fault was about.
LEMMA RetryKeeps ==
  ASSUME LiveInv, NEW t \in Threads, RetriesRequest(t)
  PROVE  LiveInv'
<1>1. TypeInv /\ ShapeInv /\ AnswerInv
  BY DEF LiveInv
<1>2. /\ req[t].stage = "answered" /\ req[t].answer = "useless" /\ req[t].attempt < MaxRetries
      /\ req' = [req EXCEPT ![t] = RetryOf(req[t])] /\ client' = client
      /\ UNCHANGED <<broker, pos, level, reported, call, calls, book, late, faults, touched, raced>>
  BY DEF RetriesRequest, Retry, MayRetry, Rest, localVars, worldVars
<1>3. InCall(t)
  BY <1>1, <1>2 DEF TypeInv
<1>4. call[t] \in CallRec /\ RequestShape(call[t]) /\ call[t] # NoCall
  BY <1>1, <1>3, CallOf DEF ShapeInv, InCall
<1>5. call[t].says = 0 /\ call[t].pos \in touched
  BY <1>1, <1>2, <1>3 DEF TypeInv, Fresh, AnswerInv, SaysTrue
<1>6. /\ req'[t].stage = "queued" /\ req'[t].answer = "none"
      /\ \A u \in Threads \ {t} : req'[u] = req[u]
      /\ ClientTypeOK'
  BY <1>1, <1>2, Asks
<1>7. call' = [call EXCEPT ![t] = call[t]]
  BY <1>1, <1>2 DEF TypeInv
<1>8. Fresh(t)'
  BY <1>2, <1>5, <1>6 DEF Fresh
<1>9. BrokerStep(t, call[t])
  BY <1>2, <1>4, <1>6, <1>7, <1>8 DEF BrokerStep
<1>10. NextStage(t, call[t])
  <2>1. call[t] = [call[t] EXCEPT !.phase = call[t].phase, !.says = call[t].says]
    BY <1>4 DEF CallRec
  <2> QED  BY <1>3, <2>1 DEF NextStage
<1>11. ~Calm(call[t].pos)
  BY <1>5 DEF Calm
<1> QED  BY <1>2, <1>4, <1>6, <1>9, <1>10, <1>11, StageKeeps

\* The broker begins a call: the order in it is not known to the exchange yet.
LEMMA BeginKeeps ==
  ASSUME LiveInv, NEW t \in Threads, NEW c \in CallRec, Begin(t, c), c.id = calls + 1, c.says = 0,
         c.phase # "check", RequestShape(c), raced \subseteq raced', raced' \subseteq Positions,
         c.op \in {"buy", "open"} => pos[c.pos].state = "none" /\ \A u \in Threads : ~On(u, c.pos),
         c.op \in {"sell", "close"} => pos[c.pos].state = "open" /\ c.qty <= pos[c.pos].qty,
         t = GridThread /\ c.op \in {"sell", "close"} => c.qty = pos[c.pos].qty,
         c.pos \in raced' \/ \A u \in Threads : ~On(u, c.pos)
  PROVE  LiveInv'
<1>1. TypeInv /\ IdInv /\ ShapeInv /\ AnswerInv /\ ReportInv /\ CalmInv
  BY DEF LiveInv
<1>2. /\ ~InCall(t) /\ calls' = calls + 1 /\ call' = [call EXCEPT ![t] = c]
      /\ req' = [req EXCEPT ![t] = Ask(req[t])] /\ client' = client
      /\ UNCHANGED <<broker, pos, level, reported, book, late, faults, touched>>
  BY DEF Begin, localVars, worldVars
<1>3. c # NoCall /\ c.pos \in Positions /\ c.qty \in 1..Qty /\ c.op \in {"buy", "sell", "open", "close"}
  <2>1. c.pos \in Positions /\ c.qty \in 1..Qty /\ c.op \in {"buy", "sell", "open", "close"}
    BY DEF CallRec
  <2>2. NoCall.op = "none"
    BY DEF NoCall
  <2> QED  BY <2>1, <2>2
<1>4. /\ req'[t].stage = "queued" /\ req'[t].answer = "none"
      /\ \A u \in Threads \ {t} : req'[u] = req[u]
      /\ ClientTypeOK'
  <2>1. Ask(req[t]) = RetryOf(req[t]) => req[t].attempt < MaxRetries
    <3>1. Ask(req[t]).attempt = 0 /\ RetryOf(req[t]).attempt = req[t].attempt + 1 /\ req[t].attempt \in Nat
      BY <1>1, ClientAssumption DEF Ask, RetryOf, NoRequest, TypeInv, ClientTypeOK
    <3> QED  BY <3>1
  <2> QED  BY <1>1, <1>2, <2>1, Asks
<1>5. call'[t] = c
  BY <1>1, <1>2 DEF TypeInv
<1>6. BrokerStep(t, c)
  BY <1>2, <1>3, <1>4, <1>5 DEF BrokerStep, Fresh
<1>7. /\ InCall(t)'
      /\ \A u \in Threads \ {t} : call'[u] = call[u] /\ (InCall(u)' <=> InCall(u))
      /\ \A d \in Requests' : d \in Requests \/ d = c
      /\ \A p : Net(p)' = Net(p)
  BY <1>1, <1>3, <1>6, BrokerFrame
<1>8. calls \in Nat /\ \A d \in Requests : d.id \in 1..calls
  BY <1>1 DEF TypeInv, IdInv
<1>9. Of(c.id) = {} /\ \A d \in Requests : d.id # c.id
  <2>1. \A i \in DOMAIN book : book[i].id \in 1..calls
    BY <1>1 DEF IdInv
  <2> QED  BY <1>8, <2>1 DEF Of
<1>10. TypeInv'
  <2>1. /\ pos' \in [Positions -> PositionRec] /\ level' \subseteq Positions /\ calls' \in Nat
        /\ reported' \in [Positions -> [bought : Nat, sold : Nat]]
        /\ \A p \in Positions : pos'[p].state = "open" <=> pos'[p].qty > 0
        /\ \A p \in level' : pos'[p].state # "none"
    BY <1>1, <1>2 DEF TypeInv
  <2> QED  BY <1>1, <1>6, <2>1, BrokerKeepsTypes
<1>11. IdInv'
  <2>1. \A d \in Requests' : d.id \in 1..calls'
    BY <1>2, <1>7, <1>8
  <2>2. \A i \in DOMAIN book' : book'[i].id \in 1..calls'
    BY <1>1, <1>2, <1>8 DEF IdInv
  <2>3. ASSUME NEW u \in Threads, NEW v \in Threads, InCall(u)', InCall(v)', call'[u].id = call'[v].id
        PROVE  u = v
    <3>1. \A w \in Threads \ {t} : InCall(w)' => InCall(w) /\ call'[w] = call[w] /\ call[w] \in Requests
      BY <1>1, <1>7, CallOf
    <3>2. CASE u = t
      BY <1>5, <1>9, <2>3, <3>1, <3>2
    <3>3. CASE v = t
      BY <1>5, <1>9, <2>3, <3>1, <3>3
    <3>4. CASE u # t /\ v # t
      BY <1>1, <2>3, <3>1, <3>4 DEF IdInv
    <3> QED  BY <3>2, <3>3, <3>4
  <2>4. ASSUME NEW d \in Requests', NEW e \in Requests' PROVE SameOrder(d, e)
    <3>1. CASE d \in Requests /\ e \in Requests
      BY <1>1, <3>1 DEF IdInv
    <3>2. CASE d = c /\ e = c
      BY <3>2 DEF SameOrder
    <3>3. CASE d.id # e.id
      BY <3>3 DEF SameOrder
    <3> QED  BY <1>7, <1>9, <3>1, <3>2, <3>3
  <2>5. ASSUME NEW d \in Requests', NEW i \in DOMAIN book', book'[i].id = d.id PROVE Stands(d, book'[i])
    <3>1. i \in Of(d.id) /\ book'[i] = book[i]
      BY <1>2, <2>5 DEF Of
    <3>2. d \in Requests
      BY <1>7, <1>9, <3>1
    <3> QED  BY <1>1, <3>1, <3>2 DEF IdInv
  <2> QED  BY <2>1, <2>2, <2>3, <2>4, <2>5 DEF IdInv, Of
<1>12. ShapeInv'
  <2>1. ASSUME NEW d \in Requests' PROVE RequestShape(d)'
    <3>1. RequestShape(d)
      BY <1>1, <1>7 DEF ShapeInv
    <3> QED  BY <1>2, <3>1 DEF RequestShape
  <2>2. ASSUME NEW u \in Threads, Opening(u)'
        PROVE  pos'[call'[u].pos].state = "none" /\ \A v \in Threads : InCall(v)' /\ call'[v].pos = call'[u].pos => v = u
    <3>1. CASE u = t
      BY <1>2, <1>5, <1>7, <2>2, <3>1 DEF Opening, On
    <3>2. CASE u # t
      <4>1. Opening(u) /\ call'[u] = call[u] /\ InCall(u)
        BY <1>7, <2>2, <3>2 DEF Opening
      <4>2. pos[call[u].pos].state = "none" /\ \A v \in Threads : On(v, call[u].pos) => v = u
        BY <1>1, <4>1 DEF ShapeInv
      <4>3. c.pos # call[u].pos
        BY <1>3, <4>1, <4>2 DEF On
      <4> QED  BY <1>2, <1>5, <1>7, <4>1, <4>2, <4>3 DEF On
    <3> QED  BY <3>1, <3>2
  <2>3. \A u \in Threads : Closing(u)' => pos'[call'[u].pos].state # "none"
    BY <1>1, <1>2, <1>5, <1>7 DEF Closing, ShapeInv
  <2>4. Closing(GridThread)' => pos'[call'[GridThread].pos].qty <= call'[GridThread].qty
    <3>1. GridThread \in Threads
      BY TradingAssumption
    <3>2. CASE GridThread = t
      <4> SUFFICES ASSUME Closing(t)' PROVE pos[c.pos].qty <= c.qty
        BY <1>2, <1>5, <3>2
      <4>1. c.qty = pos[c.pos].qty /\ c.qty \in Nat
        BY <1>3, <1>5, <3>2, TradingAssumption DEF Closing
      <4> QED  BY <4>1
    <3>3. CASE GridThread # t
      BY <1>1, <1>2, <1>7, <3>1, <3>3 DEF Closing, ShapeInv
    <3> QED  BY <3>2, <3>3
  <2>5. \A i \in DOMAIN book' : EntryShape(book[i])'
    BY <1>1, <1>2 DEF ShapeInv, EntryShape
  <2>6. \A p \in Positions : broker' = "margin" /\ pos'[p].state # "none" =>
           /\ pos'[p].marginId \in DOMAIN book' /\ book'[pos'[p].marginId].pos = p
           /\ pos'[p].state = "open" => pos'[p].qty = Qty
    BY <1>1, <1>2 DEF ShapeInv
  <2>7. \A d \in late' : d.phase = "order"
    BY <1>1, <1>2 DEF ShapeInv
  <2> QED  BY <2>1, <2>2, <2>3, <2>4, <2>5, <2>6, <2>7 DEF ShapeInv, On
<1>13. AnswerInv'
  <2>1. SaysTrue(t)'
    BY <1>4, <1>5 DEF SaysTrue
  <2> QED  BY <1>1, <1>6, <2>1, BrokerKeepsAnswers
<1>14. ReportInv'
  BY <1>1, <1>2, <1>6, <1>9, BrokerKeepsReports
<1>15. CalmInv'
  <2>1. \A d \in late' : d.pos \in touched'
    BY <1>1, <1>2 DEF CalmInv
  <2>2. ASSUME NEW p \in Positions, Calm(p)' PROVE Reckoned(p)'
    <3>1. Calm(p) /\ Reckoned(p)
      BY <1>1, <1>2, <2>2 DEF Calm, CalmInv
    <3>2. ~On(t, p)
      BY <1>2 DEF On
    <3>3. CASE p # c.pos
      <4>1. ~On(t, p)'
        BY <1>5, <3>3 DEF On
      <4> QED  BY <1>1, <1>2, <1>6, <3>1, <3>2, <4>1, OthersReckoned
    <3>4. CASE p = c.pos
      <4>1. \A u \in Threads : ~On(u, p)
        BY <2>2, <3>4 DEF Calm
      <4>2. pos[p].qty = Net(p)
        BY <3>1, <4>1 DEF Reckoned
      <4>3. \A u \in Threads : On(u, p)' => u = t
        BY <1>7, <4>1 DEF On
      <4>4. Of(call[t].id)' = {} /\ Net(call[t].pos)' = Net(p)
        BY <1>2, <1>5, <1>9, <3>4 DEF Of, Net, Total, Buys, Sells
      <4>5. Unplaced(call[t], req[t].answer)'
        BY <1>2, <1>4, <1>5, <3>4, <4>2, <4>4 DEF Unplaced
      <4>6. Closing(t)' => call'[t].qty <= pos'[call'[t].pos].qty
        BY <1>2, <1>5 DEF Closing
      <4>7. Halfway(t)'
        BY <4>5, <4>6 DEF Halfway
      <4>8. On(t, p)'
        BY <1>5, <1>7, <3>4 DEF On
      <4> QED  BY <4>3, <4>7, <4>8 DEF Reckoned
    <3> QED  BY <3>3, <3>4
  <2> QED  BY <2>1, <2>2 DEF CalmInv
<1> QED  BY <1>10, <1>11, <1>12, <1>13, <1>14, <1>15 DEF LiveInv

\* The calls that the broker makes are of the shape its kind allows.
LEMMA CallShape ==
  ASSUME TypeInv, ShapeInv, NEW p \in Positions, NEW oper, NEW qty, NEW ph,
         oper \in {"buy", "sell", "open", "close"}, qty \in 1..Qty, ph \in {"dry_run", "order"},
         NEW c, c = Call(oper, p, qty, ph)
  PROVE  /\ c \in CallRec /\ c.op = oper /\ c.pos = p /\ c.qty = qty /\ c.phase = ph
         /\ c.id = calls + 1 /\ c.says = 0 /\ c.marginId = pos[p].marginId
<1>1. calls \in Nat /\ pos \in [Positions -> PositionRec]
  BY DEF TypeInv
<1>2. pos[p] \in PositionRec
  BY <1>1
<1>3. pos[p].marginId \in Nat
  BY <1>2 DEF PositionRec
<1>4. c = [op |-> oper, pos |-> p, qty |-> qty, id |-> calls + 1, marginId |-> pos[p].marginId,
           phase |-> ph, says |-> 0]
  BY DEF Call
<1>5. calls + 1 \in Nat /\ Qty \in Nat
  BY <1>1, TradingAssumption
<1>6. ph \in {"dry_run", "order", "check"}
  OBVIOUS
<1>7. c \in CallRec
  BY <1>3, <1>4, <1>5, <1>6 DEF CallRec
<1> QED  BY <1>4, <1>7

\* broker.py, open_long: a call that opens begins.
LEMMA OpenLongKeeps ==
  ASSUME LiveInv, NEW t \in Threads, NEW p \in Positions, OpenLong(t, p)
  PROVE  LiveInv'
<1> DEFINE oper == IF broker = "spot" THEN "buy" ELSE "open"
           ph == IF broker = "spot" THEN "order" ELSE "dry_run"
           c == Call(oper, p, Qty, ph)
<1>1. TypeInv /\ ShapeInv /\ Qty \in 1..Qty
  BY TradingAssumption DEF LiveInv
<1>2. /\ Begin(t, c) /\ raced' = raced /\ pos[p].state = "none"
      /\ \A u \in Threads : ~On(u, p)
  BY DEF OpenLong
<1>3. oper \in {"buy", "open"} /\ ph \in {"dry_run", "order"} /\ broker \in {"spot", "margin"}
      /\ (broker = "spot" => oper = "buy" /\ ph = "order")
      /\ (broker = "margin" => oper = "open" /\ ph = "dry_run")
  BY <1>1 DEF TypeInv
<1> HIDE DEF oper, ph
<1>8. c = Call(oper, p, Qty, ph)
  OBVIOUS
<1> HIDE DEF c
<1>4. /\ c \in CallRec /\ c.op = oper /\ c.pos = p /\ c.qty = Qty /\ c.phase = ph
      /\ c.id = calls + 1 /\ c.says = 0 /\ c.marginId = pos[p].marginId
  BY <1>1, <1>3, <1>8, CallShape
<1>5. RequestShape(c)
  BY <1>3, <1>4 DEF RequestShape, Spot
<1>6. raced \subseteq raced' /\ raced' \subseteq Positions
  BY <1>1, <1>2 DEF TypeInv
<1>7. c.phase # "check" /\ c.op \notin {"sell", "close"}
  BY <1>3, <1>4
<1> QED  BY <1>2, <1>4, <1>5, <1>6, <1>7, BeginKeeps

\* broker.py, close_long: a call that closes begins, from any thread.
LEMMA CloseLongKeeps ==
  ASSUME LiveInv, NEW t \in Threads, NEW p \in Positions, NEW qty, CloseLong(t, p, qty),
         t = GridThread => qty = pos[p].qty
  PROVE  LiveInv'
<1> DEFINE oper == IF broker = "spot" THEN "sell" ELSE "close"
           n == IF broker = "spot" THEN qty ELSE pos[p].qty
           c == Call(oper, p, n, "order")
<1>1. TypeInv /\ ShapeInv /\ Qty \in Nat /\ pos[p].qty \in 0..Qty
  BY TradingAssumption DEF LiveInv, TypeInv, PositionRec
<1>2. /\ Begin(t, c) /\ pos[p].state = "open" /\ qty \in 1..pos[p].qty
      /\ raced' = IF \E u \in Threads : On(u, p) THEN raced \cup {p} ELSE raced
  BY DEF CloseLong
<1>3. /\ oper \in {"sell", "close"} /\ broker \in {"spot", "margin"}
      /\ (broker = "spot" => oper = "sell") /\ (broker = "margin" => oper = "close")
  BY <1>1 DEF TypeInv
<1>4. n \in 1..Qty /\ n <= pos[p].qty /\ (t = GridThread => n = pos[p].qty)
  BY <1>1, <1>2
<1> HIDE DEF oper, n
<1>10. c = Call(oper, p, n, "order")
  OBVIOUS
<1> HIDE DEF c
<1>5. /\ c \in CallRec /\ c.op = oper /\ c.pos = p /\ c.qty = n /\ c.phase = "order"
      /\ c.id = calls + 1 /\ c.says = 0 /\ c.marginId = pos[p].marginId
  BY <1>1, <1>3, <1>4, <1>10, CallShape
<1>6. RequestShape(c)
  BY <1>2, <1>3, <1>5 DEF RequestShape, Spot
<1>7. raced \subseteq raced' /\ raced' \subseteq Positions
  BY <1>1, <1>2 DEF TypeInv
<1>8. c.pos \in raced' \/ \A u \in Threads : ~On(u, c.pos)
  BY <1>2, <1>5
<1>9. c.phase # "check" /\ c.op \notin {"buy", "open"}
  BY <1>3, <1>5
<1> QED  BY <1>2, <1>4, <1>5, <1>6, <1>7, <1>8, <1>9, BeginKeeps

\* A call begins.
LEMMA StartKeeps ==
  ASSUME LiveInv, NEW t \in Threads, Start(t)
  PROVE  LiveInv'
<1>1. PICK p \in Positions :
        \/ OpenLong(t, p)
        \/ IF t = GridThread THEN GridSells(p) ELSE \E qty \in 1..Qty : CloseLong(t, p, qty)
  BY DEF Start
<1>2. CASE OpenLong(t, p)
  BY <1>2, OpenLongKeeps
<1>3. CASE t = GridThread /\ GridSells(p)
  <2>1. CloseLong(t, p, pos[p].qty)
    BY <1>3 DEF GridSells
  <2>2. PICK qty : qty = pos[p].qty
    OBVIOUS
  <2> QED  BY <2>1, <2>2, CloseLongKeeps
<1>4. CASE t # GridThread /\ \E qty \in 1..Qty : CloseLong(t, p, qty)
  BY <1>4, CloseLongKeeps
<1> QED  BY <1>1, <1>2, <1>3, <1>4

\* A call returns.
LEMMA EndsFrame ==
  ASSUME TypeInv, NEW t \in Threads, Ends(t)
  PROVE  BrokerStep(t, NoCall) /\ NextStage(t, NoCall) /\ calls' = calls /\ raced' = raced
<1> DEFINE R == [stage : {"idle", "queued", "answered"}, attempt : 0..MaxRetries,
                 answer : {"none", "result", "useless", "error"}]
<1>1. req \in [Threads -> R] /\ client \in Clients /\ MaxRetries \in Nat
      /\ call \in [Threads -> CallRec \cup {NoCall}]
  BY ClientAssumption DEF TypeInv, ClientTypeOK
<1>2. /\ call' = [call EXCEPT ![t] = NoCall] /\ req' = [req EXCEPT ![t] = NoRequest]
      /\ UNCHANGED <<client, broker, calls, book, late, faults, touched, raced>>
  BY DEF Ends, worldVars
<1>3. NoRequest \in R /\ NoRequest.stage = "idle" /\ NoRequest.answer = "none"
  BY <1>1 DEF NoRequest
<1>4. req' \in [Threads -> R] /\ req'[t] = NoRequest /\ \A u \in Threads \ {t} : req'[u] = req[u]
  BY <1>1, <1>2, <1>3
<1>5. ClientTypeOK'
  BY <1>1, <1>2, <1>4 DEF ClientTypeOK
<1>6. call'[t] = NoCall
  BY <1>1, <1>2
<1>7. Fresh(t)'
  BY <1>3, <1>4, <1>6 DEF Fresh, InCall
<1> QED  BY <1>2, <1>3, <1>4, <1>5, <1>7 DEF BrokerStep, NextStage

\* What a return must leave of the position it is about.
EndedWell(t, q) ==
    /\ pos' \in [Positions -> PositionRec] /\ reported' \in [Positions -> [bought : Nat, sold : Nat]]
    /\ \A p \in Positions \ {q} : pos'[p] = pos[p] /\ reported'[p] = reported[p]
    /\ pos'[q].state = "open" <=> pos'[q].qty > 0
    /\ level' \subseteq Positions /\ \A p \in level' : pos'[p].state # "none"
    /\ pos[q].state # "none" => /\ pos'[q].state # "none" /\ pos'[q].marginId = pos[q].marginId
                                /\ pos'[q].qty <= pos[q].qty
    /\ broker = "margin" /\ pos'[q].state # "none" =>
         /\ pos'[q].marginId \in DOMAIN book /\ book[pos'[q].marginId].pos = q
         /\ pos'[q].state = "open" => pos'[q].qty = Qty
    /\ pos'[q].state = "none" => reported'[q].sold = 0
    /\ reported'[q].bought > 0 => \E i \in Buys(book, q) : reported'[q].bought <= book[i].filled
    /\ broker = "spot" => reported'[q].sold <= Total(book, Settled(book, q))'
    /\ broker = "margin" =>
         /\ reported'[q].sold \in {0, Qty}
         /\ pos'[q].state = "open" => reported'[q].sold = 0
         /\ reported'[q].sold > 0 => ~book[pos'[q].marginId].live
    /\ Calm(q) /\ Halfway(t) => pos'[q].qty = Net(q)

\* A call returns: what it must leave of its own position is enough.
LEMMA EndKeeps ==
  ASSUME LiveInv, NEW t \in Threads, InCall(t), Ends(t), NEW q \in Positions, On(t, q), EndedWell(t, q)
  PROVE  LiveInv'
<1>1. TypeInv /\ IdInv /\ ShapeInv /\ AnswerInv /\ ReportInv /\ CalmInv
  BY DEF LiveInv
<1>2. BrokerStep(t, NoCall) /\ NextStage(t, NoCall) /\ calls' = calls /\ raced' = raced
  BY <1>1, EndsFrame
<1>3. /\ call'[t] = NoCall /\ ~InCall(t)'
      /\ \A u \in Threads \ {t} : call'[u] = call[u] /\ (InCall(u)' <=> InCall(u)) /\ req'[u] = req[u]
      /\ \A c \in Requests' : c \in Requests
      /\ \A p : Net(p)' = Net(p)
      /\ UNCHANGED <<client, broker, book, late, faults, touched>>
  BY <1>1, <1>2, BrokerFrame
<1>4. \A p \in Positions \ {q} : pos'[p] = pos[p] /\ reported'[p] = reported[p]
  BY DEF EndedWell
<1>5. pos[q].state # "none" => /\ pos'[q].state # "none" /\ pos'[q].marginId = pos[q].marginId
                               /\ pos'[q].qty <= pos[q].qty
  BY DEF EndedWell
<1>6. pos' \in [Positions -> PositionRec] /\ pos \in [Positions -> PositionRec]
  BY <1>1 DEF EndedWell, TypeInv
<1>7. TypeInv'
  <2>1. level' \subseteq Positions /\ calls' \in Nat /\ raced' \subseteq Positions
        /\ reported' \in [Positions -> [bought : Nat, sold : Nat]]
    BY <1>1, <1>2 DEF TypeInv, EndedWell
  <2>2. ASSUME NEW p \in Positions PROVE pos'[p].state = "open" <=> pos'[p].qty > 0
    <3>1. CASE p = q
      BY <3>1 DEF EndedWell
    <3>2. CASE p # q
      BY <1>1, <1>4, <3>2 DEF TypeInv
    <3> QED  BY <3>1, <3>2
  <2>3. \A p \in level' : pos'[p].state # "none"
    BY DEF EndedWell
  <2> QED  BY <1>1, <1>2, <1>6, <2>1, <2>2, <2>3, BrokerKeepsTypes
<1>8. IdInv'
  BY <1>1, <1>2, BrokerKeepsIds
<1>9. AnswerInv'
  BY <1>1, <1>2, <1>3, BrokerKeepsAnswers
<1>10. ShapeInv'
  <2>0. \A u \in Threads : InCall(u)' => u # t /\ InCall(u) /\ call'[u] = call[u] /\ call[u].pos \in Positions
    BY <1>1, <1>3, CallOf
  <2>1. ASSUME NEW c \in Requests' PROVE RequestShape(c)'
    <3>1. RequestShape(c) /\ c \in CallRec
      BY <1>1, <1>3, RequestFacts DEF ShapeInv
    <3>2. c.op = "close" => pos'[c.pos].state # "none" /\ c.marginId = pos'[c.pos].marginId
      <4>1. c.pos \in Positions
        BY <3>1 DEF CallRec
      <4>2. CASE c.pos = q
        BY <1>5, <3>1, <4>2 DEF RequestShape
      <4>3. CASE c.pos # q
        BY <1>4, <3>1, <4>1, <4>3 DEF RequestShape
      <4> QED  BY <4>2, <4>3
    <3> QED  BY <1>3, <3>1, <3>2 DEF RequestShape
  <2>2. ASSUME NEW u \in Threads, Opening(u)'
        PROVE  pos'[call'[u].pos].state = "none" /\ \A v \in Threads : InCall(v)' /\ call'[v].pos = call'[u].pos => v = u
    <3>1. Opening(u) /\ u # t /\ call'[u] = call[u] /\ call[u].pos \in Positions /\ InCall(u)
      BY <2>0, <2>2 DEF Opening
    <3>2. pos[call[u].pos].state = "none" /\ \A v \in Threads : On(v, call[u].pos) => v = u
      BY <1>1, <3>1 DEF ShapeInv
    <3>3. call[u].pos # q
      BY <3>1, <3>2
    <3> QED  BY <1>4, <2>0, <3>1, <3>2, <3>3 DEF On
  <2>3. \A u \in Threads : Closing(u)' => Closing(u) /\ u # t /\ call'[u] = call[u] /\ call[u].pos \in Positions
    BY <2>0 DEF Closing
  <2>4. \A u \in Threads : Closing(u)' => pos'[call'[u].pos].state # "none"
    BY <1>1, <1>4, <1>5, <2>3 DEF ShapeInv
  <2>5. Closing(GridThread)' => pos'[call'[GridThread].pos].qty <= call'[GridThread].qty
    <3> DEFINE g == call[GridThread]
    <3> SUFFICES ASSUME Closing(GridThread)' PROVE pos'[g.pos].qty <= g.qty
      BY <2>3, TradingAssumption
    <3>1. Closing(GridThread) /\ g.pos \in Positions /\ InCall(GridThread) /\ GridThread \in Threads
      BY <2>3, TradingAssumption DEF Closing
    <3>2. pos[g.pos].qty <= g.qty /\ pos[g.pos].state # "none"
      BY <1>1, <3>1 DEF ShapeInv
    <3>3. pos'[g.pos].qty <= pos[g.pos].qty
      <4>1. CASE g.pos = q
        BY <1>5, <3>2, <4>1
      <4>2. CASE g.pos # q
        <5>1. pos'[g.pos] = pos[g.pos] /\ pos[g.pos] \in PositionRec
          BY <1>4, <1>6, <3>1, <4>2
        <5>2. pos[g.pos].qty \in 0..Qty /\ Qty \in Nat
          BY <5>1, TradingAssumption DEF PositionRec
        <5> QED  BY <5>1, <5>2
      <4> QED  BY <4>1, <4>2
    <3>4. g \in CallRec
      BY <1>1, <3>1, CallOf
    <3> HIDE DEF g
    <3>5. pos'[g.pos] \in PositionRec /\ pos[g.pos] \in PositionRec
      BY <1>6, <3>1
    <3>6. pos'[g.pos].qty \in 0..Qty /\ pos[g.pos].qty \in 0..Qty /\ g.qty \in 1..Qty /\ Qty \in Nat
      BY <3>4, <3>5, TradingAssumption DEF PositionRec, CallRec
    <3> QED  BY <3>2, <3>3, <3>6
  <2>6. \A i \in DOMAIN book' : EntryShape(book[i])'
    BY <1>1, <1>3 DEF ShapeInv, EntryShape
  <2>7. \A p \in Positions : broker' = "margin" /\ pos'[p].state # "none" =>
           /\ pos'[p].marginId \in DOMAIN book' /\ book'[pos'[p].marginId].pos = p
           /\ pos'[p].state = "open" => pos'[p].qty = Qty
    <3>1. \A p \in Positions \ {q} : broker' = "margin" /\ pos'[p].state # "none" =>
             /\ pos'[p].marginId \in DOMAIN book' /\ book'[pos'[p].marginId].pos = p
             /\ pos'[p].state = "open" => pos'[p].qty = Qty
      BY <1>1, <1>3, <1>4 DEF ShapeInv
    <3>2. broker' = "margin" /\ pos'[q].state # "none" =>
             /\ pos'[q].marginId \in DOMAIN book' /\ book'[pos'[q].marginId].pos = q
             /\ pos'[q].state = "open" => pos'[q].qty = Qty
      BY <1>3 DEF EndedWell
    <3> QED  BY <3>1, <3>2
  <2>8. \A d \in late' : d.phase = "order"
    BY <1>1, <1>3 DEF ShapeInv
  <2> QED  BY <2>1, <2>2, <2>4, <2>5, <2>6, <2>7, <2>8 DEF ShapeInv, On
<1>11. ReportInv'
  <2>1. ASSUME NEW p \in Positions
        PROVE  /\ pos'[p].state = "none" => reported'[p].sold = 0
               /\ reported'[p].bought > 0 => \E i \in Buys(book, p)' : reported'[p].bought <= book'[i].filled
               /\ broker' = "spot" => reported'[p].sold <= Total(book, Settled(book, p))'
               /\ broker' = "margin" =>
                      /\ reported'[p].sold \in {0, Qty}
                      /\ pos'[p].state = "open" => reported'[p].sold = 0
                      /\ reported'[p].sold > 0 => ~book'[pos'[p].marginId].live
    <3>0. Buys(book, p)' = Buys(book, p)
      BY <1>3 DEF Buys
    <3>1. CASE p = q
      BY <1>3, <3>0, <3>1 DEF EndedWell
    <3>2. CASE p # q
      <4>1. pos'[p] = pos[p] /\ reported'[p] = reported[p] /\ reported[p].sold \in Nat
        BY <1>1, <1>4, <3>2 DEF TypeInv
      <4>2. broker = "spot" => reported[p].sold <= Total(book, Settled(book, p))
        BY <1>1 DEF ReportInv
      <4>3. broker = "spot" => reported[p].sold <= Total(book, Settled(book, p))'
        BY <1>1, <1>2, <4>1, <4>2, SettledGrows
      <4> QED  BY <1>1, <1>3, <3>0, <4>1, <4>3 DEF ReportInv
    <3> QED  BY <3>1, <3>2
  <2> QED  BY <2>1 DEF ReportInv
<1>12. CalmInv'
  <2>1. \A c \in late' : c.pos \in touched'
    BY <1>1, <1>3 DEF CalmInv
  <2>2. ASSUME NEW p \in Positions, Calm(p)' PROVE Reckoned(p)'
    <3>1. Calm(p) /\ Reckoned(p)
      BY <1>1, <1>2, <1>3, <2>2 DEF Calm, CalmInv
    <3>2. ~On(t, p)'
      BY <1>3 DEF On
    <3>3. CASE p = q
      <4>1. \A u \in Threads : ~On(u, p)'
        BY <1>3, <3>1, <3>2, <3>3 DEF Reckoned, On
      <4>2. Halfway(t)
        BY <3>1, <3>3 DEF Reckoned
      <4>3. pos'[p].qty = Net(p)
        BY <3>1, <3>3, <4>2 DEF EndedWell
      <4> QED  BY <1>3, <4>1, <4>3 DEF Reckoned
    <3>4. CASE p # q
      <4>1. ~On(t, p) /\ pos'[p] = pos[p]
        BY <1>4, <3>4 DEF On
      <4> QED  BY <1>1, <1>2, <3>1, <3>2, <4>1, OthersReckoned
    <3> QED  BY <3>3, <3>4
  <2> QED  BY <2>1, <2>2 DEF CalmInv
<1> QED  BY <1>7, <1>8, <1>9, <1>10, <1>11, <1>12 DEF LiveInv

\* What a call that succeeds has executed, and where the book says so.
LEMMA SpotExecuted ==
  ASSUME LiveInv, NEW t \in Threads, InCall(t), call[t].op \in Spot, Succeeds(t)
  PROVE  /\ broker = "spot" /\ Fill(call[t]) = call[t].says /\ call[t].says \in 1..Qty
         /\ \E i \in Of(call[t].id) : /\ i \in DOMAIN book /\ Stands(call[t], book[i])
                                      /\ book[i].filled = call[t].says /\ call[t].says <= call[t].qty
<1> DEFINE c == call[t]
<1>1. TypeInv /\ IdInv /\ ShapeInv /\ AnswerInv
  BY DEF LiveInv
<1>2. c \in CallRec /\ c \in Requests
  BY <1>1, CallOf
<1>3. broker = "spot"
  BY <1>1, <1>2, ChecksAreSpot
<1>4. c.says > 0 /\ SaysTrue(t)
  BY <1>1 DEF Succeeds, AnswerInv
<1>5. PICK i \in Of(c.id) : book[i].filled = c.says
  BY <1>4 DEF SaysTrue
<1>6. i \in DOMAIN book /\ Stands(c, book[i])
  BY <1>1, <1>2 DEF Of, IdInv
<1>7. EntryShape(book[i]) /\ book[i] \in EntryRec
  BY <1>1, <1>6, RequestFacts DEF ShapeInv
<1>8. book[i].filled \in 0..Qty /\ Qty \in Nat /\ book[i].filled <= book[i].asked
  BY <1>7, TradingAssumption DEF EntryRec, EntryShape
<1>9. book[i].asked = c.qty
  BY <1>6 DEF Stands
<1>10. c.says \in 1..Qty /\ c.says <= c.qty
  BY <1>4, <1>5, <1>8, <1>9
<1> QED  BY <1>3, <1>5, <1>6, <1>10 DEF Fill

\* A margin call that succeeds has opened its position, or has ended it.
LEMMA MarginExecuted ==
  ASSUME LiveInv, NEW t \in Threads, InCall(t), call[t].op = "open", Succeeds(t)
  PROVE  /\ broker = "margin" /\ Fill(call[t]) = Qty /\ call[t].phase = "order"
         /\ call[t].says \in Nat /\ call[t].says \in DOMAIN book /\ call[t].says \in Of(call[t].id)
         /\ Stands(call[t], book[call[t].says]) /\ book[call[t].says].filled = Qty
<1> DEFINE c == call[t]
<1>1. TypeInv /\ IdInv /\ ShapeInv /\ AnswerInv
  BY DEF LiveInv
<1>2. c \in CallRec /\ c \in Requests /\ RequestShape(c)
  BY <1>1, CallOf DEF ShapeInv
<1>3. broker = "margin" /\ c.op \notin Spot
  BY <1>1, <1>2 DEF RequestShape, TypeInv, Spot
<1>4. c.phase = "order" /\ c.qty = Qty /\ c.says \in Nat
  BY <1>2, <1>3 DEF Succeeds, RequestShape, CallRec
<1>5. c.says \in Of(c.id)
  BY <1>1, <1>4 DEF AnswerInv, SaysTrue, Succeeds, Returns
<1>6. c.says \in DOMAIN book /\ Stands(c, book[c.says])
  BY <1>1, <1>2, <1>5 DEF Of, IdInv
<1>7. book[c.says].filled = Qty
  BY <1>1, <1>3, <1>6 DEF ShapeInv, EntryShape
<1> QED  BY <1>3, <1>4, <1>5, <1>6, <1>7 DEF Fill

\* The one entry of a call about a calm position says what it executed.
LEMMA CalmExecuted ==
  ASSUME LiveInv, NEW t \in Threads, InCall(t), call[t].op # "close", Succeeds(t), Halfway(t)
  PROVE  \E i \in DOMAIN book : /\ Stands(call[t], book[i])
                                /\ Net(call[t].pos) = pos[call[t].pos].qty + Signed(book[i])
                                /\ book[i].filled = Fill(call[t])
<1> DEFINE c == call[t]
<1>1. TypeInv /\ IdInv /\ ShapeInv
  BY DEF LiveInv
<1>2. c \in CallRec /\ c \in Requests
  BY <1>1, CallOf
<1>3. req[t].answer = "result" /\ c.phase # "dry_run"
  BY DEF Succeeds, Returns
<1>4. c.phase \in {"order", "check"}
  BY <1>2, <1>3 DEF CallRec
<1>5. PlacedOnce(c, req[t].answer)
  BY <1>3, <1>4 DEF Halfway, Unplaced, EndedOnce
<1>6. PICK i \in Of(c.id) :
         /\ Of(c.id) = {i}
         /\ Net(c.pos) = pos[c.pos].qty + Signed(book[i])
         /\ c.op \in Spot /\ c.phase = "order" => c.says \in {0, book[i].filled}
         /\ c.phase = "check" /\ req[t].answer = "result" => c.says = book[i].filled
  BY <1>5 DEF PlacedOnce
<1>7. i \in DOMAIN book /\ Stands(c, book[i])
  BY <1>1, <1>2 DEF Of, IdInv
<1>8. CASE c.op \in Spot
  <2>1. Fill(c) = c.says /\ c.says # 0
    BY <1>8, SpotExecuted DEF Fill
  <2>2. c.says = book[i].filled
    BY <1>3, <1>4, <1>6, <1>8, <2>1
  <2> QED  BY <1>6, <1>7, <2>1, <2>2
<1>9. CASE c.op = "open"
  <2>1. c.says \in Of(c.id) /\ book[c.says].filled = Qty /\ Fill(c) = Qty
    BY <1>9, MarginExecuted
  <2>2. c.says = i
    BY <1>6, <2>1
  <2> QED  BY <1>6, <1>7, <2>1, <2>2
<1>10. c.op \in Spot \/ c.op = "open"
  BY <1>2 DEF CallRec, Spot
<1> QED  BY <1>8, <1>9, <1>10

\* open_long succeeds: the position is what the exchange says it executed.
LEMMA OpenedKeeps ==
  ASSUME LiveInv, NEW t \in Threads, Opened(t)
  PROVE  LiveInv'
<1>1. TypeInv /\ IdInv /\ ShapeInv /\ ReportInv
  BY DEF LiveInv
<1> DEFINE c == call[t]
           F == Fill(c)
           m == IF c.op = "open" THEN c.says ELSE 0
<1>2. /\ InCall(t) /\ c.op \in {"buy", "open"} /\ Succeeds(t) /\ Ends(t)
      /\ pos' = [pos EXCEPT ![c.pos] = [state |-> "open", qty |-> F, marginId |-> m]]
      /\ reported' = [reported EXCEPT ![c.pos].bought = F]
      /\ level' = IF t = GridThread THEN level \cup {c.pos} ELSE level
  BY DEF Opened
<1>3. c \in CallRec /\ c \in Requests /\ c.pos \in Positions
  BY <1>1, <1>2, CallOf
<1>4. PICK q \in Positions : q = c.pos
  BY <1>3
<1>5. pos[q].state = "none" /\ Opening(t)
  BY <1>1, <1>2, <1>4 DEF ShapeInv, Opening
<1>6. /\ c.op = "buy" => /\ broker = "spot" /\ F \in 1..Qty /\ m = 0
                         /\ \E i \in Buys(book, q) : F <= book[i].filled
      /\ c.op = "open" => /\ broker = "margin" /\ F = Qty /\ m \in DOMAIN book /\ book[m].pos = q /\ m \in Nat
                          /\ \E i \in Buys(book, q) : F <= book[i].filled
  <2>1. CASE c.op = "buy"
    <3>1. c.op \in Spot /\ m = 0
      BY <2>1 DEF Spot
    <3>2. /\ broker = "spot" /\ F = c.says /\ F \in 1..Qty
          /\ \E i \in Of(c.id) : i \in DOMAIN book /\ Stands(c, book[i]) /\ book[i].filled = c.says
      BY <1>2, <3>1, SpotExecuted
    <3>3. PICK i \in DOMAIN book : Stands(c, book[i]) /\ book[i].filled = F
      BY <3>2
    <3>4. i \in Buys(book, q)
      BY <1>4, <2>1, <3>3 DEF Buys, Stands
    <3>5. F <= book[i].filled
      BY <3>2, <3>3
    <3> QED  BY <2>1, <3>1, <3>2, <3>4, <3>5
  <2>2. CASE c.op = "open"
    <3>1. /\ broker = "margin" /\ F = Qty /\ m \in DOMAIN book /\ m \in Nat
          /\ Stands(c, book[m]) /\ book[m].filled = Qty
      BY <1>2, <2>2, MarginExecuted
    <3>2. m \in Buys(book, q) /\ book[m].pos = q
      BY <1>4, <2>2, <3>1 DEF Buys, Stands
    <3>3. F <= book[m].filled
      BY <3>1, TradingAssumption
    <3> QED  BY <2>2, <3>1, <3>2, <3>3
  <2> QED  BY <1>2, <2>1, <2>2
<1>7. Calm(q) /\ Halfway(t) => F = Net(q)
  <2> SUFFICES ASSUME Halfway(t) PROVE F = Net(q)
    OBVIOUS
  <2>1. c.op # "close"
    BY <1>2
  <2>2. PICK i \in DOMAIN book : /\ Stands(c, book[i]) /\ Net(c.pos) = pos[c.pos].qty + Signed(book[i])
                                 /\ book[i].filled = F
    BY <1>2, <2>1, CalmExecuted
  <2>3. Signed(book[i]) = F
    BY <1>2, <2>2 DEF Signed, Stands
  <2>4. pos[q].qty \in Nat /\ ~(pos[q].qty > 0)
    BY <1>1, <1>5 DEF TypeInv, PositionRec
  <2>5. pos[q].qty = 0
    BY <2>4
  <2>6. F \in Nat
    BY <1>2, <1>6, TradingAssumption
  <2> QED  BY <1>4, <2>2, <2>3, <2>5, <2>6
<1>8. F \in 1..Qty /\ m \in Nat /\ Qty \in Nat
  BY <1>2, <1>6, TradingAssumption
<1> HIDE DEF F, m, c
<1>9. /\ pos \in [Positions -> PositionRec] /\ reported \in [Positions -> [bought : Nat, sold : Nat]]
      /\ level \subseteq Positions /\ \A p \in level : pos[p].state # "none"
  BY <1>1 DEF TypeInv
<1> DEFINE r == [state |-> "open", qty |-> F, marginId |-> m]
<1>10. r \in PositionRec /\ r.state = "open" /\ r.qty = F /\ r.marginId = m
  <2>1. F \in 0..Qty
    BY <1>8
  <2> QED  BY <1>8, <2>1 DEF PositionRec
<1>11. pos' = [pos EXCEPT ![q] = r] /\ reported' = [reported EXCEPT ![q].bought = F]
  BY <1>2, <1>4
<1> HIDE DEF r
<1>12. pos' \in [Positions -> PositionRec] /\ pos'[q] = r /\ \A p \in Positions \ {q} : pos'[p] = pos[p]
  BY <1>9, <1>10, <1>11
<1>13. /\ reported' \in [Positions -> [bought : Nat, sold : Nat]]
       /\ reported'[q].bought = F /\ reported'[q].sold = reported[q].sold
       /\ \A p \in Positions \ {q} : reported'[p] = reported[p]
  <2>1. F \in Nat
    BY <1>8
  <2> QED  BY <1>9, <1>11, <2>1
<1>14. level' \subseteq Positions /\ \A p \in level' : pos'[p].state # "none"
  <2>1. level' \subseteq level \cup {q}
    BY <1>2, <1>4
  <2> QED  BY <1>9, <1>10, <1>12, <2>1
<1>15. reported'[q].sold = 0
  BY <1>1, <1>5, <1>13 DEF ReportInv
<1>16. Total(book, Settled(book, q))' \in Nat
  <2>1. BrokerStep(t, NoCall)
    BY <1>1, <1>2, EndsFrame
  <2> QED  BY <1>1, <2>1, SettledGrows
<1>17. EndedWell(t, q)
  <2>1. pos'[q].state = "open" <=> pos'[q].qty > 0
    BY <1>8, <1>10, <1>12
  <2>2. broker = "margin" /\ pos'[q].state # "none" =>
         /\ pos'[q].marginId \in DOMAIN book /\ book[pos'[q].marginId].pos = q
         /\ pos'[q].state = "open" => pos'[q].qty = Qty
    BY <1>2, <1>6, <1>10, <1>12
  <2>3. reported'[q].bought > 0 => \E i \in Buys(book, q) : reported'[q].bought <= book[i].filled
    BY <1>2, <1>6, <1>13
  <2>4. reported'[q].sold <= Total(book, Settled(book, q))'
    BY <1>15, <1>16
  <2>5. /\ reported'[q].sold \in {0, Qty} /\ pos'[q].state = "open" => reported'[q].sold = 0
        /\ reported'[q].sold > 0 => ~book[pos'[q].marginId].live
    BY <1>15
  <2>6. Calm(q) /\ Halfway(t) => pos'[q].qty = Net(q)
    BY <1>7, <1>10, <1>12
  <2> QED  BY <1>5, <1>12, <1>13, <1>14, <1>15, <2>1, <2>2, <2>3, <2>4, <2>5, <2>6 DEF EndedWell
<1>18. On(t, q)
  BY <1>2, <1>4 DEF On, c
<1> QED  BY <1>2, <1>17, <1>18, EndKeeps

\* A spot sale: its entry joins the sales of calls that are over.
LEMMA SpotSale ==
  ASSUME LiveInv, NEW t \in Threads, Closed(t), broker = "spot"
  PROVE  LET c == call[t]
         IN  /\ c.op = "sell" /\ Fill(c) = c.says /\ c.says \in 1..Qty /\ c.says <= c.qty
             /\ \E i \in DOMAIN book : book[i].pos = c.pos /\ book[i].filled = c.says /\ book[i].asked = c.qty
             /\ \A q : q = c.pos =>
                    Total(book, Settled(book, q)) + c.says <= Total(book, Settled(book, q))'
<1> DEFINE c == call[t]
<1>1. TypeInv /\ IdInv /\ ShapeInv
  BY DEF LiveInv
<1>2. InCall(t) /\ c.op \in {"sell", "close"} /\ Succeeds(t) /\ Ends(t)
  BY DEF Closed
<1>3. c \in CallRec /\ c \in Requests /\ c.pos \in Positions /\ RequestShape(c)
  BY <1>1, <1>2, CallOf DEF ShapeInv
<1>4. c.op = "sell"
  BY <1>2, <1>3 DEF RequestShape, Spot
<1>5. c.op \in Spot
  BY <1>4 DEF Spot
<1>6. /\ Fill(c) = c.says /\ c.says \in 1..Qty /\ c.says <= c.qty
      /\ \E i \in Of(c.id) : i \in DOMAIN book /\ Stands(c, book[i]) /\ book[i].filled = c.says
  BY <1>2, <1>5, SpotExecuted
<1>7. PICK i \in DOMAIN book : Stands(c, book[i]) /\ book[i].filled = c.says
  BY <1>6
<1>8. book[i].pos = c.pos /\ book[i].op = "sell" /\ book[i].id = c.id /\ book[i].asked = c.qty
  BY <1>4, <1>7 DEF Stands
<1>9. BrokerStep(t, NoCall)
  BY <1>1, <1>2, EndsFrame
<1>10. /\ call'[t] = NoCall /\ ~InCall(t)' /\ book' = book
       /\ \A u \in Threads \ {t} : call'[u] = call[u] /\ (InCall(u)' <=> InCall(u))
  BY <1>1, <1>9, BrokerFrame
<1> SUFFICES ASSUME NEW q, q = c.pos
             PROVE  Total(book, Settled(book, q)) + c.says <= Total(book, Settled(book, q))'
  BY <1>4, <1>6, <1>7, <1>8
<1>11. q = c.pos
  OBVIOUS
<1> DEFINE S == Settled(book, q)
           R == Settled(book, q)'
<1>12. i \in Sells(book, q) /\ i \notin S
  BY <1>2, <1>8, <1>11 DEF Settled, Sells
<1>13. i \in R
  <2>1. i \in Sells(book, q)'
    BY <1>10, <1>12 DEF Sells
  <2>2. ASSUME NEW u \in Threads, InCall(u)' PROVE book'[i].id # call'[u].id
    <3>1. u # t /\ InCall(u) /\ call'[u] = call[u]
      BY <1>10, <2>2
    <3>2. call[u].id # c.id
      BY <1>1, <1>2, <3>1 DEF IdInv
    <3> QED  BY <1>8, <1>10, <3>1, <3>2
  <2> QED  BY <2>1, <2>2 DEF Settled
<1>14. \A j \in S : j \in R
  BY <1>1, <1>9, SettledGrows
<1>15. S \in SUBSET DOMAIN book /\ R \in SUBSET DOMAIN book
  BY <1>10 DEF Settled, Sells
<1>16. book \in Seq(EntryRec) /\ \A j \in DOMAIN book : book[j].filled \in Nat
  <2>1. book \in Seq(EntryRec)
    BY <1>1 DEF TypeInv
  <2> QED  BY <2>1, BookFinite
<1>17. Total(book, Settled(book, q))' = Total(book, R)
  BY <1>10 DEF Total
<1> HIDE DEF S, R
<1> DEFINE U == S \cup {i}
<1>18. Total(book, U) = Total(book, S) + book[i].filled
  BY <1>12, <1>15, <1>16, TotalAdd
<1>19. U \in SUBSET DOMAIN book /\ \A j \in U : j \in R /\ book[j].filled <= book[j].filled
  BY <1>13, <1>14, <1>15, <1>16
<1> HIDE DEF U
<1>20. Total(book, U) <= Total(book, R)
  BY <1>15, <1>16, <1>19, TotalGrows
<1>21. Total(book, S) + c.says <= Total(book, Settled(book, q))'
  BY <1>7, <1>17, <1>18, <1>20
<1> QED  BY <1>21 DEF S

\* A position after a sale: smaller, or closed.
LEMMA AfterCloseFacts ==
  ASSUME NEW r \in PositionRec, NEW fill, fill \in 1..Qty \/ broker = "margin", r.state # "none",
         r.state = "open" <=> r.qty > 0, broker \in {"spot", "margin"}, NEW a, a = AfterClose(r, fill)
  PROVE  /\ a \in PositionRec /\ a.state # "none" /\ a.marginId = r.marginId /\ a.qty <= r.qty
         /\ a.state = "open" <=> a.qty > 0
         /\ broker = "margin" => a.state = "closed" /\ a.qty = 0
         /\ broker = "spot" /\ r.qty > fill => a.state = "open" /\ a.qty = r.qty - fill
         /\ broker = "spot" /\ ~(r.qty > fill) => a.state = "closed" /\ a.qty = 0
<1>1. Qty \in Nat /\ r.qty \in 0..Qty /\ r.state \in {"none", "open", "closed"} /\ r.marginId \in Nat
  BY TradingAssumption DEF PositionRec
<1>2. CASE broker = "spot" /\ r.qty > fill
  <2>1. a = [r EXCEPT !.qty = r.qty - fill]
    BY <1>2 DEF AfterClose
  <2>2. fill \in 1..Qty
    BY <1>2
  <2>3. r.qty - fill \in 0..Qty /\ r.qty - fill > 0 /\ r.qty - fill <= r.qty /\ r.qty > 0
    BY <1>1, <1>2, <2>2
  <2>4. a.qty = r.qty - fill /\ a.state = r.state /\ a.marginId = r.marginId
    BY <2>1 DEF PositionRec
  <2>5. a \in PositionRec
    BY <2>1, <2>3 DEF PositionRec
  <2>6. r.state = "open"
    BY <2>3
  <2> QED  BY <1>2, <2>3, <2>4, <2>5, <2>6
<1>3. CASE ~(broker = "spot" /\ r.qty > fill)
  <2>1. a = [r EXCEPT !.qty = 0, !.state = "closed"]
    BY <1>3 DEF AfterClose
  <2>2. a.qty = 0 /\ a.state = "closed" /\ a.marginId = r.marginId
    BY <2>1 DEF PositionRec
  <2>3. 0 \in 0..Qty /\ 0 <= r.qty /\ ~(0 > 0)
    BY <1>1
  <2>4. a \in PositionRec
    BY <2>1, <2>3 DEF PositionRec
  <2> QED  BY <1>3, <2>2, <2>3, <2>4
<1> QED  BY <1>2, <1>3

\* close_long succeeds: the position loses what was sold, or is closed.
LEMMA ClosedKeeps ==
  ASSUME LiveInv, NEW t \in Threads, Closed(t)
  PROVE  LiveInv'
<1>1. TypeInv /\ IdInv /\ ShapeInv /\ AnswerInv /\ ReportInv
  BY DEF LiveInv
<1> DEFINE c == call[t]
           fill == Fill(c)
           r == pos[c.pos]
           a == AfterClose(r, fill)
           s == IF broker = "spot" THEN fill ELSE r.qty
<1>2. /\ InCall(t) /\ c.op \in {"sell", "close"} /\ Succeeds(t) /\ Ends(t)
      /\ level' = Freed(t)
  BY DEF Closed
<1>3. /\ pos' = [pos EXCEPT ![c.pos] = a]
      /\ reported' = [reported EXCEPT ![c.pos].sold = reported[c.pos].sold + s]
  BY DEF Closed
<1>4. c \in CallRec /\ c \in Requests /\ c.pos \in Positions /\ RequestShape(c) /\ Closing(t)
  BY <1>1, <1>2, CallOf DEF ShapeInv, Closing
<1>5. PICK q \in Positions : q = c.pos
  BY <1>4
<1>6. /\ pos \in [Positions -> PositionRec] /\ reported \in [Positions -> [bought : Nat, sold : Nat]]
      /\ level \subseteq Positions /\ (\A p \in level : pos[p].state # "none")
      /\ broker \in {"spot", "margin"}
  BY <1>1 DEF TypeInv
<1>7. r = pos[q] /\ r \in PositionRec /\ r.state # "none" /\ (r.state = "open" <=> r.qty > 0)
  <2>1. r = pos[q] /\ r.state # "none"
    BY <1>1, <1>4, <1>5 DEF ShapeInv
  <2>2. r \in PositionRec
    BY <1>4, <1>6
  <2> QED  BY <1>1, <1>4, <2>1, <2>2 DEF TypeInv
<1>8. r.qty \in 0..Qty /\ Qty \in Nat /\ reported[q].sold \in Nat
  BY <1>6, <1>7, TradingAssumption DEF PositionRec
<1>9. broker = "spot" =>
        /\ c.op = "sell" /\ fill = c.says /\ c.says \in 1..Qty /\ c.says <= c.qty
        /\ Total(book, Settled(book, q)) + c.says <= Total(book, Settled(book, q))'
  BY <1>5, SpotSale
<1>10. broker = "margin" =>
        /\ c.op = "close" /\ c.phase = "order" /\ c.marginId = r.marginId
        /\ ~book[r.marginId].live
  <2> SUFFICES ASSUME broker = "margin"
               PROVE  c.op = "close" /\ c.phase = "order" /\ c.marginId = r.marginId /\ ~book[r.marginId].live
    OBVIOUS
  <2>1. c.op = "close"
    BY <1>2, <1>4 DEF RequestShape
  <2>2. c.phase = "order" /\ c.marginId = r.marginId
    BY <1>4, <2>1 DEF RequestShape
  <2>3. req[t].answer = "result"
    BY <1>2 DEF Succeeds, Returns
  <2>4. ~book[c.marginId].live
    BY <1>1, <1>2, <2>1, <2>3 DEF AnswerInv, SaysTrue
  <2> QED  BY <2>1, <2>2, <2>4
<1>11. c.qty \in Nat /\ c.qty > 0 /\ c.qty <= Qty
  BY <1>4, <1>8 DEF CallRec
<1>12. /\ a \in PositionRec /\ a.state # "none" /\ a.marginId = r.marginId /\ a.qty <= r.qty
       /\ a.state = "open" <=> a.qty > 0
       /\ broker = "margin" => a.state = "closed" /\ a.qty = 0
       /\ broker = "spot" /\ r.qty > fill => a.state = "open" /\ a.qty = r.qty - fill
       /\ broker = "spot" /\ ~(r.qty > fill) => a.state = "closed" /\ a.qty = 0
  <2>1. fill \in 1..Qty \/ broker = "margin"
    BY <1>6, <1>9
  <2> HIDE DEF r, fill
  <2> QED  BY <1>6, <1>7, <2>1, AfterCloseFacts
<1>13. Halfway(t) => a.qty = Net(q)
  <2> SUFFICES ASSUME Halfway(t) PROVE a.qty = Net(q)
    OBVIOUS
  <2>1. c.qty <= r.qty
    BY <1>4 DEF Halfway
  <2>2. CASE broker = "spot"
    <3>1. c.op = "sell" /\ c.op # "close" /\ fill = c.says /\ c.says \in 1..Qty /\ c.says <= c.qty
      BY <1>9, <2>2
    <3>2. PICK i \in DOMAIN book : /\ Stands(c, book[i]) /\ Net(c.pos) = pos[c.pos].qty + Signed(book[i])
                                   /\ book[i].filled = fill
      BY <1>2, <3>1, CalmExecuted
    <3>3. Signed(book[i]) = -fill
      BY <3>1, <3>2 DEF Signed, Stands
    <3>4. Net(q) = r.qty - fill
      BY <1>5, <1>8, <3>1, <3>2, <3>3
    <3> HIDE DEF r, fill, a, c
    <3>5. fill \in Nat /\ fill <= r.qty
      BY <1>8, <1>11, <2>1, <3>1
    <3> QED  BY <1>8, <1>12, <2>2, <3>4, <3>5
  <2>3. CASE broker = "margin"
    <3>1. r.qty > 0
      BY <1>8, <1>11, <2>1
    <3>2. r.qty = Qty
      BY <1>1, <1>5, <1>7, <2>3, <3>1 DEF ShapeInv
    <3>3. EndedOnce(c, req[t].answer)
      BY <1>2, <1>10, <2>3 DEF Halfway, Unplaced, PlacedOnce, Succeeds, Returns
    <3>4. Net(q) = r.qty - Qty
      BY <1>5, <3>3 DEF EndedOnce
    <3> HIDE DEF a, r
    <3> QED  BY <1>8, <1>12, <2>3, <3>2, <3>4
  <2> QED  BY <1>6, <2>2, <2>3
<1>14. /\ broker = "margin" => reported[q].sold + s \in {0, Qty}
       /\ broker = "spot" => reported[q].sold + s <= Total(book, Settled(book, q))'
       /\ s \in Nat
  <2>1. CASE broker = "spot"
    <3>1. s = c.says /\ c.says \in Nat
      BY <1>8, <1>9, <2>1
    <3>2. reported[q].sold <= Total(book, Settled(book, q))
      BY <1>1, <2>1 DEF ReportInv
    <3>3. Total(book, Settled(book, q)) \in Nat /\ Total(book, Settled(book, q))' \in Nat
      <4>1. BrokerStep(t, NoCall)
        BY <1>1, <1>2, EndsFrame
      <4> QED  BY <1>1, <4>1, SettledGrows
    <3>4. Total(book, Settled(book, q)) + c.says <= Total(book, Settled(book, q))'
      BY <1>9, <2>1
    <3> HIDE DEF s
    <3> QED  BY <1>8, <2>1, <3>1, <3>2, <3>3, <3>4
  <2>2. CASE broker = "margin"
    <3>1. s = r.qty
      BY <2>2
    <3>2. CASE r.qty > 0
      <4>1. reported[q].sold = 0 /\ r.qty = Qty
        BY <1>1, <1>5, <1>7, <2>2, <3>2 DEF ReportInv, ShapeInv
      <4> HIDE DEF r
      <4> QED  BY <1>8, <2>2, <3>1, <4>1
    <3>3. CASE ~(r.qty > 0)
      <4>1. reported[q].sold \in {0, Qty}
        BY <1>1, <2>2 DEF ReportInv
      <4>2. s = 0 /\ reported[q].sold + 0 = reported[q].sold
        BY <1>8, <3>1, <3>3
      <4> HIDE DEF s, r
      <4> QED  BY <2>2, <4>1, <4>2
    <3> QED  BY <3>2, <3>3
  <2> QED  BY <1>6, <2>1, <2>2
<1> HIDE DEF a, s, fill
<1>15. pos' = [pos EXCEPT ![q] = a] /\ reported' = [reported EXCEPT ![q].sold = reported[q].sold + s]
  BY <1>3, <1>5
<1>16. pos' \in [Positions -> PositionRec] /\ pos'[q] = a /\ \A p \in Positions \ {q} : pos'[p] = pos[p]
  BY <1>6, <1>12, <1>15
<1>17. /\ reported' \in [Positions -> [bought : Nat, sold : Nat]]
       /\ reported'[q].sold = reported[q].sold + s /\ reported'[q].bought = reported[q].bought
       /\ \A p \in Positions \ {q} : reported'[p] = reported[p]
  <2>1. reported[q].sold + s \in Nat
    BY <1>8, <1>14
  <2> QED  BY <1>6, <1>15, <2>1
<1>18. level' \subseteq Positions /\ \A p \in level' : pos'[p].state # "none"
  <2>1. level' \subseteq level
    BY <1>2 DEF Freed
  <2> QED  BY <1>6, <1>12, <1>16, <2>1
<1>19. EndedWell(t, q)
  <2>1. pos'[q].state = "open" <=> pos'[q].qty > 0
    BY <1>12, <1>16
  <2>2. pos'[q].state # "none" /\ pos'[q].marginId = pos[q].marginId /\ pos'[q].qty <= pos[q].qty
    BY <1>7, <1>12, <1>16
  <2>3. broker = "margin" => /\ pos'[q].marginId \in DOMAIN book /\ book[pos'[q].marginId].pos = q
                             /\ pos'[q].state = "closed"
    BY <1>1, <1>7, <1>12, <1>16 DEF ShapeInv
  <2>4. reported'[q].bought > 0 => \E i \in Buys(book, q) : reported'[q].bought <= book[i].filled
    BY <1>1, <1>17 DEF ReportInv
  <2>5. broker = "spot" => reported'[q].sold <= Total(book, Settled(book, q))'
    BY <1>14, <1>17
  <2>6. broker = "margin" => reported'[q].sold \in {0, Qty} /\ ~book[pos'[q].marginId].live
    BY <1>10, <1>12, <1>14, <1>16, <1>17
  <2>7. Halfway(t) => pos'[q].qty = Net(q)
    BY <1>13, <1>16
  <2> QED  BY <1>16, <1>17, <1>18, <2>1, <2>2, <2>3, <2>4, <2>5, <2>6, <2>7 DEF EndedWell
<1>20. On(t, q)
  BY <1>2, <1>5 DEF On
<1> QED  BY <1>2, <1>19, <1>20, EndKeeps

\* A call that comes to nothing has changed nothing at the exchange.
LEMMA NothingExecuted ==
  ASSUME LiveInv, NEW t \in Threads, InCall(t), Failed(t), Calm(call[t].pos), Halfway(t)
  PROVE  pos[call[t].pos].qty = Net(call[t].pos)
<1> DEFINE c == call[t]
<1>1. TypeInv /\ IdInv /\ ShapeInv /\ AnswerInv
  BY DEF LiveInv
<1>2. c \in CallRec /\ c \in Requests /\ c.pos \in Positions
  BY <1>1, CallOf
<1>3. Unplaced(c, req[t].answer) => pos[c.pos].qty = Net(c.pos)
  BY DEF Unplaced
<1>4. CASE Raises(t)
  <2>1. req[t].stage = "answered" /\ req[t].answer # "result"
    BY <1>4 DEF Raises
  <2>2. req[t].answer # "none"
    BY <1>1, <2>1 DEF TypeInv, Fresh
  <2>3. req[t].answer # "useless"
    BY <1>1 DEF AnswerInv, SaysTrue, Calm
  <2>4. req[t].answer = "error"
    BY <1>1, <2>1, <2>2, <2>3 DEF TypeInv, ClientTypeOK
  <2>5. ~PlacedOnce(c, req[t].answer)
    BY <1>2, <2>4 DEF PlacedOnce, CallRec
  <2>6. ~EndedOnce(c, req[t].answer)
    BY <2>1 DEF EndedOnce
  <2> QED  BY <1>3, <2>5, <2>6 DEF Halfway
<1>5. CASE Returns(t) /\ c.phase = "check" /\ c.says = 0
  <2>1. broker = "spot" /\ c.op \in Spot /\ req[t].answer = "result"
    BY <1>1, <1>2, <1>5, ChecksAreSpot DEF Returns
  <2>2. PlacedOnce(c, req[t].answer)
    BY <1>5, <2>1 DEF Halfway, Unplaced, EndedOnce, Spot
  <2>3. PICK i \in Of(c.id) : Net(c.pos) = pos[c.pos].qty + Signed(book[i]) /\ c.says = book[i].filled
    BY <1>5, <2>1, <2>2 DEF PlacedOnce
  <2>4. Signed(book[i]) = 0
    BY <1>5, <2>3 DEF Signed
  <2>5. pos[c.pos].qty \in Nat
    BY <1>1, <1>2, TradingAssumption DEF TypeInv, PositionRec
  <2> QED  BY <2>3, <2>4, <2>5
<1> QED  BY <1>4, <1>5 DEF Failed

\* A call fails: the broker changes nothing.
LEMMA FailsKeeps ==
  ASSUME LiveInv, NEW t \in Threads, Fails(t)
  PROVE  LiveInv'
<1>1. TypeInv /\ IdInv /\ ShapeInv /\ ReportInv
  BY DEF LiveInv
<1>2. /\ InCall(t) /\ Failed(t) /\ Ends(t) /\ pos' = pos /\ reported' = reported
      /\ level' = Freed(t) \/ level' = level
  BY DEF Fails
<1>3. call[t].pos \in Positions
  BY <1>1, <1>2, CallOf
<1>4. PICK q \in Positions : q = call[t].pos
  BY <1>3
<1>5. BrokerStep(t, NoCall)
  BY <1>1, <1>2, EndsFrame
<1>6. level' \subseteq level
  BY <1>2 DEF Freed
<1>7. /\ pos \in [Positions -> PositionRec] /\ reported \in [Positions -> [bought : Nat, sold : Nat]]
      /\ level \subseteq Positions /\ (\A p \in level : pos[p].state # "none")
      /\ pos[q].state = "open" <=> pos[q].qty > 0
  BY <1>1 DEF TypeInv
<1>8. pos[q].qty <= pos[q].qty
  <2>1. pos[q].qty \in Nat
    BY <1>7, TradingAssumption DEF PositionRec
  <2> QED  BY <2>1
<1>9. broker = "spot" => reported[q].sold <= Total(book, Settled(book, q))'
  <2>1. broker = "spot" => reported[q].sold <= Total(book, Settled(book, q))
    BY <1>1 DEF ReportInv
  <2>2. reported[q].sold \in Nat
    BY <1>7
  <2> QED  BY <1>1, <1>5, <2>1, <2>2, SettledGrows
<1>10. Calm(q) /\ Halfway(t) => pos[q].qty = Net(q)
  BY <1>2, <1>4, NothingExecuted
<1>11. EndedWell(t, q)
  <2>1. /\ pos[q].state = "none" => reported[q].sold = 0
        /\ reported[q].bought > 0 => \E i \in Buys(book, q) : reported[q].bought <= book[i].filled
        /\ broker = "margin" =>
             /\ reported[q].sold \in {0, Qty}
             /\ pos[q].state = "open" => reported[q].sold = 0
             /\ reported[q].sold > 0 => ~book[pos[q].marginId].live
    BY <1>1 DEF ReportInv
  <2>2. broker = "margin" /\ pos[q].state # "none" =>
          /\ pos[q].marginId \in DOMAIN book /\ book[pos[q].marginId].pos = q
          /\ pos[q].state = "open" => pos[q].qty = Qty
    BY <1>1 DEF ShapeInv
  <2> QED  BY <1>2, <1>6, <1>7, <1>8, <1>9, <1>10, <2>1, <2>2 DEF EndedWell
<1>12. On(t, q)
  BY <1>2, <1>4 DEF On
<1> QED  BY <1>2, <1>11, <1>12, EndKeeps

\* The grid finds its position closed: only its level changes.
LEMMA LevelKeeps ==
  ASSUME LiveInv, level' \subseteq level,
         UNCHANGED <<clientVars, broker, pos, reported, call, calls, worldVars, raced>>
  PROVE  LiveInv'
<1>1. UNCHANGED <<client, req, broker, pos, reported, call, calls, book, late, faults, touched, raced>>
  BY DEF clientVars, worldVars
<1>2. /\ \A p : Net(p)' = Net(p) /\ Settled(book, p)' = Settled(book, p) /\ Buys(book, p)' = Buys(book, p)
                /\ Total(book, Settled(book, p))' = Total(book, Settled(book, p))
      /\ \A id : Of(id)' = Of(id)
      /\ Requests' = Requests
      /\ \A t \in Threads : (InCall(t)' <=> InCall(t)) /\ (\A p : On(t, p)' <=> On(t, p))
  BY <1>1 DEF Net, Total, Buys, Sells, Settled, Of, Requests, InCall, On
<1>3. TypeInv'
  BY <1>1 DEF LiveInv, TypeInv, ClientTypeOK, Fresh, InCall
<1>4. IdInv'
  BY <1>1, <1>2 DEF LiveInv, IdInv
<1>5. ShapeInv'
  <2>1. /\ \A c : RequestShape(c)' <=> RequestShape(c)
        /\ \A i \in DOMAIN book : EntryShape(book[i])' <=> EntryShape(book[i])
        /\ \A t \in Threads : (Opening(t)' <=> Opening(t)) /\ (Closing(t)' <=> Closing(t))
    BY <1>1, <1>2 DEF RequestShape, EntryShape, Opening, Closing
  <2>2. Closing(GridThread)' => Closing(GridThread)
    BY <2>1, TradingAssumption
  <2> QED  BY <1>1, <1>2, <2>1, <2>2 DEF LiveInv, ShapeInv, On
<1>6. AnswerInv'
  BY <1>1 DEF LiveInv, AnswerInv, SaysTrue, InCall, Of
<1>7. ReportInv'
  BY <1>1, <1>2 DEF LiveInv, ReportInv
<1>8. CalmInv'
  <2>1. ASSUME NEW t \in Threads PROVE Halfway(t)' <=> Halfway(t)
    <3>1. Unplaced(call[t], req[t].answer)' <=> Unplaced(call[t], req[t].answer)
      BY <1>1 DEF Unplaced, Of, Net, Total, Buys, Sells
    <3>2. PlacedOnce(call[t], req[t].answer)' <=> PlacedOnce(call[t], req[t].answer)
      BY <1>1 DEF PlacedOnce, Of, Net, Total, Buys, Sells
    <3>3. EndedOnce(call[t], req[t].answer)' <=> EndedOnce(call[t], req[t].answer)
      BY <1>1 DEF EndedOnce, Net, Total, Buys, Sells
    <3>4. (Closing(t) => call[t].qty <= pos[call[t].pos].qty)' <=> (Closing(t) => call[t].qty <= pos[call[t].pos].qty)
      BY <1>1 DEF Closing, InCall
    <3> QED  BY <3>1, <3>2, <3>3, <3>4 DEF Halfway
  <2>2. \A p \in Positions : (Calm(p)' <=> Calm(p)) /\ (Reckoned(p) => Reckoned(p)')
    BY <1>1, <1>2, <2>1 DEF Calm, Reckoned
  <2> QED  BY <1>1, <2>2 DEF LiveInv, CalmInv
<1> QED  BY <1>3, <1>4, <1>5, <1>6, <1>7, <1>8 DEF LiveInv

\* At first nothing is open, asked for or in the book.
LEMMA InitLive == Init => LiveInv
<1> SUFFICES ASSUME Init PROVE LiveInv
  OBVIOUS
<1>1. /\ client \in Clients /\ req = [t \in Threads |-> NoRequest] /\ broker \in Brokers
      /\ pos = [p \in Positions |-> NoPosition] /\ level = {} /\ call = [t \in Threads |-> NoCall]
      /\ calls = 0 /\ book = <<>> /\ late = {} /\ faults = 0
      /\ reported = [p \in Positions |-> [bought |-> 0, sold |-> 0]] /\ touched = {} /\ raced = {}
  BY DEF Init, ClientInit
<1>2. \A t \in Threads : ~InCall(t)
  BY <1>1 DEF InCall
<1>3. Requests = {} /\ DOMAIN book = {}
  BY <1>1, <1>2 DEF Requests
<1>4. NoPosition \in PositionRec /\ NoPosition.qty = 0 /\ NoPosition.state = "none"
  BY TradingAssumption DEF NoPosition, PositionRec
<1>5. ClientTypeOK
  BY <1>1, ClientAssumption DEF ClientTypeOK, NoRequest
<1>6. TypeInv
  <2>1. broker \in {"spot", "margin"}
    BY <1>1, TradingAssumption
  <2>2. \A t \in Threads : req[t].stage = "idle" /\ req[t].answer = "none"
    BY <1>1 DEF NoRequest
  <2>3. book \in Seq(EntryRec)
    BY <1>1
  <2>4. ~(0 > 0) /\ 0 \in Nat
    OBVIOUS
  <2>5. \A t \in Threads : Fresh(t)
    BY <1>2, <2>2 DEF Fresh
  <2> QED  BY <1>1, <1>2, <1>4, <1>5, <2>1, <2>2, <2>3, <2>4, <2>5 DEF TypeInv
<1>7. IdInv /\ ShapeInv /\ AnswerInv
  BY <1>1, <1>2, <1>3, <1>4, TradingAssumption DEF IdInv, ShapeInv, AnswerInv, Opening, Closing
<1>8. \A p : Total(book, Settled(book, p)) \in Nat /\ Buys(book, p) = {} /\ Sells(book, p) = {}
  <2>1. book \in Seq(EntryRec)
    BY <1>1
  <2>2. \A p : Settled(book, p) \in SUBSET DOMAIN book
    BY DEF Settled, Sells
  <2> QED  BY <1>3, <2>1, <2>2, TotalType DEF Buys, Sells
<1>9. \A p : Net(p) = 0
  <2>1. book \in Seq(EntryRec) /\ {} \in SUBSET DOMAIN book
    BY <1>1
  <2>2. Total(book, {}) \in Nat
    BY <2>1, TotalType
  <2>3. Total(book, {}) - Total(book, {}) = 0
    BY <2>2
  <2> QED  BY <1>8, <2>3 DEF Net
<1>10. ReportInv
  <2>1. \A p \in Positions : reported[p].sold = 0 /\ reported[p].bought = 0
    BY <1>1
  <2>2. \A n \in Nat : 0 <= n
    OBVIOUS
  <2> QED  BY <1>8, <2>1, <2>2 DEF ReportInv
<1>11. CalmInv
  BY <1>1, <1>2, <1>4, <1>9 DEF CalmInv, Reckoned, On
<1> QED  BY <1>6, <1>7, <1>10, <1>11 DEF LiveInv

\* Every step of the specification keeps the invariant.
LEMMA NextKeepsLive == LiveInv /\ [Next]_vars => LiveInv'
<1> SUFFICES ASSUME LiveInv, [Next]_vars PROVE LiveInv'
  OBVIOUS
<1>1. ASSUME NEW t \in Threads, CallStep(t) PROVE LiveInv'
  <2>1. CASE RetriesRequest(t)
    BY <2>1, RetryKeeps
  <2>2. CASE DryRunAccepted(t) \/ NoFillReported(t)
    BY <2>2, GoesOnKeeps
  <2>3. CASE Opened(t)
    BY <2>3, OpenedKeeps
  <2>4. CASE Closed(t)
    BY <2>4, ClosedKeeps
  <2>5. CASE Fails(t)
    BY <2>5, FailsKeeps
  <2> QED  BY <1>1, <2>1, <2>2, <2>3, <2>4, <2>5 DEF CallStep
<1>2. ASSUME NEW p \in Positions, GridReconciles(p) PROVE LiveInv'
  <2>1. level' \subseteq level
    BY <1>2 DEF GridReconciles
  <2> QED  BY <1>2, <2>1, LevelKeeps DEF GridReconciles
<1>3. CASE UNCHANGED vars
  <2>1. level' \subseteq level /\ UNCHANGED <<clientVars, broker, pos, reported, call, calls, worldVars, raced>>
    BY <1>3 DEF vars, localVars
  <2> QED  BY <2>1, LevelKeeps
<1> QED  BY <1>1, <1>2, <1>3, StartKeeps, ExchangeKeeps, LateKeeps, ActsKeep DEF Next

\* broker.py, LiveBroker and LiveMarginBroker: they keep the invariant, whatever the threads do
\* and whatever becomes of their requests.
THEOREM LiveHolds == Spec => []LiveInv
BY InitLive, NextKeepsLive, PTL DEF Spec

\* broker.py:585, :665: for any number of threads, positions, retries and lost,
\* late or repeated answers the bot never believes in a unit bought or sold that
\* the exchange did not execute.  What was reported sold is covered by entries of
\* the sales that are over, each call by an entry of its own.
THEOREM NoPhantoms == Spec => []NoPhantomFills
<1>1. LiveInv => NoPhantomFills
  <2> SUFFICES ASSUME LiveInv, NEW p \in Positions
               PROVE  reported[p].bought <= Bought(p) /\ reported[p].sold <= Sold(p)
    BY DEF NoPhantomFills
  <2>0. TypeInv /\ ShapeInv /\ ReportInv
    BY DEF LiveInv
  <2>1. book \in Seq(EntryRec) /\ reported[p].bought \in Nat /\ reported[p].sold \in Nat
        /\ broker \in {"spot", "margin"}
    BY <2>0 DEF TypeInv
  <2> DEFINE B == Buys(book, p)
             S == Sells(book, p)
             C == Settled(book, p)
  <2>2. B \in SUBSET DOMAIN book /\ S \in SUBSET DOMAIN book /\ C \in SUBSET DOMAIN book /\ C \in SUBSET S
    BY DEF Buys, Sells, Settled
  <2>3. Total(book, B) \in Nat /\ Total(book, S) \in Nat /\ Total(book, C) \in Nat /\ Total(book, {}) \in Nat
    <3>1. {} \in SUBSET DOMAIN book
      OBVIOUS
    <3> QED  BY <2>1, <2>2, <3>1, TotalType
  <2>4. \A i \in DOMAIN book : book[i].filled \in Nat
    BY <2>1, BookFinite
  <2>5. ASSUME NEW T \in SUBSET DOMAIN book, NEW i \in T PROVE book[i].filled <= Total(book, T)
    <3> DEFINE U == {} \cup {i}
    <3>1. {} \in SUBSET DOMAIN book /\ i \in DOMAIN book \ {}
      OBVIOUS
    <3>2. Total(book, U) = Total(book, {}) + book[i].filled
      BY <2>1, <3>1, TotalAdd
    <3>3. U \in SUBSET DOMAIN book /\ \A j \in U : j \in T /\ book[j].filled <= book[j].filled
      BY <2>4
    <3> HIDE DEF U
    <3>4. Total(book, U) <= Total(book, T)
      BY <2>1, <3>3, TotalGrows
    <3>5. Total(book, T) \in Nat /\ book[i].filled \in Nat
      BY <2>1, <2>4, TotalType
    <3> QED  BY <2>3, <3>2, <3>4, <3>5
  <2>6. reported[p].bought <= Total(book, B)
    <3>1. CASE reported[p].bought > 0
      <4>1. PICK i \in B : reported[p].bought <= book[i].filled
        BY <2>0, <3>1 DEF ReportInv
      <4>2. book[i].filled <= Total(book, B) /\ book[i].filled \in Nat
        BY <2>2, <2>4, <2>5
      <4> HIDE DEF B
      <4> QED  BY <2>1, <2>3, <4>1, <4>2
    <3>2. CASE ~(reported[p].bought > 0)
      BY <2>1, <2>3, <3>2
    <3> QED  BY <3>1, <3>2
  <2>7. reported[p].sold <= Total(book, S)
    <3>1. CASE broker = "spot"
      <4>1. reported[p].sold <= Total(book, C)
        BY <2>0, <3>1 DEF ReportInv
      <4>2. \A j \in C : j \in S /\ book[j].filled <= book[j].filled
        BY <2>2, <2>4
      <4> HIDE DEF C, S
      <4>3. Total(book, C) <= Total(book, S)
        BY <2>1, <2>2, <4>2, TotalGrows
      <4> QED  BY <2>1, <2>3, <4>1, <4>3
    <3>2. CASE broker = "margin" /\ reported[p].sold > 0
      <4> DEFINE m == pos[p].marginId
      <4>1. pos[p].state # "none" /\ ~book[m].live /\ reported[p].sold = Qty
        BY <2>0, <3>2 DEF ReportInv
      <4>2. m \in DOMAIN book /\ book[m].pos = p
        BY <2>0, <3>2, <4>1 DEF ShapeInv
      <4>3. book[m].op = "open" /\ book[m].filled = Qty
        BY <2>0, <3>2, <4>2 DEF ShapeInv, EntryShape
      <4>4. m \in S
        BY <4>1, <4>2, <4>3 DEF Sells
      <4> HIDE DEF S, m
      <4>5. book[m].filled <= Total(book, S)
        BY <2>2, <2>5, <4>4
      <4> QED  BY <4>1, <4>3, <4>5
    <3>3. CASE ~(reported[p].sold > 0)
      BY <2>1, <2>3, <3>3
    <3> QED  BY <2>1, <3>1, <3>2, <3>3
  <2> QED  BY <2>6, <2>7, LedgerTotals
<1> QED  BY <1>1, LiveHolds, PTL

\* Between calls the bot's position is what the exchange holds for it, unless a
\* fault was about it or two threads closed it at once.
THEOREM LedgersInStep == Spec => []LedgersAgree
<1>1. LiveInv => LedgersAgree
  <2> SUFFICES ASSUME LiveInv, NEW p \in Positions, Untouched(p) PROVE pos[p].qty = Bought(p) - Sold(p)
    BY DEF LedgersAgree
  <2>1. Calm(p) /\ \A t \in Threads : ~On(t, p)
    BY DEF Untouched, Calm
  <2>2. pos[p].qty = Net(p)
    BY <2>1 DEF LiveInv, CalmInv, Reckoned
  <2> QED  BY <2>2, LedgerTotals DEF Net
<1> QED  BY <1>1, LiveHolds, PTL

\* grid_legacy.py:518: a grid lets go of a position that is still open only when
\* the exchange refused the order or filled it in part, or a fault was about it.
THEOREM LettingGo == Spec => LevelsLetGoWhenSold
<1> DEFINE LetGo(p) == \/ pos'[p].state = "closed"
                       \/ req[GridThread].answer = "error" \/ p \in touched
                       \/ \E i \in DOMAIN book : book[i].pos = p /\ book[i].filled < book[i].asked
<1>1. ASSUME LiveInv, [Next]_vars, NEW p \in level \ level' PROVE LetGo(p)
  <2>0. TypeInv /\ IdInv /\ ShapeInv /\ AnswerInv
    BY <1>1 DEF LiveInv
  <2>1. CASE \E t \in Threads : Closed(t)
    <3>1. PICK t \in Threads : Closed(t)
      BY <2>1
    <3>2. t = GridThread /\ p = call[t].pos
      BY <3>1 DEF Closed, Freed
    <3> DEFINE c == call[t]
    <3>3. InCall(t) /\ Closing(t) /\ c \in CallRec /\ p \in Positions /\ c.pos = p
          /\ Ends(t) /\ pos' = [pos EXCEPT ![c.pos] = AfterClose(pos[c.pos], Fill(c))]
      <4>1. InCall(t) /\ Closing(t)
        BY <3>1 DEF Closed, Closing
      <4>2. Ends(t) /\ pos' = [pos EXCEPT ![c.pos] = AfterClose(pos[c.pos], Fill(c))]
        BY <3>1 DEF Closed
      <4>3. c \in CallRec /\ c.pos \in Positions
        BY <2>0, <4>1, CallOf
      <4> QED  BY <3>2, <4>1, <4>2, <4>3
    <3>4. pos \in [Positions -> PositionRec]
      BY <2>0 DEF TypeInv
    <3>5. pos'[p] = AfterClose(pos[p], Fill(c)) /\ pos[p] \in PositionRec
      BY <3>3, <3>4
    <3>6. CASE broker = "spot" /\ pos[p].qty > Fill(c)
      <4>1. /\ Fill(c) = c.says
            /\ \E i \in DOMAIN book : book[i].pos = c.pos /\ book[i].filled = c.says /\ book[i].asked = c.qty
        BY <1>1, <3>1, <3>6, SpotSale
      <4>2. PICK i \in DOMAIN book : book[i].pos = p /\ book[i].filled = c.says /\ book[i].asked = c.qty
        BY <3>3, <4>1
      <4>3. pos[p].qty <= c.qty
        BY <2>0, <3>2, <3>3 DEF ShapeInv
      <4>4. pos[p].qty \in 0..Qty /\ c.qty \in 1..Qty /\ book[i].filled \in 0..Qty /\ Qty \in Nat
        BY <2>0, <3>3, <3>5, RequestFacts, TradingAssumption DEF PositionRec, CallRec, EntryRec
      <4>5. c.says < pos[p].qty
        BY <3>6, <4>1
      <4> HIDE DEF c
      <4>6. book[i].filled < book[i].asked
        BY <4>2, <4>3, <4>4, <4>5
      <4> QED  BY <4>2, <4>6
    <3>7. CASE ~(broker = "spot" /\ pos[p].qty > Fill(c))
      <4>1. pos'[p] = [pos[p] EXCEPT !.qty = 0, !.state = "closed"]
        BY <3>5, <3>7 DEF AfterClose
      <4> QED  BY <3>5, <4>1 DEF PositionRec
    <3> QED  BY <3>6, <3>7
  <2>2. CASE \E t \in Threads : Fails(t)
    <3>1. PICK t \in Threads : Fails(t)
      BY <2>2
    <3>2. t = GridThread /\ p = call[t].pos /\ InCall(t) /\ Failed(t)
      BY <3>1 DEF Fails, Freed
    <3>3. SaysTrue(t) /\ call[t] \in Requests
      BY <2>0, <3>2, CallOf DEF AnswerInv
    <3>4. CASE Raises(t)
      <4>1. req[t].answer \in {"none", "useless", "error"} /\ req[t].answer # "none"
        BY <2>0, <3>4 DEF Raises, TypeInv, ClientTypeOK, Fresh
      <4>2. req[t].answer = "useless" => p \in touched
        BY <3>2, <3>3 DEF SaysTrue
      <4> QED  BY <3>2, <4>1, <4>2
    <3>5. CASE Returns(t) /\ call[t].phase = "check" /\ call[t].says = 0
      <4>1. p \in touched \/ \E i \in Of(call[t].id) : book[i].filled = 0
        BY <3>2, <3>3, <3>5 DEF SaysTrue, Returns
      <4>2. CASE \E i \in Of(call[t].id) : book[i].filled = 0
        <5>1. PICK i \in Of(call[t].id) : book[i].filled = 0
          BY <4>2
        <5>2. i \in DOMAIN book /\ Stands(call[t], book[i]) /\ book[i] \in EntryRec
          BY <2>0, <3>3, RequestFacts DEF Of, IdInv
        <5>3. book[i].asked \in 1..Qty /\ Qty \in Nat
          BY <5>2, TradingAssumption DEF EntryRec
        <5>4. book[i].filled < book[i].asked
          BY <5>1, <5>3
        <5> QED  BY <3>2, <5>2, <5>4 DEF Stands
      <4> QED  BY <4>1, <4>2
    <3> QED  BY <3>2, <3>4, <3>5 DEF Failed
  <2>3. CASE \E q \in Positions : GridReconciles(q)
    <3>1. PICK q \in Positions : GridReconciles(q)
      BY <2>3
    <3>2. p = q /\ pos[p].state = "closed" /\ pos' = pos
      BY <3>1 DEF GridReconciles
    <3> QED  BY <3>2
  <2>4. CASE level \subseteq level'
    BY <2>4
  <2>5. level \subseteq level' \/ (\E t \in Threads : Closed(t) \/ Fails(t)) \/ \E q \in Positions : GridReconciles(q)
    <3>1. ASSUME NEW t \in Threads, CallStep(t) PROVE level \subseteq level' \/ Closed(t) \/ Fails(t)
      BY <3>1 DEF CallStep, RetriesRequest, Rest, localVars, DryRunAccepted, NoFillReported, GoesOn, Opened
    <3>2. ASSUME NEW t \in Threads, Start(t) PROVE level' = level
      BY <3>2 DEF Start, OpenLong, GridSells, CloseLong, Begin, localVars
    <3>3. ASSUME NEW t \in Threads, Exchange(t) PROVE level' = level
      BY <3>3 DEF Exchange, localVars
    <3>4. LateArrival \/ ExchangeActs \/ UNCHANGED vars => level' = level
      BY DEF LateArrival, ExchangeActs, vars, localVars
    <3> QED  BY <1>1, <3>1, <3>2, <3>3, <3>4 DEF Next
  <2> QED  BY <2>1, <2>2, <2>3, <2>4, <2>5
<1>2. LiveInv /\ [Next]_vars => [\A p \in level \ level' :
          \/ pos'[p].state = "closed"
          \/ req[GridThread].answer = "error" \/ p \in touched
          \/ \E i \in DOMAIN book : book[i].pos = p /\ book[i].filled < book[i].asked]_vars
  BY <1>1
<1> QED  BY <1>2, LiveHolds, PTL DEF Spec, LevelsLetGoWhenSold

\* Types; a level is held, or a call is under way, by a position that was opened.
THEOREM LiveTypesRight == Spec => []LiveTypeOK
<1>1. LiveInv => LiveTypeOK
  BY DEF LiveInv, TypeInv, LiveTypeOK, PositionRec
<1> QED  BY <1>1, LiveHolds, PTL
=============================================================================
