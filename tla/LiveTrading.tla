----------------------------- MODULE LiveTrading -----------------------------
(***************************************************************************)
(* LiveBroker and LiveMarginBroker of bot/broker.py: positions opened and  *)
(* closed on the real exchange, through the client of ApiClient.  Several  *)
(* threads call the broker at once: the engine's tick, the grids' price    *)
(* thread and HTTP handlers.                                               *)
(*                                                                         *)
(* The exchange is outside the repository.  Its book is what it has done;  *)
(* answers are lost, requests arrive late, orders are refused, filled in   *)
(* part or filled only after the answer, and it closes margin positions by *)
(* itself.  Nothing in the code says whether it refuses a client id that   *)
(* it has seen.                                                            *)
(***************************************************************************)
EXTENDS ApiClient, Sequences, FiniteSets, Functions

CONSTANTS
    Positions,
    GridThread,   \* the grids' price thread
    Qty,          \* units of an order that opens
    DedupClients, \* the clients whose exchange refuses a client_id it has seen
    Brokers,      \* which of "spot" and "margin" are considered
    MaxCalls,     \* bound on the calls of the broker
    MaxFaults     \* bound on the faults of network and exchange

ASSUME TradingAssumption ==
    /\ GridThread \in Threads
    /\ Qty \in Nat \ {0} /\ DedupClients \subseteq Clients
    /\ Brokers \subseteq {"spot", "margin"} /\ Brokers # {}
    /\ MaxCalls \in Nat /\ MaxFaults \in Nat

VARIABLES
    broker,       \* engine.broker
    pos,          \* broker.positions
    level,        \* the positions that a grid level holds
    call,         \* the broker call each thread is in
    calls,        \* number of calls so far
    book,         \* the exchange: what it did, in order
    late,         \* requests the client has given up that are still on their way
    faults,       \* number of faults so far
    reported,     \* by position: units the broker was told bought and sold
    touched,      \* positions that a fault was about
    raced         \* positions that two threads closed at once

localVars == <<pos, level, reported>>
worldVars == <<book, late, faults, touched>>
vars == <<clientVars, broker, localVars, call, calls, worldVars, raced>>

NoPosition == [state |-> "none", qty |-> 0, marginId |-> 0]
NoCall == [op |-> "none"]

InCall(t) == call[t] # NoCall
On(t, p) == InCall(t) /\ call[t].pos = p

-----------------------------------------------------------------------------
(* The exchange *)

Spot == {"buy", "sell"}
Entry(c, filled, live) ==
    [op |-> c.op, pos |-> c.pos, id |-> c.id, asked |-> c.qty, filled |-> filled, live |-> live]

Of(id) == {i \in DOMAIN book : book[i].id = id}
Known(id) == \E i \in Of(id) : book[i].op \in Spot

\* What carrying out request c makes of the book, and what the answer says:
\* units executed, or the id of a margin position.  An order may be filled in
\* part or not yet, and the answer may say nothing of a fill.
Placed(c) ==
    {[book |-> Append(book, Entry(c, f, f = 0)), says |-> s] : f \in 0..c.qty, s \in {0, 1}}
Outcomes(c) ==
    CASE c.phase = "check" -> {[book |-> book, says |-> book[i].filled] : i \in Of(c.id)}
      [] c.phase = "dry_run" -> {[book |-> book, says |-> 0]}
      [] c.phase = "order" /\ c.op \in Spot ->
           {[o EXCEPT !.says = @ * o.book[Len(o.book)].filled] : o \in Placed(c)}
      [] c.phase = "order" /\ c.op = "open" ->
           {[book |-> Append(book, Entry(c, c.qty, TRUE)), says |-> Len(book) + 1]}
      [] c.phase = "order" /\ c.op = "close" ->
           {[book |-> [book EXCEPT ![c.marginId].live = FALSE], says |-> 0]}

Dedup == client \in DedupClients

\* An id it has seen, if it looks, an order it does not know and a margin
\* position that is closed: these it refuses.  It may refuse anything else.
Accepts(c) ==
    CASE c.phase = "check" -> Known(c.id)
      [] c.phase = "order" /\ c.op \in Spot -> ~(Dedup /\ Known(c.id))
      [] c.phase = "order" /\ c.op = "close" -> book[c.marginId].live
      [] OTHER -> TRUE

Fault(p) ==
    /\ faults < MaxFaults
    /\ faults' = faults + 1
    /\ touched' = touched \cup {p}

\* The exchange carries the request out and says so.
Serve(t) ==
    /\ Answered(t, "result")
    /\ Accepts(call[t])
    /\ \E o \in Outcomes(call[t]) :
         /\ book' = o.book
         /\ call' = [call EXCEPT ![t].says = o.says]
    /\ UNCHANGED <<late, faults, touched>>

Refuse(t) ==
    /\ Answered(t, "refused")
    /\ IF call[t].phase = "check" /\ Known(call[t].id)
       THEN Fault(call[t].pos) ELSE UNCHANGED <<faults, touched>>
    /\ UNCHANGED <<book, late, call>>

\* It carries the request out, and the answer is of no use.
ServeInVain(t, a) ==
    /\ Answered(t, a)
    /\ Accepts(call[t])
    /\ \E o \in Outcomes(call[t]) : book' = o.book
    /\ Fault(call[t].pos)
    /\ UNCHANGED <<late, call>>

\* It does not, or not yet: the client may give up a request that arrives later.
Miss(t, a) ==
    /\ Answered(t, a)
    /\ \/ UNCHANGED late
       \/ a = "nothing" /\ call[t].phase = "order" /\ late' = late \cup {call[t]}
    /\ Fault(call[t].pos)
    /\ UNCHANGED <<book, call>>

Exchange(t) ==
    /\ \/ Serve(t)
       \/ Refuse(t)
       \/ \E a \in Answers \ {"result", "refused"} : ServeInVain(t, a) \/ Miss(t, a)
    /\ UNCHANGED <<client, broker, localVars, calls, raced>>

LateArrival ==
    /\ \E c \in late :
         /\ late' = late \ {c}
         /\ IF Accepts(c) THEN \E o \in Outcomes(c) : book' = o.book ELSE UNCHANGED book
    /\ UNCHANGED <<clientVars, broker, localVars, call, calls, faults, touched, raced>>

\* An order that was not filled is; a margin position reaches its stop or its
\* target, or is liquidated.
ExchangeActs ==
    /\ \E i \in DOMAIN book :
         /\ book[i].live
         /\ book' = IF book[i].op \in Spot
                    THEN [book EXCEPT ![i].filled = book[i].asked, ![i].live = FALSE]
                    ELSE [book EXCEPT ![i].live = FALSE]
         /\ Fault(book[i].pos)
    /\ UNCHANGED <<clientVars, broker, localVars, call, calls, late, raced>>

-----------------------------------------------------------------------------
(* The broker's calls *)

Begin(t, c) ==
    /\ ~InCall(t) /\ calls < MaxCalls
    /\ calls' = calls + 1
    /\ call' = [call EXCEPT ![t] = c]
    /\ req' = [req EXCEPT ![t] = Ask(@)]
    /\ UNCHANGED <<client, broker, localVars, worldVars>>

Call(op, p, qty, first) ==
    [op |-> op, pos |-> p, qty |-> qty, id |-> calls + 1, marginId |-> pos[p].marginId,
     phase |-> first, says |-> 0]

\* open_long of a position no other thread knows of yet; the margin broker
\* asks the exchange for a dry run first.
OpenLong(t, p) ==
    /\ pos[p].state = "none" /\ \A u \in Threads : ~On(u, p)
    /\ Begin(t, IF broker = "spot" THEN Call("buy", p, Qty, "order")
                ELSE Call("open", p, Qty, "dry_run"))
    /\ UNCHANGED raced

\* close_long of a position or a part of it.  The margin broker drops the
\* quantity and closes by id.
CloseLong(t, p, qty) ==
    /\ pos[p].state = "open" /\ qty \in 1..pos[p].qty
    /\ Begin(t, IF broker = "spot" THEN Call("sell", p, qty, "order")
                ELSE Call("close", p, pos[p].qty, "order"))
    /\ raced' = IF \E u \in Threads : On(u, p) THEN raced \cup {p} ELSE raced

\* _do_sell of the grid whose level holds the position.
GridSells(p) == p \in level /\ CloseLong(GridThread, p, pos[p].qty)

\* _do_sell finds the position closed: the level is reset.
GridReconciles(p) ==
    /\ p \in level /\ pos[p].state = "closed"
    /\ ~InCall(GridThread)
    /\ level' = level \ {p}
    /\ UNCHANGED <<clientVars, broker, pos, reported, call, calls, worldVars, raced>>

\* The broker's next request within the call.
GoesOn(t, phase) ==
    /\ call' = [call EXCEPT ![t].phase = phase, ![t].says = 0]
    /\ req' = [req EXCEPT ![t] = Ask(@)]
    /\ UNCHANGED <<client, broker, localVars, calls, worldVars, raced>>

DryRunAccepted(t) == Returns(t) /\ call[t].phase = "dry_run" /\ GoesOn(t, "order")

\* FIX(C2-fill): an answer without a fill is looked into.
NoFillReported(t) ==
    /\ Returns(t) /\ call[t].phase = "order" /\ call[t].op \in Spot /\ call[t].says = 0
    /\ GoesOn(t, "check")

Ends(t) ==
    /\ call' = [call EXCEPT ![t] = NoCall]
    /\ req' = [req EXCEPT ![t] = NoRequest]
    /\ UNCHANGED <<client, broker, calls, worldVars, raced>>

\* Seeded fault: an order that is answered counts as filled.
FillAsked(c) == c.qty

\* The units the broker takes for executed.
Fill(c) == IF c.op \in Spot THEN c.says ELSE c.qty

Succeeds(t) ==
    /\ Returns(t) /\ call[t].phase # "dry_run"
    /\ call[t].op \in Spot => call[t].says > 0

Opened(t) ==
    LET c == call[t]
    IN  /\ InCall(t) /\ c.op \in {"buy", "open"} /\ Succeeds(t)
        /\ pos' = [pos EXCEPT ![c.pos] =
               [state |-> "open", qty |-> Fill(c), marginId |-> IF c.op = "open" THEN c.says ELSE 0]]
        /\ reported' = [reported EXCEPT ![c.pos].bought = Fill(c)]
        /\ level' = IF t = GridThread THEN level \cup {c.pos} ELSE level
        /\ Ends(t)

\* Seeded fault: whatever was sold, the position is closed.
SoldOut(r, fill) == [r EXCEPT !.qty = 0, !.state = "closed"]

\* A spot position shrinks by what was sold; a margin position is gone.
AfterClose(r, fill) ==
    IF broker = "spot" /\ r.qty > fill
    THEN [r EXCEPT !.qty = @ - fill]
    ELSE [r EXCEPT !.qty = 0, !.state = "closed"]

\* Seeded fault: a close by anybody frees the level.
FreedByAnybody(t) == level \ {call[t].pos}

\* Whatever came of the close, the grid that asked for it frees the level.
Freed(t) == IF t = GridThread THEN level \ {call[t].pos} ELSE level

Closed(t) ==
    LET c == call[t]
    IN  /\ InCall(t) /\ c.op \in {"sell", "close"} /\ Succeeds(t)
        /\ pos' = [pos EXCEPT ![c.pos] = AfterClose(@, Fill(c))]
        /\ reported' = [reported EXCEPT ![c.pos].sold =
               @ + IF broker = "spot" THEN Fill(c) ELSE pos[c.pos].qty]
        /\ level' = Freed(t)
        /\ Ends(t)

\* Seeded fault: nothing is done about an order that stays unfilled.
FailedByError(t) == Raises(t)

\* The call has come to nothing: an error, or no fill after a look into it.
Failed(t) == Raises(t) \/ (Returns(t) /\ call[t].phase = "check" /\ call[t].says = 0)

\* open_long returns False and close_long 0.0: nothing changes in the account.
Fails(t) ==
    LET c == call[t]
    IN  /\ InCall(t)
        /\ Failed(t)
        /\ IF c.op \in {"sell", "close"}
           THEN level' = Freed(t) ELSE UNCHANGED level
        /\ UNCHANGED <<pos, reported>>
        /\ Ends(t)

-----------------------------------------------------------------------------
Rest == UNCHANGED <<broker, localVars, call, calls, worldVars, raced>>

RetriesRequest(t) == Retry(t) /\ Rest

Start(t) == \E p \in Positions :
    \/ OpenLong(t, p)
    \/ IF t = GridThread THEN GridSells(p) ELSE \E qty \in 1..Qty : CloseLong(t, p, qty)

CallStep(t) ==
    \/ RetriesRequest(t)
    \/ DryRunAccepted(t) \/ NoFillReported(t)
    \/ Opened(t) \/ Closed(t) \/ Fails(t)

Init ==
    /\ ClientInit
    /\ broker \in Brokers
    /\ pos = [p \in Positions |-> NoPosition]
    /\ level = {}
    /\ call = [t \in Threads |-> NoCall]
    /\ calls = 0
    /\ book = <<>>
    /\ late = {}
    /\ faults = 0
    /\ reported = [p \in Positions |-> [bought |-> 0, sold |-> 0]]
    /\ touched = {} /\ raced = {}

Next ==
    \/ \E t \in Threads : Start(t) \/ CallStep(t) \/ Exchange(t)
    \/ \E p \in Positions : GridReconciles(p)
    \/ LateArrival \/ ExchangeActs

Spec == Init /\ [][Next]_vars

\* A thread in a call goes on, time passes, and a request is answered or
\* times out (timeout_sec); nobody has to call, and nothing has to arrive late.
Fairness ==
    /\ \A t \in Threads : WF_vars(CallStep(t)) /\ WF_vars(Exchange(t))

FairSpec == Spec /\ Fairness

-----------------------------------------------------------------------------
(* Properties *)

Units(S(_)) == SumFunction([i \in {j \in DOMAIN book : S(book[j])} |-> book[i].filled])
Bought(p) == Units(LAMBDA e : e.pos = p /\ e.op \in {"buy", "open"})
Sold(p) == Units(LAMBDA e : e.pos = p /\ (e.op = "sell" \/ (e.op = "open" /\ ~e.live)))

Untouched(p) == p \notin touched \cup raced /\ \A t \in Threads : ~On(t, p)

\* Types; a level is held, or a call is under way, by a position that was opened.
LiveTypeOK ==
    /\ ClientTypeOK
    /\ \A p \in Positions :
         /\ pos[p].state \in {"none", "open", "closed"} /\ pos[p].qty \in 0..Qty
         /\ pos[p].state = "open" <=> pos[p].qty > 0
    /\ \A t \in Threads : req[t].stage # "idle" <=> InCall(t)
    /\ \A p \in level : pos[p].state # "none"

\* broker.py:585 "NEVER fabricate a fill", broker.py:665 "same no-phantom-fill
\* rule as the open path": whatever answers are lost, late or repeated, the bot
\* never believes in a unit bought or sold that the exchange did not execute.
NoPhantomFills == \A p \in Positions :
    reported[p].bought <= Bought(p) /\ reported[p].sold <= Sold(p)

\* Between calls the bot's position is exactly what the exchange holds for it,
\* partial fills and refusals included, unless a fault of the network or of the
\* exchange was about it or two threads closed it at once.
LedgersAgree == \A p \in Positions :
    Untouched(p) => pos[p].qty = Bought(p) - Sold(p)

\* grid_legacy.py:518 resets the level whatever close_long returns: a grid lets
\* go of a position that is still open only when the exchange refused the order
\* or filled it in part, or a fault was about the position.
LevelsLetGoWhenSold == [][\A p \in level \ level' :
    \/ pos'[p].state = "closed"
    \/ req[GridThread].answer = "error" \/ p \in touched
    \/ \E i \in DOMAIN book : book[i].pos = p /\ book[i].filled < book[i].asked]_vars

\* Every call of the broker returns: attempts are counted, and the rate limit
\* lets each thread through in the end.
CallsReturn == \A t \in Threads : InCall(t) ~> ~InCall(t)
=============================================================================
