-------------------------- MODULE ModeSwitch_proofs --------------------------
(***************************************************************************)
(* What holds of mode switches for any number of HTTP threads, brokers and *)
(* restarts, and any amounts.                                              *)
(***************************************************************************)
EXTENDS ModeSwitch, SequenceTheorems, TLAPS

-----------------------------------------------------------------------------
(* Types *)

\* The requests that a handler works on, with the stages it yields at.
Ops == {"live", "paper", "kind", "set", "reset"}
Works == [op : Ops, kind : Kinds, stage : {"asking", "swapped", "cleared"},
          made : Nat, amount : 0..MaxCash]

\* A request that has swapped the broker knows which one it has made; only the
\* way to real trading asks before it does.
Made(w) ==
    /\ w.stage = "asking" <=> w.made = NoBroker
    /\ w.stage = "asking" => w.op = "live"
    /\ w.stage # "asking" => /\ w.made \in DOMAIN accounts
                             /\ accounts[w.made] = Account(w.op = "live", w.kind)

\* Every handler is idle or in the middle of a request.
WorkOK == /\ work \in [Handlers -> Works \cup {Idle}]
          /\ \A h \in Handlers : work[h] # Idle => Made(work[h])
          /\ overlapped \in BOOLEAN /\ lapsed \in BOOLEAN
          /\ enabled \in BOOLEAN /\ boots \in Nat

\* Types, of the handlers too.
TypeInv == ModeTypeOK /\ WorkOK

\* Idle is no work.
LEMMA IdleIsNoWork == Idle \notin Works
BY DEF Idle, Works, Ops

\* The capital an account is opened or left with is within the bound.
LEMMA CapitalType ==
  /\ ModeTypeOK => \A k \in Kinds : PaperCapital(k) \in 0..MaxCash
  /\ \A n \in Int : Max({0, n}) \in Nat
<1>1. ASSUME ModeTypeOK, NEW k \in Kinds PROVE PaperCapital(k) \in 0..MaxCash
  <2>1. saved[k] \in 0..MaxCash \cup {Unsaved}
    BY <1>1 DEF ModeTypeOK
  <2> QED  BY <2>1, ModeAssumption DEF PaperCapital
<1>2. ASSUME NEW n \in Int PROVE Max({0, n}) \in Nat
  <2>1. \E x \in {0, n} : \A y \in {0, n} : x >= y
    OBVIOUS
  <2> QED  BY <2>1 DEF Max
<1> QED  BY <1>1, <1>2

\* A new broker is the last of the list, and the ones before it stay.
LEMMA NewBroker ==
  ASSUME TypeInv, NEW a \in [live : BOOLEAN, kind : Kinds], accounts' = Append(accounts, a)
  PROVE  /\ accounts' \in Seq([live : BOOLEAN, kind : Kinds])
         /\ Len(accounts') \in DOMAIN accounts' /\ accounts'[Len(accounts')] = a
         /\ Len(accounts') \in Nat /\ Len(accounts') # NoBroker
         /\ DOMAIN accounts \subseteq DOMAIN accounts'
         /\ \A i \in DOMAIN accounts : accounts'[i] = accounts[i]
<1>1. accounts \in Seq([live : BOOLEAN, kind : Kinds])
  BY DEF TypeInv, ModeTypeOK
<1> QED  BY <1>1 DEF NoBroker

\* What a swap does, whichever handler makes it: the broker is the one the
\* handler has made, and what it has made is what it says.
LEMMA SwapMakes ==
  ASSUME TypeInv, NEW h \in Handlers, NEW w \in Works, NEW live \in BOOLEAN,
         NEW amount \in 0..MaxCash, Swaps(h, w, live, amount), live = (w.op = "live")
  PROVE  /\ accounts' \in Seq([live : BOOLEAN, kind : Kinds])
         /\ broker' \in DOMAIN accounts' /\ accounts'[broker'] = Account(live, w.kind)
         /\ DOMAIN accounts \subseteq DOMAIN accounts'
         /\ \A i \in DOMAIN accounts : accounts'[i] = accounts[i]
         /\ work' \in [Handlers -> Works \cup {Idle}]
         /\ work'[h] # Idle /\ work'[h].stage = "swapped" /\ work'[h].made = broker'
         /\ work'[h].op = w.op /\ work'[h].kind = w.kind /\ work'[h].amount = w.amount
         /\ \A g \in Handlers \ {h} : work'[g] = work[g]
         /\ \A g \in Handlers : work'[g] # Idle => Made(work[g])'
<1> DEFINE a == Account(live, w.kind)
           v == [w EXCEPT !.stage = "swapped", !.made = broker']
<1>1. a \in [live : BOOLEAN, kind : Kinds] /\ accounts' = Append(accounts, a)
      /\ broker' = Len(accounts') /\ work' = [work EXCEPT ![h] = v]
  BY DEF Swaps, Account, Works
<1> HIDE DEF a
<1>2. /\ accounts' \in Seq([live : BOOLEAN, kind : Kinds])
      /\ broker' \in DOMAIN accounts' /\ accounts'[broker'] = a
      /\ broker' \in Nat /\ broker' # NoBroker
      /\ DOMAIN accounts \subseteq DOMAIN accounts'
      /\ \A i \in DOMAIN accounts : accounts'[i] = accounts[i]
  BY <1>1, NewBroker
<1>3. /\ v \in Works /\ v.stage = "swapped" /\ v.made = broker'
      /\ v.op = w.op /\ v.kind = w.kind /\ v.amount = w.amount
  BY <1>2 DEF Works
<1>4. v # Idle
  BY <1>3, IdleIsNoWork
<1> HIDE DEF v
<1>5. work' \in [Handlers -> Works \cup {Idle}] /\ work'[h] = v
      /\ \A g \in Handlers \ {h} : work'[g] = work[g]
  BY <1>1, <1>3 DEF TypeInv, WorkOK
<1>6. ASSUME NEW g \in Handlers, work'[g] # Idle PROVE Made(work[g])'
  <2>1. CASE g = h
    <3>1. accounts'[v.made] = Account(v.op = "live", v.kind)
      BY <1>2, <1>3 DEF a
    <3> QED  BY <1>2, <1>3, <1>5, <2>1, <3>1 DEF Made
  <2>2. CASE g # h
    <3>1. work'[g] = work[g]
      BY <1>5, <2>2
    <3>2. Made(work[g])
      BY <1>6, <3>1 DEF TypeInv, WorkOK
    <3> QED  BY <1>2, <3>1, <3>2 DEF Made
  <2> QED  BY <2>1, <2>2
<1> QED  BY <1>2, <1>3, <1>4, <1>5, <1>6 DEF a

\* The types after a swap.
LEMMA SwapKeepsTypes ==
  ASSUME TypeInv, NEW h \in Handlers, NEW w \in Works, NEW live \in BOOLEAN,
         NEW amount \in 0..MaxCash, Swaps(h, w, live, amount), live = (w.op = "live"),
         saved' \in [Kinds -> 0..MaxCash \cup {Unsaved}],
         lastMode' \in Kinds \cup {"paper", "none"}, overlapped' \in BOOLEAN
  PROVE  TypeInv'
<1>1. cash' = amount /\ capital' = amount
      /\ UNCHANGED <<manual, engineVars, flagVars, lapsed, boots>>
  BY DEF Swaps
<1>2. /\ accounts' \in Seq([live : BOOLEAN, kind : Kinds])
      /\ broker' \in DOMAIN accounts'
      /\ DOMAIN accounts \subseteq DOMAIN accounts'
      /\ \A i \in DOMAIN accounts : accounts'[i] = accounts[i]
      /\ work' \in [Handlers -> Works \cup {Idle}]
      /\ \A g \in Handlers : work'[g] # Idle => Made(work[g])'
  BY SwapMakes
<1>3. ModeTypeOK'
  BY <1>1, <1>2 DEF TypeInv, ModeTypeOK, engineVars, flagVars
<1>4. WorkOK'
  BY <1>1, <1>2 DEF TypeInv, WorkOK, flagVars
<1> QED  BY <1>3, <1>4 DEF TypeInv

\* A request that swaps at once begins with a work of its kind.
LEMMA WorkType ==
  ASSUME NEW op \in Ops, NEW k \in Kinds
  PROVE  /\ Work(op, k) \in Works /\ Work(op, k).op = op /\ Work(op, k).kind = k
         /\ \A amount \in 0..MaxCash :
              LET w == [Work(op, k) EXCEPT !.amount = amount]
              IN  w \in Works /\ w.op = op /\ w.kind = k /\ w.amount = amount
<1>1. 0 \in 0..MaxCash
  BY ModeAssumption
<1> QED  BY <1>1 DEF Work, Works, NoBroker

\* The account starts typed.
LEMMA InitTypes == Init => TypeInv
<1> SUFFICES ASSUME Init PROVE TypeInv
  OBVIOUS
<1>1. Account(FALSE, BootKind) \in [live : BOOLEAN, kind : Kinds]
  BY ModeAssumption DEF Account
<1>2. accounts[1] = Account(FALSE, BootKind) /\ DOMAIN accounts = {1}
      /\ accounts \in Seq([live : BOOLEAN, kind : Kinds])
  <2> DEFINE a == Account(FALSE, BootKind)
             A == [live : BOOLEAN, kind : Kinds]
  <2>1. accounts = <<a>> /\ a \in A
    BY <1>1 DEF Init
  <2> HIDE DEF a, A
  <2>2. <<a>>[1] = a /\ DOMAIN <<a>> = {1} /\ <<a>> \in Seq(A)
    BY <2>1
  <2>3. accounts[1] = a /\ DOMAIN accounts = {1} /\ accounts \in Seq(A)
    BY <2>1, <2>2
  <2> QED  BY <2>3 DEF a, A
<1>3. ~accounts[1].live
  BY <1>2 DEF Account
<1>4. ModeTypeOK
  <2>1. saved \in [Kinds -> 0..MaxCash \cup {Unsaved}]
    BY DEF Init
  <2>2. cash \in 0..MaxCash /\ capital \in 0..MaxCash
    BY ModeAssumption DEF Init
  <2>3. paperKind \in Kinds
    BY ModeAssumption DEF Init
  <2>4. /\ broker = 1 /\ manual = 1 /\ positions = {} /\ opening = NoBroker
        /\ mode = "paper" /\ lastMode = "none"
    BY DEF Init
  <2> QED  BY <1>2, <1>3, <2>1, <2>2, <2>3, <2>4 DEF ModeTypeOK
<1>5. WorkOK
  BY DEF Init, WorkOK
<1> QED  BY <1>4, <1>5 DEF TypeInv

\* A tick and a manual order keep the types.
LEMMA TradeTypes ==
  ASSUME TypeInv, Tick \/ ManualTrade
  PROVE  TypeInv'
<1>1. \A a, d : Moves(a, d) => cash' \in 0..MaxCash
  BY DEF Moves, TypeInv, ModeTypeOK
<1>2. CASE TickOpens
  <2>1. cash' \in 0..MaxCash
    BY <1>1, <1>2 DEF TickOpens
  <2> QED  BY <1>2, <2>1 DEF TickOpens, TypeInv, ModeTypeOK, WorkOK, Made, flagVars, savedVars
<1>3. CASE TickKeeps
  BY <1>3 DEF TickKeeps, TypeInv, ModeTypeOK, WorkOK, Made, flagVars, savedVars, moneyVars
<1>4. CASE TickSaves
  <2>1. SavedCash \in [Kinds -> 0..MaxCash \cup {Unsaved}]
    BY DEF SavedCash, TypeInv, ModeTypeOK
  <2> QED  BY <1>4, <2>1 DEF TickSaves, TypeInv, ModeTypeOK, WorkOK, Made, flagVars, engineVars, moneyVars
<1>5. ASSUME NEW p \in positions, TickExits(p) PROVE TypeInv'
  <2>1. cash' \in 0..MaxCash
    BY <1>1, <1>5 DEF TickExits
  <2> QED  BY <1>5, <2>1 DEF TickExits, TypeInv, ModeTypeOK, WorkOK, Made, flagVars, savedVars
<1>6. CASE ManualTrade
  <2>1. cash' \in 0..MaxCash
    BY <1>1, <1>6 DEF ManualTrade
  <2> QED  BY <1>6, <2>1 DEF ManualTrade, TypeInv, ModeTypeOK, WorkOK, Made, flagVars, savedVars, engineVars
<1> QED  BY <1>2, <1>3, <1>4, <1>5, <1>6 DEF Tick

\* A request keeps them.
LEMMA RequestTypes ==
  ASSUME TypeInv, NEW h \in Handlers, Request(h)
  PROVE  TypeInv'
<1>0. /\ \A k \in Kinds : PaperCapital(k) \in 0..MaxCash
      /\ Starts(h) => overlapped' \in BOOLEAN
      /\ paperKind \in Kinds /\ saved \in [Kinds -> 0..MaxCash \cup {Unsaved}]
      /\ lastMode \in Kinds \cup {"paper", "none"}
      /\ "spot" \in Kinds /\ Capital \in 0..MaxCash /\ 0 \in 0..MaxCash
  <2>1. \A k \in Kinds : PaperCapital(k) \in 0..MaxCash
    BY CapitalType DEF TypeInv
  <2>2. Starts(h) => overlapped' \in BOOLEAN
    BY DEF TypeInv, WorkOK, Starts, Switching
  <2>3. "spot" \in Kinds
    BY DEF Kinds
  <2>4. Capital \in 0..MaxCash /\ 0 \in 0..MaxCash
    BY ModeAssumption
  <2> QED  BY <2>1, <2>2, <2>3, <2>4 DEF TypeInv, ModeTypeOK
<1>1. ASSUME NEW m \in Kinds, AsksForLive(h, m) PROVE TypeInv'
  <2> DEFINE w == Work("live", m)
  <2>1. w \in Works /\ w.stage = "asking" /\ w.made = NoBroker /\ w.op = "live"
    BY WorkType, <1>0 DEF Ops, Work
  <2> HIDE DEF w
  <2>2. work' = [work EXCEPT ![h] = w] /\ overlapped' \in BOOLEAN
        /\ UNCHANGED <<accounts, moneyVars, broker, manual, engineVars, flagVars, savedVars, lapsed, boots>>
    BY <1>0, <1>1 DEF AsksForLive, w
  <2>3. \A g \in Handlers : work'[g] # Idle => Made(work[g])'
    BY <2>1, <2>2 DEF TypeInv, WorkOK, Made
  <2>4. work' \in [Handlers -> Works \cup {Idle}]
    BY <2>1, <2>2 DEF TypeInv, WorkOK
  <2> QED  BY <2>2, <2>3, <2>4 DEF TypeInv, ModeTypeOK, WorkOK, moneyVars, engineVars, flagVars, savedVars
<1>2. ASSUME NEW m \in Kinds, SetsKind(h, m) PROVE TypeInv'
  <2>1. /\ Swaps(h, Work("kind", m), FALSE, PaperCapital(m))
        /\ overlapped' \in BOOLEAN /\ UNCHANGED savedVars
    BY <1>0, <1>2 DEF SetsKind
  <2>2. Work("kind", m) \in Works /\ Work("kind", m).op = "kind"
    BY WorkType, <1>0 DEF Ops
  <2> QED  BY <1>0, <2>1, <2>2, SwapKeepsTypes DEF savedVars
<1>3. CASE EngagesPaper(h)
  <2>1. /\ Swaps(h, Work("paper", paperKind), FALSE, PaperCapital(paperKind))
        /\ overlapped' \in BOOLEAN /\ UNCHANGED savedVars
    BY <1>0, <1>3 DEF EngagesPaper
  <2>2. Work("paper", paperKind) \in Works /\ Work("paper", paperKind).op = "paper"
    BY WorkType, <1>0 DEF Ops
  <2> QED  BY <1>0, <2>1, <2>2, SwapKeepsTypes DEF savedVars
<1>4. CASE ResetsAll(h)
  <2>1. /\ Swaps(h, Work("reset", "spot"), FALSE, Capital) /\ overlapped' \in BOOLEAN
        /\ saved' = [k \in Kinds |-> Unsaved] /\ lastMode' = "none"
    BY <1>0, <1>4 DEF ResetsAll
  <2>2. Work("reset", "spot") \in Works /\ Work("reset", "spot").op = "reset"
    BY WorkType, <1>0 DEF Ops
  <2> QED  BY <1>0, <2>1, <2>2, SwapKeepsTypes
<1>5. CASE SavesKey(h)
  BY <1>0, <1>5 DEF SavesKey, TypeInv, ModeTypeOK, WorkOK, Made, moneyVars, engineVars, flagVars
<1>6. ASSUME NEW amount \in 1..MaxCash, SetsBalance(h, amount) PROVE TypeInv'
  <2> DEFINE w == [Work("set", paperKind) EXCEPT !.amount = amount]
  <2>1. amount \in 0..MaxCash
    BY ModeAssumption
  <2>2. w \in Works /\ w.op = "set"
    BY WorkType, <1>0, <2>1 DEF Ops
  <2>3. /\ Swaps(h, w, FALSE, amount) /\ overlapped' \in BOOLEAN /\ UNCHANGED savedVars
    BY <1>0, <1>6 DEF SetsBalance
  <2> HIDE DEF w
  <2> QED  BY <1>0, <2>1, <2>2, <2>3, SwapKeepsTypes DEF savedVars
<1>7. ASSUME NEW d \in {-1, 1}, MovesBalance(h, d) PROVE TypeInv'
  <2>1. capital + d \in Int
    BY ModeAssumption DEF TypeInv, ModeTypeOK
  <2>2. capital' \in 0..MaxCash /\ cash' \in 0..MaxCash
    BY <1>7, <2>1, CapitalType, ModeAssumption DEF MovesBalance
  <2>3. saved' \in [Kinds -> 0..MaxCash \cup {Unsaved}]
    BY <1>0, <1>7, <2>2 DEF MovesBalance
  <2> QED  BY <1>0, <1>7, <2>2, <2>3 DEF MovesBalance, TypeInv, ModeTypeOK, WorkOK, Made, engineVars, flagVars
<1> QED  BY <1>1, <1>2, <1>3, <1>4, <1>5, <1>6, <1>7 DEF Request

\* The rest of a handler keeps them.
LEMMA ContinueTypes ==
  ASSUME TypeInv, NEW h \in Handlers, Continue(h)
  PROVE  TypeInv'
<1>1. work[h] # Idle /\ work[h] \in Works /\ Made(work[h])
  BY DEF Continue, LiveRefused, LiveAccepted, Clears, Flags, TypeInv, WorkOK
<1>2. CASE LiveRefused(h)
  BY <1>2 DEF LiveRefused, TypeInv, ModeTypeOK, WorkOK, Made, moneyVars, engineVars, flagVars, savedVars
<1>3. CASE LiveAccepted(h)
  <2>1. Swaps(h, work[h], TRUE, 0) /\ work[h].op = "live" /\ UNCHANGED <<savedVars, overlapped>>
    BY <1>1, <1>3 DEF LiveAccepted, Made
  <2>2. /\ saved' \in [Kinds -> 0..MaxCash \cup {Unsaved}]
        /\ lastMode' \in Kinds \cup {"paper", "none"} /\ overlapped' \in BOOLEAN
    BY <2>1 DEF savedVars, TypeInv, ModeTypeOK, WorkOK
  <2>3. 0 \in 0..MaxCash
    BY ModeAssumption
  <2> QED  BY <1>1, <2>1, <2>2, <2>3, SwapKeepsTypes
<1>4. CASE Clears(h)
  <2> DEFINE w == work[h]
             v == [w EXCEPT !.stage = "cleared"]
  <2>1. /\ v \in Works /\ v # Idle /\ v.stage = "cleared" /\ v.made = w.made /\ v.op = w.op /\ v.kind = w.kind
        /\ w.stage = "swapped"
    BY <1>1, <1>4, IdleIsNoWork DEF Works, Clears
  <2>2. work' = [work EXCEPT ![h] = v]
    BY <1>4 DEF Clears
  <2>3. Made(v)
    BY <1>1, <2>1 DEF Made
  <2>7. ASSUME w.op = "reset" PROVE w.made \in DOMAIN accounts /\ ~accounts[w.made].live
    <3>1. w.made \in DOMAIN accounts /\ accounts[w.made] = Account(w.op = "live", w.kind)
      BY <1>1, <2>1 DEF Made
    <3>2. (w.op = "live") = FALSE
      BY <2>7
    <3>3. accounts[w.made] = Account(FALSE, w.kind)
      BY <3>1, <3>2
    <3> QED  BY <3>1, <3>3 DEF Account
  <2> HIDE DEF v
  <2>4. work' \in [Handlers -> Works \cup {Idle}]
    BY <2>1, <2>2 DEF TypeInv, WorkOK
  <2>5. \A g \in Handlers : work'[g] # Idle => Made(work'[g])
    BY <2>1, <2>2, <2>3 DEF TypeInv, WorkOK
  <2>6. manual' \in DOMAIN accounts /\ ~accounts[manual'].live
    BY <1>4, <2>7 DEF Clears, TypeInv, ModeTypeOK
  <2> QED  BY <1>4, <2>4, <2>5, <2>6 DEF Clears, PositionsAfter, TypeInv, ModeTypeOK, WorkOK, Made, moneyVars, flagVars, savedVars
<1>5. CASE Flags(h)
  <2> DEFINE w == work[h]
  <2>1. w.op \in Ops /\ w.kind \in Kinds /\ w.amount \in 0..MaxCash
    BY <1>1 DEF Works
  <2>2. saved' \in [Kinds -> 0..MaxCash \cup {Unsaved}]
    BY <1>5, <2>1 DEF Flags, TypeInv, ModeTypeOK
  <2> QED  BY <1>5, <2>1, <2>2 DEF Flags, Checkpoint, EnabledAfter, TypeInv, ModeTypeOK, WorkOK, Made, moneyVars, engineVars
<1> QED  BY <1>2, <1>3, <1>4, <1>5 DEF Continue

\* What a boot leaves: the paper account, and above it the live one if real
\* trading is restored.
LEMMA BootLeaves ==
  ASSUME TypeInv, Boot
  PROVE  /\ TypeInv' /\ ~overlapped' /\ positions' = {} /\ \A h \in Handlers : work'[h] = Idle
         /\ enabled' = Current'.live /\ paperKind' = BootKind
         /\ enabled' => /\ Restores /\ mode' = lastMode /\ Current'.kind = lastMode
         /\ ~enabled' => /\ mode' = "paper" /\ Current'.kind = BootKind
                         /\ lapsed' = (lastMode \in Kinds)
         /\ enabled' => ~lapsed'
         /\ UNCHANGED savedVars
<1> DEFINE A == [live : BOOLEAN, kind : Kinds]
           a == Account(FALSE, BootKind)
           b == Account(TRUE, lastMode)
<1>1. PICK restored \in {Restores, FALSE} :
         /\ accounts' = <<a>> \o IF restored THEN <<b>> ELSE <<>>
         /\ broker' = Len(accounts')
         /\ cash' = (IF restored THEN 0 ELSE PaperCapital(BootKind)) /\ capital' = cash'
         /\ enabled' = restored
         /\ mode' = IF restored THEN lastMode ELSE "paper"
         /\ lapsed' = (lastMode \in Kinds /\ ~restored)
  BY DEF Boot
<1>2. restored \in BOOLEAN
  BY DEF Restores, TypeInv, WorkOK
<1>3. a \in A /\ a.live = FALSE /\ a.kind = BootKind
  BY ModeAssumption DEF Account
<1>4. restored => b \in A /\ b.live = TRUE /\ b.kind = lastMode /\ lastMode \in Kinds
  BY <1>1 DEF Account, Restores
<1>5. PaperCapital(BootKind) \in 0..MaxCash /\ 0 \in 0..MaxCash /\ BootKind \in Kinds
  BY CapitalType, ModeAssumption DEF TypeInv
<1>6. /\ manual' = 1 /\ positions' = {} /\ opening' = NoBroker /\ raced' = {}
      /\ paperKind' = BootKind /\ work' = [h \in Handlers |-> Idle] /\ overlapped' = FALSE
      /\ boots' = boots + 1 /\ UNCHANGED savedVars
  BY DEF Boot
<1> HIDE DEF a, b, A
<1>7. CASE restored
  <2>1. accounts' = <<a>> \o <<b>>
    BY <1>1, <1>7
  <2>2. <<a>> \in Seq(A) /\ Len(<<a>>) = 1 /\ <<a>>[1] = a
        /\ <<b>> \in Seq(A) /\ Len(<<b>>) = 1 /\ <<b>>[1] = b
    BY <1>3, <1>4, <1>7
  <2>3. accounts' \in Seq(A) /\ DOMAIN accounts' = {1, 2} /\ broker' = 2
        /\ accounts'[1] = a /\ accounts'[2] = b
    <3>1. /\ accounts' \in Seq(A) /\ Len(accounts') = 2
          /\ \A i \in 1..2 : accounts'[i] = IF i <= 1 THEN <<a>>[i] ELSE <<b>>[i - 1]
      BY <2>1, <2>2, ConcatProperties
    <3> QED  BY <1>1, <2>2, <3>1
  <2>4. enabled' = TRUE /\ mode' = lastMode /\ lapsed' = FALSE /\ cash' = 0 /\ capital' = 0 /\ Restores
    BY <1>1, <1>2, <1>7
  <2>5. Current' = b
    BY <2>3 DEF Current
  <2>6. ModeTypeOK'
    BY <1>3, <1>4, <1>5, <1>6, <1>7, <2>3, <2>4 DEF A, TypeInv, ModeTypeOK, savedVars
  <2>7. WorkOK'
    <3>1. work' \in [Handlers -> Works \cup {Idle}] /\ \A h \in Handlers : work'[h] = Idle
      BY <1>6
    <3>2. boots' \in Nat /\ enabled' \in BOOLEAN /\ lapsed' \in BOOLEAN /\ overlapped' \in BOOLEAN
      <4>1. boots \in Nat
        BY DEF TypeInv, WorkOK
      <4>2. boots' \in Nat
        BY <1>6, <4>1
      <4>3. overlapped' = FALSE
        BY <1>6
      <4>4. (lastMode \in Kinds) \in BOOLEAN
        OBVIOUS
      <4>5. enabled' \in BOOLEAN /\ lapsed' \in BOOLEAN
        BY <2>4, <4>4, Zenon
      <4> QED  BY <4>2, <4>3, <4>5
    <3> QED  BY <3>1, <3>2 DEF WorkOK
  <2> QED  BY <1>4, <1>6, <1>7, <2>4, <2>5, <2>6, <2>7 DEF TypeInv
<1>8. CASE ~restored
  <2>1. accounts' = <<a>> \o <<>>
    BY <1>1, <1>8
  <2>2. <<a>> \o <<>> = <<a>> /\ <<a>> \in Seq(A) /\ DOMAIN <<a>> = {1}
        /\ <<a>>[1] = a /\ Len(<<a>>) = 1
    BY <1>3
  <2>3. accounts' \in Seq(A) /\ DOMAIN accounts' = {1} /\ broker' = 1 /\ accounts'[1] = a
    BY <1>1, <2>1, <2>2
  <2>4. enabled' = FALSE /\ mode' = "paper" /\ lapsed' = (lastMode \in Kinds)
        /\ cash' = PaperCapital(BootKind) /\ capital' = PaperCapital(BootKind)
    BY <1>1, <1>2, <1>8
  <2>5. Current' = a
    BY <2>3 DEF Current
  <2>6. ModeTypeOK'
    BY <1>3, <1>5, <1>6, <2>3, <2>4 DEF A, TypeInv, ModeTypeOK, savedVars
  <2>7. WorkOK'
    <3>1. work' \in [Handlers -> Works \cup {Idle}] /\ \A h \in Handlers : work'[h] = Idle
      BY <1>6
    <3>2. boots' \in Nat /\ enabled' \in BOOLEAN /\ lapsed' \in BOOLEAN /\ overlapped' \in BOOLEAN
      <4>1. boots \in Nat
        BY DEF TypeInv, WorkOK
      <4>2. boots' \in Nat
        BY <1>6, <4>1
      <4>3. overlapped' = FALSE
        BY <1>6
      <4>4. (lastMode \in Kinds) \in BOOLEAN
        OBVIOUS
      <4>5. enabled' \in BOOLEAN /\ lapsed' \in BOOLEAN
        BY <2>4, <4>4, Zenon
      <4> QED  BY <4>2, <4>3, <4>5
    <3> QED  BY <3>1, <3>2 DEF WorkOK
  <2> QED  BY <1>3, <1>6, <2>4, <2>5, <2>6, <2>7 DEF TypeInv
<1> QED  BY <1>7, <1>8

\* Every step keeps the types.
LEMMA TypesKept ==
  ASSUME TypeInv, [Next]_vars
  PROVE  TypeInv'
<1>1. CASE Tick \/ ManualTrade
  BY <1>1, TradeTypes
<1>2. CASE Boot
  BY <1>2, BootLeaves
<1>3. ASSUME NEW h \in Handlers, Request(h) PROVE TypeInv'
  BY <1>3, RequestTypes
<1>4. ASSUME NEW h \in Handlers, Continue(h) PROVE TypeInv'
  BY <1>4, ContinueTypes
<1>5. CASE UNCHANGED vars
  BY <1>5 DEF vars, moneyVars, engineVars, flagVars, savedVars, TypeInv, ModeTypeOK, WorkOK, Made
<1> QED  BY <1>1, <1>2, <1>3, <1>4, <1>5 DEF Next

-----------------------------------------------------------------------------
(* Which account the flags speak of *)

\* What FlagsTellTheBroker promises between requests.
FlagsOK ==
    /\ enabled = Current.live
    /\ mode = IF Current.live THEN Current.kind ELSE "paper"
    /\ ~Current.live => paperKind = Current.kind

\* What a request that is alone relies on until it sets the flags: before the
\* swap they are right; after it the broker is its own, and what the flags it
\* will not touch say is true of it.
InProgress(w) ==
    /\ w.stage = "asking" => FlagsOK
    /\ w.stage # "asking" =>
         /\ w.made = broker
         /\ w.op \in {"kind", "set", "reset"} => ~enabled /\ mode = "paper"
         /\ w.op \in {"paper", "set"} => w.kind = paperKind
         /\ w.op = "set" => capital = w.amount
         /\ w.op = "reset" => lastMode = "none"

\* One switch at a time while no two requests overlapped, and the flags tell
\* the broker between switches.
FlagsInv ==
    ~overlapped =>
        /\ \A g, h \in Handlers : work[g] # Idle /\ work[h] # Idle => g = h
        /\ ~Switching => FlagsOK
        /\ \A h \in Handlers : work[h] # Idle => InProgress(work[h])

\* The checkpoint says what the mode is.
CheckpointInv ==
    ~overlapped /\ ~lapsed => mode = IF lastMode \in Kinds THEN lastMode ELSE "paper"

\* A position of another broker is there only until the handler that has
\* replaced the broker clears the positions.
HomeInv ==
    \/ \E h \in Handlers : work[h] # Idle /\ work[h].stage = "swapped"
    \/ positions \subseteq {broker} \cup raced
----------------------------------------------------------------

\* A request that starts alone finds the flags right and nobody at work.
LEMMA StartsAlone ==
  ASSUME TypeInv, FlagsInv, NEW h \in Handlers, Starts(h), ~overlapped'
  PROVE  /\ ~overlapped /\ ~Switching /\ FlagsOK
         /\ \A g \in Handlers : work[g] = Idle
BY DEF TypeInv, WorkOK, Starts, FlagsInv, Switching

\* A swap by a request that is alone.
LEMMA SwapAlone ==
  ASSUME TypeInv, NEW h \in Handlers, NEW w \in Works, NEW live \in BOOLEAN,
         NEW amount \in 0..MaxCash, Swaps(h, w, live, amount), live = (w.op = "live"),
         \A g \in Handlers \ {h} : work[g] = Idle,
         w.op \in {"kind", "set", "reset"} => ~enabled /\ mode = "paper",
         w.op \in {"paper", "set"} => w.kind = paperKind,
         w.op = "set" => amount = w.amount,
         w.op = "reset" => lastMode' = "none"
  PROVE  FlagsInv'
<1>1. /\ work'[h] # Idle /\ work'[h].stage = "swapped" /\ work'[h].made = broker'
      /\ work'[h].op = w.op /\ work'[h].kind = w.kind /\ work'[h].amount = w.amount
      /\ \A g \in Handlers \ {h} : work'[g] = work[g]
  BY SwapMakes
<1>2. capital' = amount /\ UNCHANGED flagVars
  BY DEF Swaps
<1>3. InProgress(work[h])'
  BY <1>1, <1>2 DEF InProgress, flagVars
<1>4. \A g \in Handlers : work'[g] # Idle => g = h
  BY <1>1
<1> QED  BY <1>1, <1>3, <1>4 DEF FlagsInv, Switching

\* The flags speak of the right account at the start.
LEMMA InitFlags == Init => FlagsInv /\ CheckpointInv /\ HomeInv
<1> SUFFICES ASSUME Init PROVE FlagsInv /\ CheckpointInv /\ HomeInv
  OBVIOUS
<1>1. Current = Account(FALSE, BootKind)
  <2> DEFINE a == Account(FALSE, BootKind)
  <2>1. accounts = <<a>> /\ broker = 1
    BY DEF Init
  <2> HIDE DEF a
  <2>2. accounts[1] = a
    BY <2>1
  <2> QED  BY <2>1, <2>2 DEF Current, a
<1>2. FlagsOK
  BY <1>1 DEF FlagsOK, Account, Init
<1>3. \A h \in Handlers : work[h] = Idle
  BY DEF Init
<1> QED  BY <1>2, <1>3 DEF Init, FlagsInv, CheckpointInv, HomeInv, Switching, Kinds

\* No request makes the flags wrong if it is alone.
LEMMA RequestFlags ==
  ASSUME TypeInv, FlagsInv, NEW h \in Handlers, Request(h)
  PROVE  FlagsInv'
<1> SUFFICES ASSUME ~overlapped' PROVE FlagsInv'
  BY DEF FlagsInv
<1>0. /\ Starts(h)
      /\ Starts(h) => ~overlapped /\ ~Switching /\ FlagsOK /\ \A g \in Handlers : work[g] = Idle
  BY StartsAlone DEF Request, AsksForLive, SetsKind, EngagesPaper, ResetsAll, SavesKey, SetsBalance, MovesBalance
<1>00. /\ ~enabled => mode = "paper" /\ paperKind = Current.kind
       /\ \A k \in Kinds : PaperCapital(k) \in 0..MaxCash
       /\ paperKind \in Kinds /\ "spot" \in Kinds /\ Capital \in 0..MaxCash
  <2>1. enabled = Current.live /\ enabled \in BOOLEAN /\ paperKind \in Kinds
    BY <1>0 DEF FlagsOK, TypeInv, WorkOK, ModeTypeOK
  <2>2. Capital \in 0..MaxCash /\ "spot" \in Kinds
    BY ModeAssumption DEF Kinds
  <2> QED  BY <1>0, <2>1, <2>2, CapitalType DEF TypeInv, FlagsOK
<1>1. ASSUME NEW m \in Kinds, AsksForLive(h, m) PROVE FlagsInv'
  <2> DEFINE w == Work("live", m)
  <2>1. w \in Works /\ w.stage = "asking"
    BY WorkType DEF Ops, Work
  <2>2. work' = [work EXCEPT ![h] = w]
        /\ UNCHANGED <<accounts, moneyVars, broker, manual, engineVars, flagVars, savedVars, lapsed, boots>>
    BY <1>1 DEF AsksForLive
  <2> HIDE DEF w
  <2>3. work'[h] = w /\ w # Idle /\ \A g \in Handlers : work'[g] # Idle => g = h
    BY <1>0, <2>1, <2>2, IdleIsNoWork DEF TypeInv, WorkOK
  <2>4. FlagsOK'
    BY <1>0, <2>2 DEF FlagsOK, Current, flagVars
  <2>5. InProgress(work[h])'
    BY <2>1, <2>3, <2>4 DEF InProgress
  <2> QED  BY <2>3, <2>5 DEF FlagsInv, Switching
<1>2. ASSUME NEW m \in Kinds, SetsKind(h, m) PROVE FlagsInv'
  <2>1. Swaps(h, Work("kind", m), FALSE, PaperCapital(m)) /\ ~enabled
    BY <1>2 DEF SetsKind
  <2>2. Work("kind", m) \in Works /\ Work("kind", m).op = "kind"
    BY WorkType DEF Ops
  <2> QED  BY <1>0, <1>00, <2>1, <2>2, SwapAlone
<1>3. CASE EngagesPaper(h)
  <2>1. Swaps(h, Work("paper", paperKind), FALSE, PaperCapital(paperKind))
    BY <1>3 DEF EngagesPaper
  <2>2. Work("paper", paperKind) \in Works /\ Work("paper", paperKind).op = "paper"
        /\ Work("paper", paperKind).kind = paperKind
    BY <1>00, WorkType DEF Ops
  <2> QED  BY <1>0, <1>00, <2>1, <2>2, SwapAlone
<1>4. CASE ResetsAll(h)
  <2>1. Swaps(h, Work("reset", "spot"), FALSE, Capital) /\ ~enabled /\ lastMode' = "none"
    BY <1>4 DEF ResetsAll
  <2>2. Work("reset", "spot") \in Works /\ Work("reset", "spot").op = "reset"
    BY <1>00, WorkType DEF Ops
  <2> QED  BY <1>0, <1>00, <2>1, <2>2, SwapAlone
<1>5. CASE SavesKey(h)
  <2>1. FlagsOK'
    BY <1>0, <1>5 DEF SavesKey, FlagsOK, Current, flagVars
  <2> QED  BY <1>0, <1>5, <2>1 DEF SavesKey, FlagsInv, Switching
<1>6. ASSUME NEW amount \in 1..MaxCash, SetsBalance(h, amount) PROVE FlagsInv'
  <2> DEFINE w == [Work("set", paperKind) EXCEPT !.amount = amount]
  <2>1. amount \in 0..MaxCash
    BY ModeAssumption
  <2>2. w \in Works /\ w.op = "set" /\ w.kind = paperKind /\ w.amount = amount
    BY <1>00, <2>1, WorkType DEF Ops
  <2>3. Swaps(h, w, FALSE, amount) /\ ~enabled
    BY <1>6 DEF SetsBalance
  <2> HIDE DEF w
  <2> QED  BY <1>0, <1>00, <2>1, <2>2, <2>3, SwapAlone
<1>7. ASSUME NEW d \in {-1, 1}, MovesBalance(h, d) PROVE FlagsInv'
  <2>1. FlagsOK'
    BY <1>0, <1>7 DEF MovesBalance, FlagsOK, Current, flagVars
  <2> QED  BY <1>0, <1>7, <2>1 DEF MovesBalance, FlagsInv, Switching
<1> QED  BY <1>1, <1>2, <1>3, <1>4, <1>5, <1>6, <1>7 DEF Request

\* Nor does the rest of it, at whose end the flags are set.
LEMMA ContinueFlags ==
  ASSUME TypeInv, FlagsInv, NEW h \in Handlers, Continue(h)
  PROVE  FlagsInv'
<1> SUFFICES ASSUME ~overlapped' PROVE FlagsInv'
  BY DEF FlagsInv
<1> DEFINE w == work[h]
<1>0. /\ w # Idle /\ w \in Works /\ Made(w) /\ ~overlapped
      /\ InProgress(w) /\ \A g \in Handlers \ {h} : work[g] = Idle
  <2>1. w # Idle /\ overlapped' = overlapped
    <3>1. CASE LiveAccepted(h)
      BY <3>1 DEF LiveAccepted
    <3>2. CASE LiveRefused(h) \/ Clears(h) \/ Flags(h)
      BY <3>2 DEF LiveRefused, Clears, Flags
    <3> QED  BY <3>1, <3>2 DEF Continue
  <2> QED  BY <2>1 DEF TypeInv, WorkOK, FlagsInv
<1>1. CASE LiveRefused(h)
  <2>1. FlagsOK'
    BY <1>0, <1>1 DEF LiveRefused, InProgress, FlagsOK, Current, flagVars
  <2>2. \A g \in Handlers : work'[g] = Idle
    BY <1>0, <1>1 DEF LiveRefused, TypeInv, WorkOK
  <2> QED  BY <2>1, <2>2 DEF FlagsInv, Switching
<1>2. CASE LiveAccepted(h)
  <2>1. Swaps(h, w, TRUE, 0) /\ w.stage = "asking"
    BY <1>2 DEF LiveAccepted
  <2>2. w.op = "live" /\ 0 \in 0..MaxCash
    BY <1>0, <2>1, ModeAssumption DEF Made
  <2> QED  BY <1>0, <2>1, <2>2, SwapAlone
<1>3. CASE Clears(h)
  <2> DEFINE v == [w EXCEPT !.stage = "cleared"]
  <2>1. /\ v \in Works /\ v # Idle /\ v.stage = "cleared" /\ v.made = w.made /\ v.op = w.op /\ v.kind = w.kind
        /\ v.amount = w.amount /\ w.stage = "swapped"
    BY <1>0, <1>3, IdleIsNoWork DEF Works, Clears
  <2>2. work' = [work EXCEPT ![h] = v]
        /\ UNCHANGED <<accounts, moneyVars, broker, flagVars, savedVars>>
    BY <1>3 DEF Clears
  <2> HIDE DEF v
  <2>3. work'[h] = v /\ \A g \in Handlers : work'[g] # Idle => g = h
    BY <1>0, <2>2 DEF TypeInv, WorkOK
  <2>4. InProgress(work[h])'
    BY <1>0, <2>1, <2>2, <2>3 DEF InProgress, moneyVars, flagVars, savedVars
  <2> QED  BY <2>1, <2>3, <2>4 DEF FlagsInv, Switching
<1>4. CASE Flags(h)
  <2>1. /\ w.stage = "cleared" /\ UNCHANGED <<accounts, broker>>
        /\ enabled' = EnabledAfter(w) /\ work' = [work EXCEPT ![h] = Idle]
        /\ mode' = CASE w.op = "live" -> w.kind [] w.op \in {"paper", "reset"} -> "paper" [] OTHER -> mode
        /\ paperKind' = IF w.op \in {"kind", "reset"} THEN w.kind ELSE paperKind
    BY <1>4 DEF Flags
  <2>2. Current' = Account(w.op = "live", w.kind)
    BY <1>0, <2>1 DEF Current, Made, InProgress
  <2>3. /\ Current'.kind = w.kind /\ Current'.live \in BOOLEAN
        /\ Current'.live <=> w.op = "live"
    BY <2>2 DEF Account
  <2>4. /\ w.op \in {"kind", "set", "reset"} => ~enabled /\ mode = "paper"
        /\ w.op \in {"paper", "set"} => w.kind = paperKind
        /\ w.op \in Ops /\ enabled \in BOOLEAN
    BY <1>0, <2>1 DEF InProgress, Works, TypeInv, WorkOK
  <2>5. enabled' = Current'.live
    BY <2>1, <2>3, <2>4 DEF EnabledAfter, Ops
  <2>6. mode' = IF Current'.live THEN Current'.kind ELSE "paper"
    BY <2>1, <2>3, <2>4 DEF Ops
  <2>7. ~Current'.live => paperKind' = Current'.kind
    BY <2>1, <2>3, <2>4 DEF Ops
  <2>8. \A g \in Handlers : work'[g] = Idle
    BY <1>0, <2>1 DEF TypeInv, WorkOK
  <2> QED  BY <2>5, <2>6, <2>7, <2>8 DEF FlagsInv, FlagsOK, Switching
<1> QED  BY <1>1, <1>2, <1>3, <1>4 DEF Continue

\* Every step keeps the flags right.
LEMMA FlagsKept ==
  ASSUME TypeInv, FlagsInv, [Next]_vars
  PROVE  FlagsInv'
<1>1. CASE Tick \/ ManualTrade \/ UNCHANGED vars
  <2>1. UNCHANGED <<accounts, broker, capital, flagVars, lastMode, work, overlapped>>
    BY <1>1 DEF Tick, TickOpens, TickKeeps, TickSaves, TickExits, ManualTrade, vars,
                moneyVars, savedVars, flagVars
  <2> QED  BY <2>1 DEF FlagsInv, Switching, FlagsOK, InProgress, Current, flagVars
<1>2. CASE Boot
  <2>1. FlagsOK' /\ \A h \in Handlers : work'[h] = Idle
    BY <1>2, BootLeaves DEF FlagsOK
  <2> QED  BY <2>1 DEF FlagsInv, Switching
<1>3. ASSUME NEW h \in Handlers, Request(h) \/ Continue(h) PROVE FlagsInv'
  BY <1>3, RequestFlags, ContinueFlags
<1> QED  BY <1>1, <1>2, <1>3 DEF Next

\* The checkpoint is written with the mode; only the reset wipes it first, and
\* that one runs in paper mode.
LEMMA CheckpointKept ==
  ASSUME TypeInv, FlagsInv, CheckpointInv, [Next]_vars
  PROVE  CheckpointInv'
<1> SUFFICES ASSUME ~overlapped', ~lapsed'
             PROVE  mode' = IF lastMode' \in Kinds THEN lastMode' ELSE "paper"
  BY DEF CheckpointInv
<1>0. "paper" \notin Kinds /\ "none" \notin Kinds
  BY DEF Kinds
<1>1. CASE UNCHANGED <<mode, lastMode, lapsed>> /\ ~overlapped
  BY <1>1 DEF CheckpointInv
<1>2. CASE Tick \/ ManualTrade \/ UNCHANGED vars
  BY <1>1, <1>2 DEF Tick, TickOpens, TickKeeps, TickSaves, TickExits, ManualTrade, vars, savedVars, flagVars
<1>3. CASE Boot
  BY <1>0, <1>3, BootLeaves DEF Restores, savedVars, TypeInv, WorkOK
<1>4. ASSUME NEW h \in Handlers, Request(h) PROVE mode' = IF lastMode' \in Kinds THEN lastMode' ELSE "paper"
  <2>1. Starts(h)
    BY <1>4 DEF Request, AsksForLive, SetsKind, EngagesPaper, ResetsAll, SavesKey, SetsBalance, MovesBalance
  <2>2. ~overlapped /\ ~Switching /\ FlagsOK
    BY <2>1, StartsAlone
  <2>3. CASE ResetsAll(h)
    <3>1. ~enabled /\ mode' = mode /\ lastMode' = "none"
      BY <2>3 DEF ResetsAll, Swaps, flagVars
    <3> QED  BY <1>0, <2>2, <3>1 DEF FlagsOK
  <2>4. CASE ~ResetsAll(h)
    BY <1>1, <1>4, <2>2, <2>4 DEF Request, AsksForLive, SetsKind, EngagesPaper, SavesKey, SetsBalance,
                                  MovesBalance, Swaps, flagVars, savedVars
  <2> QED  BY <2>3, <2>4
<1>5. ASSUME NEW h \in Handlers, Continue(h) PROVE mode' = IF lastMode' \in Kinds THEN lastMode' ELSE "paper"
  <2>1. CASE Flags(h)
    <3> DEFINE w == work[h]
    <3>1. /\ w \in Works /\ w # Idle /\ ~overlapped /\ w.stage = "cleared"
          /\ mode' = CASE w.op = "live" -> w.kind [] w.op \in {"paper", "reset"} -> "paper" [] OTHER -> mode
          /\ lastMode' = Checkpoint(w)
          /\ lapsed' = (lapsed /\ w.op \notin {"live", "paper", "reset"})
      BY <2>1 DEF Flags, TypeInv, WorkOK
    <3>2. w.op \in Ops /\ w.kind \in Kinds
      BY <3>1 DEF Works
    <3>3. w.op = "reset" => lastMode = "none"
      BY <3>1 DEF FlagsInv, InProgress
    <3>4. CASE w.op = "live"
      BY <3>1, <3>2, <3>4 DEF Checkpoint
    <3>5. CASE w.op = "paper"
      BY <1>0, <3>1, <3>5 DEF Checkpoint
    <3>6. CASE w.op = "reset"
      BY <1>0, <3>1, <3>3, <3>6 DEF Checkpoint
    <3>7. CASE w.op \in {"kind", "set"}
      BY <3>1, <3>7 DEF Checkpoint, CheckpointInv
    <3> QED  BY <3>2, <3>4, <3>5, <3>6, <3>7 DEF Ops
  <2>2. CASE ~Flags(h)
    BY <1>1, <1>5, <2>2 DEF Continue, LiveRefused, LiveAccepted, Clears, Swaps, flagVars, savedVars
  <2> QED  BY <2>1, <2>2
<1> QED  BY <1>2, <1>3, <1>4, <1>5 DEF Next

\* A request that puts a new broker in place has yet to clear the positions.
LEMMA HomeKept ==
  ASSUME TypeInv, HomeInv, [Next]_vars
  PROVE  HomeInv'
<1>1. ASSUME NEW h \in Handlers, NEW w \in Works, NEW live \in BOOLEAN, NEW amount,
             Swaps(h, w, live, amount), live = (w.op = "live"), amount \in 0..MaxCash
      PROVE  HomeInv'
  <2>1. work'[h] # Idle /\ work'[h].stage = "swapped"
    BY <1>1, SwapMakes
  <2> QED  BY <2>1 DEF HomeInv
<1>2. CASE UNCHANGED <<work, positions, broker, raced>>
  BY <1>2 DEF HomeInv
<1>3. CASE Tick \/ ManualTrade \/ UNCHANGED vars
  <2>1. CASE TickKeeps
    BY <2>1 DEF TickKeeps, HomeInv
  <2>2. ASSUME NEW p \in positions, TickExits(p) PROVE HomeInv'
    BY <2>2 DEF TickExits, HomeInv
  <2> QED  BY <1>2, <1>3, <2>1, <2>2 DEF Tick, TickOpens, TickSaves, ManualTrade, vars, engineVars
<1>4. CASE Boot
  BY <1>4, BootLeaves DEF HomeInv
<1>5. ASSUME NEW h \in Handlers, Request(h) PROVE HomeInv'
  <2>1. /\ \A k \in Kinds : PaperCapital(k) \in 0..MaxCash
        /\ paperKind \in Kinds /\ "spot" \in Kinds /\ Capital \in 0..MaxCash
    BY CapitalType, ModeAssumption DEF TypeInv, ModeTypeOK, Kinds
  <2>2. ASSUME NEW m \in Kinds, AsksForLive(h, m) PROVE HomeInv'
    <3>1. work[h] = Idle /\ UNCHANGED <<positions, broker, raced>>
          /\ \A g \in Handlers \ {h} : work'[g] = work[g]
      BY <2>2 DEF AsksForLive, Starts, engineVars, TypeInv, WorkOK
    <3> QED  BY <3>1 DEF HomeInv
  <2>3. ASSUME NEW m \in Kinds, SetsKind(h, m) PROVE HomeInv'
    <3>1. Work("kind", m) \in Works /\ Work("kind", m).op = "kind"
      BY WorkType DEF Ops
    <3> QED  BY <1>1, <2>1, <2>3, <3>1 DEF SetsKind
  <2>4. CASE EngagesPaper(h)
    <3>1. Work("paper", paperKind) \in Works /\ Work("paper", paperKind).op = "paper"
      BY <2>1, WorkType DEF Ops
    <3> QED  BY <1>1, <2>1, <2>4, <3>1 DEF EngagesPaper
  <2>5. CASE ResetsAll(h)
    <3>1. Work("reset", "spot") \in Works /\ Work("reset", "spot").op = "reset"
      BY <2>1, WorkType DEF Ops
    <3> QED  BY <1>1, <2>1, <2>5, <3>1 DEF ResetsAll
  <2>6. ASSUME NEW amount \in 1..MaxCash, SetsBalance(h, amount) PROVE HomeInv'
    <3> DEFINE w == [Work("set", paperKind) EXCEPT !.amount = amount]
    <3>1. amount \in 0..MaxCash
      BY ModeAssumption
    <3>2. w \in Works /\ w.op = "set"
      BY <2>1, <3>1, WorkType DEF Ops
    <3>3. Swaps(h, w, FALSE, amount)
      BY <2>6 DEF SetsBalance
    <3> HIDE DEF w
    <3> QED  BY <1>1, <3>1, <3>2, <3>3
  <2>7. CASE SavesKey(h) \/ \E d \in {-1, 1} : MovesBalance(h, d)
    BY <1>2, <2>7 DEF SavesKey, MovesBalance, engineVars
  <2> QED  BY <1>5, <2>2, <2>3, <2>4, <2>5, <2>6, <2>7 DEF Request
<1>6. ASSUME NEW h \in Handlers, Continue(h) PROVE HomeInv'
  <2>1. work[h] # Idle /\ work[h] \in Works /\ Made(work[h])
    BY <1>6 DEF Continue, LiveRefused, LiveAccepted, Clears, Flags, TypeInv, WorkOK
  <2>2. CASE LiveAccepted(h)
    <3>1. Swaps(h, work[h], TRUE, 0) /\ work[h].stage = "asking"
      BY <2>2 DEF LiveAccepted
    <3>2. work[h].op = "live" /\ 0 \in 0..MaxCash
      BY <2>1, <3>1, ModeAssumption DEF Made
    <3> QED  BY <1>1, <2>1, <3>1, <3>2
  <2>3. CASE Clears(h)
    BY <2>3 DEF Clears, PositionsAfter, HomeInv
  <2>4. CASE LiveRefused(h) \/ Flags(h)
    <3>1. /\ work[h].stage # "swapped" /\ UNCHANGED <<positions, broker, raced>>
          /\ \A g \in Handlers \ {h} : work'[g] = work[g]
      BY <2>4 DEF LiveRefused, Flags, engineVars, TypeInv, WorkOK
    <3> QED  BY <3>1 DEF HomeInv
  <2> QED  BY <1>6, <2>2, <2>3, <2>4 DEF Continue
<1> QED  BY <1>3, <1>4, <1>5, <1>6 DEF Next

-----------------------------------------------------------------------------
(* Theorems *)

\* The inductive invariant.
Inv == TypeInv /\ FlagsInv /\ CheckpointInv /\ HomeInv

\* Every step of a handler, of the engine and every restart keeps it.
LEMMA Invariance == Spec => []Inv
<1>1. Init => Inv
  BY InitTypes, InitFlags DEF Inv
<1>2. Inv /\ [Next]_vars => Inv'
  BY TypesKept, FlagsKept, CheckpointKept, HomeKept DEF Inv
<1> QED  BY <1>1, <1>2, PTL DEF Spec

\* The broker, the manual orders' broker and what is saved are what they may
\* be; the manual orders (bot/manual_orders.py) are never given a real account.
THEOREM ModeTypes == Spec => []ModeTypeOK
<1>1. Inv => ModeTypeOK
  BY DEF Inv, TypeInv
<1> QED  BY <1>1, Invariance, PTL

\* live_enabled, trade_mode and paper_kind tell which account engine.broker is,
\* between requests that do not overlap, whatever the engine does meanwhile.
THEOREM FlagsRight == Spec => []FlagsTellTheBroker
<1>1. Inv => FlagsTellTheBroker
  BY DEF Inv, FlagsInv, FlagsOK, FlagsTellTheBroker, TypeInv, WorkOK
<1> QED  BY <1>1, Invariance, PTL

\* No switch leaves the engine a position of a broker it has replaced, but the
\* one that was being opened meanwhile; this needs no assumption on overlapping.
THEOREM ExitsHome == Spec => []ExitsStayHome
<1>1. Inv => ExitsStayHome
  BY DEF Inv, HomeInv, ExitsStayHome, Switching
<1> QED  BY <1>1, Invariance, PTL

\* A boot never enters real trading that was left, nor another kind of it.
THEOREM RestartKeeps == Spec => RestartKeepsMode
<1>1. Inv /\ [Next]_vars =>
        [boots' # boots /\ ~Switching /\ ~overlapped /\ ~lapsed => mode' \in {mode, "paper"}
           /\ (mode' = "paper" => mode = "paper" \/ lapsed')]_vars
  <2> SUFFICES ASSUME Inv, [Next]_vars, boots' # boots, ~overlapped, ~lapsed
               PROVE  mode' \in {mode, "paper"} /\ (mode' = "paper" => mode = "paper" \/ lapsed')
    OBVIOUS
  <2>1. Boot
    BY DEF Next, Tick, TickOpens, TickKeeps, TickSaves, TickExits, ManualTrade, Request, AsksForLive, SetsKind,
           EngagesPaper, ResetsAll, SavesKey, SetsBalance, MovesBalance, Swaps, Continue, LiveRefused,
           LiveAccepted, Clears, Flags, vars
  <2>2. mode = IF lastMode \in Kinds THEN lastMode ELSE "paper"
    BY DEF Inv, CheckpointInv
  <2>3. Restores => lastMode \in Kinds
    BY DEF Restores
  <2> QED  BY <2>1, <2>2, <2>3, BootLeaves DEF Inv, TypeInv, WorkOK, Kinds
<1> QED  BY <1>1, Invariance, PTL DEF Spec, RestartKeepsMode

\* Nothing but the account in use changes the balance saved for its kind: not
\* a live session, not the account that has been replaced.
THEOREM SavedIsOwn == Spec => SavedCashIsOwn
<1> DEFINE Own == \A k \in Kinds : saved'[k] \in
                    {saved[k], Unsaved} \cup
                    IF Current.live \/ Current.kind # k THEN {} ELSE {cash', capital'}
<1>1. Inv /\ [Next]_vars => [overlapped' \/ boots' # boots \/ Own]_vars
  <2> SUFFICES ASSUME Inv, [Next]_vars, ~overlapped', boots' = boots PROVE Own
    OBVIOUS
  <2>0. UNCHANGED saved => Own
    OBVIOUS
  <2>1. CASE Tick \/ ManualTrade \/ UNCHANGED vars
    <3>1. CASE TickSaves
      BY <3>1 DEF TickSaves, SavedCash, Inv, TypeInv, ModeTypeOK, moneyVars
    <3> QED  BY <2>0, <2>1, <3>1 DEF Tick, TickOpens, TickKeeps, TickExits, ManualTrade, vars, savedVars
  <2>2. CASE Boot
    BY <2>0, <2>2, BootLeaves DEF savedVars, Inv
  <2>3. ASSUME NEW h \in Handlers, Request(h) PROVE Own
    <3>1. CASE ResetsAll(h)
      BY <3>1 DEF ResetsAll
    <3>2. ASSUME NEW d \in {-1, 1}, MovesBalance(h, d) PROVE Own
      <4>1. Starts(h) /\ ~Current.live /\ saved' = [saved EXCEPT ![paperKind] = capital']
        BY <3>2 DEF MovesBalance
      <4>2. FlagsOK
        BY <4>1, StartsAlone DEF Inv
      <4> QED  BY <4>1, <4>2 DEF FlagsOK, Inv, TypeInv, ModeTypeOK
    <3> QED  BY <2>0, <2>3, <3>1, <3>2 DEF Request, AsksForLive, SetsKind, EngagesPaper, SavesKey,
                                           SetsBalance, savedVars
  <2>4. ASSUME NEW h \in Handlers, Continue(h) PROVE Own
    <3>1. CASE Flags(h) /\ work[h].op = "set"
      <4> DEFINE w == work[h]
      <4>1. /\ w # Idle /\ w.stage = "cleared" /\ ~overlapped /\ UNCHANGED moneyVars
            /\ saved' = [saved EXCEPT ![w.kind] = w.amount] /\ w \in Works
        BY <3>1 DEF Flags, Inv, TypeInv, WorkOK
      <4>2. InProgress(w) /\ Made(w)
        BY <4>1 DEF Inv, FlagsInv, TypeInv, WorkOK
      <4>3. capital = w.amount /\ Current = Account(w.op = "live", w.kind)
        BY <3>1, <4>1, <4>2 DEF InProgress, Made, Current
      <4>4. (w.op = "live") = FALSE
        BY <3>1
      <4>5. Current.live = FALSE /\ Current.kind = w.kind
        BY <4>3, <4>4 DEF Account
      <4> QED  BY <4>1, <4>3, <4>5 DEF Inv, TypeInv, ModeTypeOK, moneyVars
    <3>2. CASE ~(Flags(h) /\ work[h].op = "set")
      BY <2>0, <2>4, <3>2 DEF Continue, LiveRefused, LiveAccepted, Clears, Flags, savedVars
    <3> QED  BY <3>1, <3>2
  <2> QED  BY <2>1, <2>2, <2>3, <2>4 DEF Next
<1> QED  BY <1>1, Invariance, PTL DEF Spec, SavedCashIsOwn
=============================================================================
