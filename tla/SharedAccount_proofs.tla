-------------------------- MODULE SharedAccount_proofs --------------------------
(***************************************************************************)
(* For any number of HTTP threads, loop threads and crashes: the tick lock *)
(* keeps the engine's ticks apart (EngineLoop), and so what the threads    *)
(* that do not take it can overdraw is bounded (SharedAccount).            *)
(***************************************************************************)
EXTENDS SharedAccount, Sums_proofs

-----------------------------------------------------------------------------
(* EngineLoop *)

\* The strengthening: whoever is in a tick holds the lock, and conversely.
LockInv ==
    /\ LoopTypeOK
    /\ \A a \in Actors : Ticking(a) => lock = a

\* No thread ticks at the start.
LEMMA LockInvInit == Init => LockInv
<1> SUFFICES ASSUME Init PROVE LockInv
    OBVIOUS
<1> USE DEF Init, Actors
<1>1. \A a \in Actors : ~Ticking(a)
      BY DEF Ticking
<1>2. worker \in [Workers -> WorkerStates] /\ handler \in [Handlers -> HandlerStates]
      BY DEF WorkerStates, HandlerStates
<1>3. crashes \in 0..MaxCrashes
      BY CrashAssumption
<1> QED
    BY <1>1, <1>2, <1>3 DEF LockInv, LoopTypeOK

\* A loop thread ticks only after it took the free lock, and gives it back.
LEMMA LockInvWorker == LockInv /\ (\E t \in Workers : WorkerStep(t)) => LockInv'
<1> SUFFICES ASSUME LockInv, NEW t \in Workers, WorkerStep(t)
             PROVE  LockInv'
    OBVIOUS
<1> USE ActorAssumption DEF LockInv, LoopTypeOK, Actors, Ticking, WorkerStates, HandlerStates
<1>1. CASE WorkerStarts(t)
      BY <1>1 DEF WorkerStarts
<1>2. CASE WorkerTicks(t)
      BY <1>2 DEF WorkerTicks, Acquire
<1>3. CASE WorkerTickEnds(t)
      BY <1>3 DEF WorkerTickEnds, Released
<1>4. CASE WorkerLeaves(t)
      BY <1>4 DEF WorkerLeaves
<1>5. CASE WorkerDies(t)
      BY <1>5 DEF WorkerDies
<1> QED
    BY <1>1, <1>2, <1>3, <1>4, <1>5 DEF WorkerStep

\* Nor does a request that is being served disturb the lock of another.
LEMMA LockInvHandler ==
    LockInv /\ (\E h \in Handlers : HandlerStep(h) \/ Request(h)) => LockInv'
<1> SUFFICES ASSUME LockInv, NEW h \in Handlers, HandlerStep(h) \/ Request(h)
             PROVE  LockInv'
    OBVIOUS
<1> USE ActorAssumption
    DEF LockInv, LoopTypeOK, Actors, Ticking, WorkerStates, HandlerStates, Goes
<1>1. CASE StartSetsFlag(h)
      BY <1>1 DEF StartSetsFlag, AfterStart
<1>2. CASE StartSpawns(h)
      BY <1>2 DEF StartSpawns, AfterStart, Alive
<1>3. CASE StartSaved(h)
      BY <1>3 DEF StartSaved
<1>4. CASE StopSaved(h)
      BY <1>4 DEF StopSaved
<1>5. CASE TickAnswered(h)
      BY <1>5 DEF TickAnswered, Released
<1>6. CASE StartRequested(h)
      BY <1>6 DEF StartRequested
<1>7. CASE DoctorStarts(h)
      BY <1>7 DEF DoctorStarts
<1>8. CASE StopRequested(h)
      BY <1>8 DEF StopRequested
<1>9. CASE DoctorStops(h)
      BY <1>9 DEF DoctorStops
<1>10. CASE TickRequested(h)
      BY <1>10 DEF TickRequested, Acquire
<1> QED
    BY <1>1, <1>2, <1>3, <1>4, <1>5, <1>6, <1>7, <1>8, <1>9, <1>10 DEF HandlerStep, Request

\* A crash takes the threads and the lock with it.
LEMMA LockInvCrash == LockInv /\ Crash => LockInv'
<1> SUFFICES ASSUME LockInv, Crash PROVE LockInv'
    OBVIOUS
<1>1. /\ handle' \in Workers \cup {None}
      /\ worker' \in [Workers -> {"none", "born"}]
      BY DEF Crash
<1>2. handler' \in [Handlers -> {"idle"}]
      BY DEF Crash
<1>3. \A a \in Actors : ~Ticking(a)'
      BY <1>1, <1>2 DEF Ticking, Actors
<1>4. worker' \in [Workers -> WorkerStates] /\ handler' \in [Handlers -> HandlerStates]
  <2>1. {"none", "born"} \subseteq WorkerStates /\ {"idle"} \subseteq HandlerStates
        BY DEF WorkerStates, HandlerStates
  <2>2. \A S, T : S \subseteq T => [Workers -> S] \subseteq [Workers -> T]
        OBVIOUS
  <2>3. \A S, T : S \subseteq T => [Handlers -> S] \subseteq [Handlers -> T]
        OBVIOUS
  <2> QED
      BY <1>1, <1>2, <2>1, <2>2, <2>3
<1>5. /\ running' \in BOOLEAN /\ restorePoint' \in BOOLEAN
      /\ lock' = None /\ crashes' \in 0..MaxCrashes
      BY CrashAssumption DEF Crash, LockInv, LoopTypeOK
<1> QED
    BY <1>1, <1>3, <1>4, <1>5 DEF LockInv, LoopTypeOK

\* LockInv is an invariant of every behaviour of the engine's threads.
THEOREM LockInvHolds == Spec => []LockInv
<1>1. Init => LockInv
      BY LockInvInit
<1>2. LockInv /\ [Next]_loopVars => LockInv'
  <2> SUFFICES ASSUME LockInv, [Next]_loopVars PROVE LockInv'
      OBVIOUS
  <2>1. CASE Next
        BY <2>1, LockInvWorker, LockInvHandler, LockInvCrash DEF Next
  <2>2. CASE UNCHANGED loopVars
        BY <2>2 DEF loopVars, LockInv, LoopTypeOK, Ticking
  <2> QED
      BY <2>1, <2>2
<1> QED
    BY <1>1, <1>2, PTL DEF Spec

\* The engine's variables keep their types, and a held lock has a holder that
\* is in a tick: none is left locked by a tick that failed (engine.py:1287).
THEOREM LoopTypeCorrect == Spec => []LoopTypeOK
<1>1. LockInv => LoopTypeOK
      BY DEF LockInv
<1> QED
    BY <1>1, LockInvHolds, PTL

\* Two engine ticks never overlap, however many loops and requests there are
\* (engine.py:1279).
THEOREM TicksNeverOverlap == Spec => []TicksExclusive
<1>1. LockInv => TicksExclusive
      BY DEF LockInv, TicksExclusive
<1> QED
    BY <1>1, LockInvHolds, PTL

-----------------------------------------------------------------------------
(* SharedAccount *)

\* The actors that do not hold the lock when they spend.
Others == Clients \cup GridThreads

\* Who has read a positive balance and not paid yet.
Eager == {b \in Spenders : free[b] > 0}

\* What a thread has read is no more than the account ever held, and it is
\* forgotten when the order is placed.
ReadInv ==
    /\ free \in [Spenders -> 0..Capital]
    /\ \A b \in Spenders : free[b] > 0 => stage[b] = "sized"
    /\ \A b \in Spenders : stage[b] = "reserving" => target[b] \in Grids
    /\ target \in [Spenders -> Grids \cup {None}]

\* The account can pay one of those who mean to buy down to what the ones that
\* have paid already may have overdrawn: each of them had read at most Capital,
\* and the last to read found at least what it read.
SpendInv ==
    /\ cash <= Capital
    /\ Eager = {} => cash >= -Capital * Cardinality(Others)
    /\ Eager # {} => \E b \in Eager :
           cash - free[b] >= -Capital * (Cardinality(Others) + 1 - Cardinality(Eager))

\* The inductive invariant.
AccountInv == AccountTypeOK /\ LockInv /\ ReadInv /\ SpendInv

\* What is reserved is never negative, so the free balance is at most the cash.
LEMMA AvailableType ==
  ASSUME cash \in Int, reserved \in [Grids -> Nat]
  PROVE  /\ Available \in Nat
         /\ Available > 0 => Available <= cash
<1>1. DOMAIN reserved = Grids /\ \A g \in Grids : reserved[g] \in Int /\ reserved[g] >= 0
  OBVIOUS
<1>2. SumFunctionOnSet(reserved, Grids) \in Int /\ SumFunctionOnSet(reserved, Grids) >= 0
  BY <1>1, FiniteAssumption, SetSumType
<1>3. ReservedTotal \in Nat
  BY <1>1, <1>2, FunctionSum DEF ReservedTotal
<1> QED  BY <1>3 DEF Available

\* Of the engine's threads only the one that holds the tick lock is eager.
EagerCounted ==
    /\ IsFiniteSet(Eager) /\ Cardinality(Eager) \in Nat
    /\ Cardinality(Others) \in Nat
    /\ Cardinality(Eager) <= Cardinality(Others) + 1
    /\ Eager # {} => Cardinality(Eager) >= 1

\* So there are at most as many as threads that do not take it, and one more.
LEMMA EagerBound == AccountTypeOK /\ LockInv /\ ReadInv => EagerCounted
<1> SUFFICES ASSUME AccountTypeOK, LockInv, ReadInv PROVE EagerCounted
  OBVIOUS
<1>1. IsFiniteSet(Others) /\ Cardinality(Others) \in Nat
  BY FiniteAssumption, FS_CardinalityType DEF Others
<1>2. ASSUME NEW b \in Eager PROVE b \in Others \cup {lock}
  <2>1. b \in Spenders /\ stage[b] = "sized"
    BY DEF Eager, ReadInv
  <2>2. MayBuy(b)
    BY <2>1 DEF AccountTypeOK
  <2> QED  BY <2>1, <2>2 DEF MayBuy, LockInv, Others
<1>3. /\ IsFiniteSet(Others \cup {lock})
      /\ Cardinality(Others \cup {lock}) <= Cardinality(Others) + 1
  BY <1>1, FS_AddElement
<1>4. Eager \subseteq Others \cup {lock}
  BY <1>2
<1>5. /\ IsFiniteSet(Eager) /\ Cardinality(Eager) <= Cardinality(Others \cup {lock})
      /\ Cardinality(Eager) \in Nat /\ Cardinality(Others \cup {lock}) \in Nat
  BY <1>3, <1>4, FS_Subset, FS_CardinalityType
<1>6. Eager # {} => Cardinality(Eager) # 0
  BY <1>5, FS_EmptySet
<1> QED  BY <1>1, <1>3, <1>5, <1>6 DEF EagerCounted

\* One overdraft more or less.
LEMMA OneMore ==
  ASSUME NEW k \in Nat
  PROVE  /\ k * (k - k) = 0
         /\ \A n, p \in Nat : /\ k * (n + 1 - p) \in Int
                              /\ k * (n + 1 - (p - 1)) = k * (n + 1 - p) + k
                              /\ p <= n + 1 => k * (n + 1 - p) >= 0
OBVIOUS

\* Nobody has read or spent anything at the start.
LEMMA AccountInvInit == AccountInit => AccountInv
<1> SUFFICES ASSUME AccountInit PROVE AccountInv
  OBVIOUS
<1>1. LockInv
  BY LockInvInit DEF AccountInit
<1>2. AccountTypeOK
  BY <1>1, AccountAssumption DEF AccountInit, AccountTypeOK, LockInv
<1>3. ReadInv
  BY AccountAssumption DEF AccountInit, ReadInv
<1>4. Eager = {}
  BY DEF AccountInit, Eager
<1>5. SpendInv
  <2>1. Cardinality(Others) \in Nat
    BY FiniteAssumption, FS_CardinalityType DEF Others
  <2>2. Capital * Cardinality(Others) >= 0
    BY <2>1, AccountAssumption
  <2> QED  BY <1>4, <2>1, <2>2, AccountAssumption DEF SpendInv, AccountInit
<1> QED  BY <1>1, <1>2, <1>3, <1>5 DEF AccountInv

\* A step that leaves the cash and what was read alone.
LEMMA SpendsNothing ==
  ASSUME AccountInv, UNCHANGED <<cash, free>>
  PROVE  SpendInv'
<1>1. Eager' = Eager
  BY DEF Eager
<1> QED  BY <1>1 DEF SpendInv, AccountInv

\* The engine's threads leave the account alone, and a tick ends outside
\* open_long.
LEMMA EngineKeeps == AccountInv /\ EngineStep => AccountInv'
<1> SUFFICES ASSUME AccountInv, EngineStep PROVE AccountInv'
  OBVIOUS
<1> USE DEF AccountInv
<1>1. UNCHANGED accountVars
  BY DEF EngineStep
<1>2. LockInv'
  BY LockInvWorker, LockInvHandler DEF EngineStep
<1>3. ASSUME NEW b \in Spenders, stage[b] = "sized" PROVE MayBuy(b)'
  <2>1. MayBuy(b)
    BY <1>3 DEF AccountTypeOK
  <2>2. CASE b \in Clients \cup GridThreads
    BY <1>1, <2>1, <2>2, AccountAssumption DEF MayBuy, InCycle, accountVars
  <2>3. CASE b \in Actors
    <3>1. Ticking(b)
      BY <2>1, <2>3, AccountAssumption DEF MayBuy
    <3>2. ASSUME NEW t \in Workers, worker[t] = "ticking" => stage[t] = "none", WorkerStep(t)
          PROVE  Ticking(b)'
      BY <1>3, <2>3, <3>1, <3>2, ActorAssumption
      DEF WorkerStep, WorkerStarts, WorkerTicks, WorkerTickEnds, WorkerLeaves, WorkerDies,
          Ticking, Actors, LockInv, LoopTypeOK
    <3>3. ASSUME NEW h \in Handlers, handler[h] = "ticking" => stage[h] = "none",
                 HandlerStep(h) \/ Request(h)
          PROVE  Ticking(b)'
      BY <1>3, <2>3, <3>1, <3>3, ActorAssumption
      DEF HandlerStep, Request, StartSetsFlag, StartSpawns, StartSaved, StopSaved, TickAnswered,
          StartRequested, DoctorStarts, StopRequested, DoctorStops, TickRequested, Goes, Alive,
          AfterStart, Ticking, Actors, LockInv, LoopTypeOK
    <3>4. Ticking(b)'
      BY <3>2, <3>3 DEF EngineStep
    <3> QED  BY <2>3, <3>4 DEF MayBuy
  <2> QED  BY <2>2, <2>3 DEF Spenders
<1>4. AccountTypeOK'
  BY <1>1, <1>2, <1>3 DEF AccountTypeOK, LockInv, accountVars
<1>5. ReadInv'
  BY <1>1 DEF ReadInv, accountVars
<1>6. SpendInv'
  BY <1>1, SpendsNothing DEF accountVars
<1> QED  BY <1>2, <1>4, <1>5, <1>6

\* A step of the account leaves the engine's threads where they are.
LEMMA LoopKept ==
  ASSUME AccountInv, UNCHANGED loopVars
  PROVE  /\ LockInv' /\ LoopTypeOK'
         /\ \A a \in Actors : Ticking(a)' <=> Ticking(a)
BY DEF AccountInv, LockInv, LoopTypeOK, Ticking, loopVars

\* Whoever reads a positive balance finds it in the account.
LEMMA SizeKeeps == AccountInv /\ (\E b \in Spenders : SizeOrder(b)) => AccountInv'
<1> SUFFICES ASSUME AccountInv, NEW b \in Spenders, SizeOrder(b) PROVE AccountInv'
  OBVIOUS
<1> USE DEF AccountInv
<1>1. LockInv' /\ LoopTypeOK' /\ \A a \in Actors : Ticking(a)' <=> Ticking(a)
  BY LoopKept DEF SizeOrder
<1>2. /\ Available \in 0..Capital
      /\ Available > 0 => Available <= cash
  BY AvailableType, AccountAssumption DEF AccountTypeOK, SpendInv
<1>3. free' = [free EXCEPT ![b] = Available] /\ stage' = [stage EXCEPT ![b] = "sized"]
      /\ cash' = cash /\ stage[b] = "none"
      /\ UNCHANGED <<reserved, gridRunning, target, cycle>>
  BY DEF SizeOrder
<1>4. AccountTypeOK'
  <2>1. \A x \in Spenders : MayBuy(x)' <=> MayBuy(x)
    BY <1>1, <1>3 DEF MayBuy, InCycle
  <2>2. MayBuy(b)
    BY DEF SizeOrder
  <2> QED  BY <1>1, <1>2, <1>3, <2>1, <2>2 DEF AccountTypeOK
<1>5. ReadInv'
  BY <1>2, <1>3 DEF ReadInv, AccountTypeOK
<1>6. SpendInv'
  <2>1. CASE Available = 0
    <3>1. free[b] = 0
      BY <1>3, AccountAssumption DEF ReadInv
    <3>2. free' = free
      BY <1>3, <2>1, <3>1 DEF ReadInv
    <3> QED  BY <1>3, <3>2, SpendsNothing
  <2>2. CASE Available > 0
    <3>1. b \in Eager' /\ free'[b] = Available
      BY <1>2, <1>3, <2>2 DEF Eager, ReadInv
    <3>2. (Cardinality(Eager) \in Nat /\ Cardinality(Others) \in Nat
           /\ Cardinality(Eager) <= Cardinality(Others) + 1)'
      <4>1. EagerCounted'
        BY <1>1, <1>4, <1>5, EagerBound, PTL
      <4> QED  BY <4>1 DEF EagerCounted
    <3>3. Capital * (Cardinality(Others) + 1 - Cardinality(Eager')) >= 0
          /\ Capital * (Cardinality(Others) + 1 - Cardinality(Eager')) \in Int
      BY <3>2, AccountAssumption, OneMore DEF Others
    <3> HIDE DEF Eager
    <3>4. cash' - free'[b] >= -Capital * (Cardinality(Others) + 1 - Cardinality(Eager'))
      BY <1>2, <1>3, <2>2, <3>1, <3>3 DEF AccountTypeOK
    <3> QED  BY <1>3, <3>1, <3>4 DEF SpendInv, Others
  <2> QED  BY <1>2, <2>1, <2>2
<1> QED  BY <1>1, <1>4, <1>5, <1>6

\* Whoever pays is no longer eager, and paid no more than it had read.
LEMMA PayKeeps == AccountInv /\ (\E b \in Spenders : PayOrder(b)) => AccountInv'
<1> SUFFICES ASSUME AccountInv, NEW b \in Spenders, PayOrder(b) PROVE AccountInv'
  OBVIOUS
<1> USE DEF AccountInv
<1>1. LockInv' /\ LoopTypeOK' /\ \A a \in Actors : Ticking(a)' <=> Ticking(a)
  BY LoopKept DEF PayOrder
<1>2. PICK cost \in Nat : /\ cash' = cash - cost
                          /\ cost <= free[b]
  BY AccountAssumption DEF PayOrder, ReadInv, AccountTypeOK
<1>3. free' = [free EXCEPT ![b] = 0] /\ stage' = [stage EXCEPT ![b] = "none"]
      /\ UNCHANGED <<reserved, gridRunning, target, cycle>>
  BY DEF PayOrder
<1>4. AccountTypeOK'
  <2>1. \A x \in Spenders : MayBuy(x)' <=> MayBuy(x)
    BY <1>1, <1>3 DEF MayBuy, InCycle
  <2> QED  BY <1>1, <1>2, <1>3, <2>1 DEF AccountTypeOK
<1>5. ReadInv'
  BY <1>3, AccountAssumption DEF ReadInv, AccountTypeOK
<1>6. SpendInv'
  <2>1. CASE free[b] = 0
    <3>1. free' = free /\ cash' = cash
      BY <1>2, <1>3, <2>1 DEF ReadInv, AccountTypeOK
    <3> QED  BY <3>1, SpendsNothing
  <2>2. CASE free[b] > 0
    <3> DEFINE n == Cardinality(Others)
               p == Cardinality(Eager)
    <3>1. b \in Eager /\ Eager' = Eager \ {b}
      BY <1>3, <2>2 DEF Eager, ReadInv
    <3>2. /\ IsFiniteSet(Eager) /\ p \in Nat /\ n \in Nat /\ p >= 1
      BY <3>1, EagerBound DEF EagerCounted
    <3>3. Cardinality(Eager') = p - 1
      BY <3>1, <3>2, FS_RemoveElement
    <3>4. PICK w \in Eager : cash - free[w] >= -Capital * (n + 1 - p)
      BY <3>1 DEF SpendInv
    <3>5. /\ Capital * (n + 1 - p) \in Int
          /\ Capital * (n + 1 - (p - 1)) = Capital * (n + 1 - p) + Capital
      BY <3>2, AccountAssumption, OneMore
    <3>6. \A v \in Spenders : free[v] \in 0..Capital
      BY DEF ReadInv
    <3>7. cash \in Int /\ cash' \in Int /\ cash' <= cash /\ cash' >= cash - free[b]
      BY <1>2, <3>6, AccountAssumption DEF AccountTypeOK
    <3>8. cash' <= Capital
      BY <3>7, AccountAssumption DEF SpendInv
    <3>9. ASSUME NEW v \in Eager, v # b
          PROVE  \E u \in Eager' : cash' - free'[u] >= -Capital * (n + 1 - (p - 1))
      <4>1. v \in Spenders /\ w \in Spenders
        BY DEF Eager
      <4>2. free'[v] = free[v] /\ (w # b => free'[w] = free[w])
        BY <1>3, <3>9, <4>1 DEF ReadInv
      <4> HIDE DEF n, p
      <4>3. CASE w = b
        <5>1. cash' - free'[v] >= -Capital * (n + 1 - (p - 1))
          BY <3>4, <3>5, <3>6, <3>7, <4>1, <4>2, <4>3, AccountAssumption
        <5> QED  BY <3>1, <3>9, <5>1
      <4>4. CASE w # b
        <5>1. cash' - free'[w] >= -Capital * (n + 1 - (p - 1))
          BY <3>4, <3>5, <3>6, <3>7, <4>1, <4>2, <4>4, AccountAssumption
        <5> QED  BY <3>1, <4>4, <5>1
      <4> QED  BY <4>3, <4>4
    <3>10. CASE Eager' = {}
      <4>1. w = b
        BY <3>1, <3>10
      <4>2. p = 1
        BY <3>2, <3>3, <3>10, FS_EmptySet
      <4>3. n + 1 - p = n
        BY <3>2, <4>2
      <4> HIDE DEF n, p
      <4>4. cash' >= -Capital * n
        BY <3>4, <3>5, <3>6, <3>7, <4>1, <4>3, AccountAssumption
      <4> QED  BY <3>8, <3>10, <4>4 DEF SpendInv, n, Others
    <3>11. CASE Eager' # {}
      <4>1. PICK v \in Eager : v # b
        BY <3>1, <3>11
      <4>2. \E u \in Eager' : cash' - free'[u] >= -Capital * (n + 1 - (p - 1))
        BY <3>9, <4>1
      <4> QED  BY <3>3, <3>8, <3>11, <4>2 DEF SpendInv, Others
    <3> QED  BY <3>10, <3>11
  <2> QED  BY <2>1, <2>2, AccountAssumption DEF ReadInv
<1> QED  BY <1>1, <1>4, <1>5, <1>6

\* Reserving reads the balance too, but takes nothing out of the account.
LEMMA ReserveKeeps ==
  ASSUME AccountInv, NEW b \in Spenders,
         \/ \E g \in Grids : ReserveLooks(b, g)
         \/ ReserveBooks(b)
  PROVE  AccountInv'
<1> USE DEF AccountInv
<1>0. UNCHANGED loopVars /\ UNCHANGED <<cash, free, cycle>>
  BY DEF ReserveLooks, ReserveBooks
<1>1. LockInv' /\ LoopTypeOK' /\ \A a \in Actors : Ticking(a)' <=> Ticking(a)
  BY <1>0, LoopKept
<1>2. \A x \in Spenders : MayBuy(x)' <=> MayBuy(x)
  BY <1>0, <1>1 DEF MayBuy, InCycle
<1>3. SpendInv'
  BY <1>0, SpendsNothing
<1>4. CASE \E g \in Grids : ReserveLooks(b, g)
  <2>1. AccountTypeOK'
    BY <1>1, <1>2, <1>4 DEF AccountTypeOK, ReserveLooks
  <2>2. ReadInv'
    BY <1>4 DEF ReadInv, ReserveLooks, AccountTypeOK
  <2> QED  BY <1>1, <1>3, <2>1, <2>2
<1>5. CASE ReserveBooks(b)
  <2>1. target[b] \in Grids
    BY <1>5 DEF ReadInv, ReserveBooks
  <2>2. reserved' \in [Grids -> Nat]
    <3>1. reserved' = [reserved EXCEPT ![target[b]] = reserved[target[b]] + Allocation]
      BY <1>5 DEF ReserveBooks
    <3>2. reserved[target[b]] + Allocation \in Nat
      BY <2>1, AccountAssumption DEF AccountTypeOK
    <3> QED  BY <3>1, <3>2 DEF AccountTypeOK
  <2>3. AccountTypeOK'
    BY <1>1, <1>2, <1>5, <2>1, <2>2 DEF AccountTypeOK, ReserveBooks
  <2>4. ReadInv'
    BY <1>5 DEF ReadInv, ReserveBooks, AccountTypeOK
  <2> QED  BY <1>1, <1>3, <2>3, <2>4
<1> QED  BY <1>4, <1>5

\* Nor do the grids' own steps; a cycle ends outside open_long.
LEMMA GridsKeep ==
  ASSUME AccountInv,
         \/ \E b \in GridThreads : CycleBegins(b) \/ CycleEnds(b)
         \/ \E g \in Grids : StartLocked(g) \/ StopGrid(g)
  PROVE  AccountInv'
<1> USE DEF AccountInv
<1>0. UNCHANGED loopVars /\ UNCHANGED <<cash, free, stage, target>>
  BY DEF CycleBegins, CycleEnds, StartLocked, StopGrid
<1>1. LockInv' /\ LoopTypeOK' /\ \A a \in Actors : Ticking(a)' <=> Ticking(a)
  BY <1>0, LoopKept
<1>2. SpendInv' /\ ReadInv'
  BY <1>0, SpendsNothing DEF ReadInv
<1>3. CASE \E b \in GridThreads : CycleBegins(b) \/ CycleEnds(b)
  <2>1. PICK b \in GridThreads : CycleBegins(b) \/ CycleEnds(b)
    BY <1>3
  <2>2. cycle' \in [GridThreads -> SUBSET Grids] /\ UNCHANGED <<reserved, gridRunning>>
    BY <2>1 DEF AccountTypeOK, CycleBegins, CycleEnds
  <2>3. \A x \in GridThreads : stage[x] = "sized" /\ InCycle(x) => InCycle(x)'
    BY <2>1 DEF AccountTypeOK, CycleBegins, CycleEnds, InCycle
  <2>4. \A x \in Spenders : stage[x] = "sized" => MayBuy(x)'
    BY <1>1, <2>3 DEF AccountTypeOK, MayBuy
  <2> QED  BY <1>0, <1>1, <1>2, <2>2, <2>4 DEF AccountTypeOK
<1>4. CASE \E g \in Grids : StartLocked(g) \/ StopGrid(g)
  <2>1. PICK g \in Grids : StartLocked(g) \/ StopGrid(g)
    BY <1>4
  <2>2. reserved' \in [Grids -> Nat] /\ gridRunning' \subseteq Grids /\ cycle' = cycle
    BY <2>1 DEF AccountTypeOK, StartLocked, StopGrid
  <2>3. \A x \in Spenders : MayBuy(x)' <=> MayBuy(x)
    BY <1>1, <2>2 DEF MayBuy, InCycle
  <2> QED  BY <1>0, <1>1, <1>2, <2>2, <2>3 DEF AccountTypeOK
<1> QED  BY <1>3, <1>4

\* AccountInv is an invariant of all that spend from the account.
LEMMA AccountInvHolds == AccountSpec => []AccountInv
<1>1. ASSUME AccountInv, [AccountNext]_vars PROVE AccountInv'
  <2>1. CASE EngineStep
    BY <1>1, <2>1, EngineKeeps
  <2>2. CASE \E b \in Spenders : SizeOrder(b)
    BY <1>1, <2>2, SizeKeeps
  <2>3. CASE \E b \in Spenders : PayOrder(b)
    BY <1>1, <2>3, PayKeeps
  <2>4. CASE \/ \E b \in Spenders : ReserveBooks(b)
             \/ \E b \in Clients, g \in Grids : ReserveLooks(b, g)
             \/ \E b \in GridThreads : CycleRelocks(b)
    <3>1. \A b \in GridThreads : cycle[b] \subseteq Grids
      BY <1>1 DEF AccountInv, AccountTypeOK
    <3>2. \E b \in Spenders : ReserveBooks(b) \/ \E g \in Grids : ReserveLooks(b, g)
      BY <2>4, <3>1 DEF CycleRelocks, Spenders
    <3> QED  BY <1>1, <3>2, ReserveKeeps
  <2>5. CASE \/ \E b \in GridThreads : CycleBegins(b) \/ CycleEnds(b)
             \/ \E g \in Grids : StartLocked(g) \/ StopGrid(g)
    BY <1>1, <2>5, GridsKeep
  <2>6. CASE UNCHANGED vars
    <3>1. UNCHANGED loopVars /\ UNCHANGED accountVars
      BY <2>6 DEF vars
    <3>2. LockInv' /\ LoopTypeOK' /\ \A a \in Actors : Ticking(a)' <=> Ticking(a)
      BY <1>1, <3>1, LoopKept
    <3>3. SpendInv'
      BY <1>1, <3>1, SpendsNothing DEF accountVars
    <3> QED  BY <1>1, <3>1, <3>2, <3>3 DEF AccountInv, AccountTypeOK, ReadInv, MayBuy, InCycle, accountVars
  <2> QED  BY <1>1, <2>1, <2>2, <2>3, <2>4, <2>5, <2>6 DEF AccountNext
<1> QED  BY <1>1, AccountInvInit, PTL DEF AccountSpec

\* Whoever is inside open_long may be there: an engine thread in its tick, the
\* price thread in its cycle (engine.py:1287, grid_legacy.py:996).
THEOREM AccountTypeCorrect == AccountSpec => []AccountTypeOK
<1>1. AccountInv => AccountTypeOK
  BY DEF AccountInv
<1> QED  BY <1>1, AccountInvHolds, PTL

\* However many requests and price threads race with the engine, and however
\* their reads and payments interleave, the account is overdrawn by no more
\* than its capital for each thread that does not take the tick lock
\* (engine.py:1280).
THEOREM OverdraftIsBounded == AccountSpec => []OverdraftBounded
<1>1. ASSUME AccountInv PROVE OverdraftBounded
  <2> USE <1>1 DEF AccountInv
  <2>1. CASE Eager = {}
    BY <2>1 DEF SpendInv, OverdraftBounded, Others
  <2>2. CASE Eager # {}
    <3> DEFINE n == Cardinality(Others)
               p == Cardinality(Eager)
    <3>1. p \in Nat /\ n \in Nat /\ p >= 1
      BY <2>2, EagerBound DEF EagerCounted
    <3>2. PICK w \in Eager : cash - free[w] >= -Capital * (n + 1 - p)
      BY <2>2 DEF SpendInv
    <3>3. free[w] \in 0..Capital /\ cash \in Int
      BY DEF ReadInv, Eager, AccountTypeOK
    <3>4. Capital * (n + 1 - p) <= Capital * n
      <4> HIDE DEF n, p
      <4>1. n + 1 - p <= n
        BY <3>1
      <4> QED  BY <3>1, <4>1, AccountAssumption
    <3>5. Capital * (n + 1 - p) \in Int /\ Capital * n \in Int
      BY <3>1, AccountAssumption
    <3>6. cash >= -Capital * n
      <4> HIDE DEF n, p
      <4> QED  BY <3>2, <3>3, <3>4, <3>5, AccountAssumption
    <3> QED  BY <3>6 DEF OverdraftBounded, Others
  <2> QED  BY <2>1, <2>2
<1> QED  BY <1>1, AccountInvHolds, PTL
=============================================================================
