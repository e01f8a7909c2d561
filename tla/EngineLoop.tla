------------------------------ MODULE EngineLoop ------------------------------
(***************************************************************************)
(* bot/engine.py: starting and stopping the engine's loop, and the lock    *)
(* that keeps its ticks apart; with the HTTP handlers of bot/server.py     *)
(* that start and stop it, and the restore at boot.                        *)
(*                                                                         *)
(* HTTP handlers run in threads of their own, and one may come between any *)
(* two steps of another or of a loop thread.  What a tick does is left to  *)
(* the modules of the components that it calls.                            *)
(***************************************************************************)
EXTENDS Naturals

CONSTANTS
    Handlers,     \* HTTP threads
    Workers,      \* threads for engine.run: a bound on those alive at once
    None,         \* nobody
    MaxCrashes    \* bound on the crashes of a behaviour

ASSUME ActorAssumption == None \notin Handlers \cup Workers /\ Handlers \cap Workers = {}
ASSUME CrashAssumption == MaxCrashes \in Nat

VARIABLES
    running,      \* self.running
    handle,       \* self._thread
    worker,       \* where each loop thread is
    handler,      \* what each HTTP thread is doing
    lock,         \* who holds self._tick_lock
    restorePoint, \* "engine_running" in the kv table
    crashes       \* number of crashes

loopVars == <<running, handle, worker, handler, lock, restorePoint, crashes>>

Actors == Handlers \cup Workers

Alive(t) == worker[t] # "none"

-----------------------------------------------------------------------------
(* The tick lock: tick_once *)

\* Seeded fault: the lock is tested and taken without looking again.
AcquireAnyway(a) == lock' = a

Acquire(a) == lock = None /\ lock' = a

\* Seeded fault: a tick that raises keeps the lock.
ReleasedUnlessFailed(failed) == IF failed THEN lock ELSE None

\* try ... finally: the lock is released whether the tick failed or not.
Released(failed) == None

-----------------------------------------------------------------------------
(* The loop thread: run *)

\* The new thread sets the flag again.
WorkerStarts(t) ==
    /\ worker[t] = "born"
    /\ worker' = [worker EXCEPT ![t] = "waiting"]
    /\ running' = TRUE
    /\ UNCHANGED <<handle, handler, lock, restorePoint, crashes>>

WorkerTicks(t) ==
    /\ worker[t] = "waiting" /\ running
    /\ Acquire(t)
    /\ worker' = [worker EXCEPT ![t] = "ticking"]
    /\ UNCHANGED <<running, handle, handler, restorePoint, crashes>>

\* tick_once by a thread that does not get the lock does nothing; so does a
\* loop thread that skips, which needs no action.
WorkerTickEnds(t) ==
    /\ worker[t] = "ticking"
    /\ \E failed \in BOOLEAN : lock' = Released(failed)
    /\ worker' = [worker EXCEPT ![t] = "waiting"]
    /\ UNCHANGED <<running, handle, handler, restorePoint, crashes>>

\* Seeded fault: only the loop that start() knows of looks at the flag.
WorkerLeavesIfCurrent(t) ==
    /\ worker[t] = "waiting" /\ ~running /\ handle = t
    /\ worker' = [worker EXCEPT ![t] = "leaving"]
    /\ UNCHANGED <<running, handle, handler, lock, restorePoint, crashes>>

\* The loop has found the flag down; its thread is alive a little longer.
WorkerLeaves(t) ==
    /\ worker[t] = "waiting" /\ ~running
    /\ worker' = [worker EXCEPT ![t] = "leaving"]
    /\ UNCHANGED <<running, handle, handler, lock, restorePoint, crashes>>

WorkerDies(t) ==
    /\ worker[t] = "leaving"
    /\ worker' = [worker EXCEPT ![t] = "none"]
    /\ UNCHANGED <<running, handle, handler, lock, restorePoint, crashes>>

-----------------------------------------------------------------------------
(* HTTP handlers.  One that serves the doctor does what the engine's own     *)
(* buttons do, but for the test of the flag and the restore point.           *)

Goes(h, from, to) == handler[h] = from /\ handler' = [handler EXCEPT ![h] = to]

StartRequested(h) ==
    /\ Goes(h, "idle", IF running THEN "save start" ELSE "start")
    /\ UNCHANGED <<running, handle, worker, lock, restorePoint, crashes>>

DoctorStarts(h) ==
    /\ Goes(h, "idle", "doctor start")
    /\ UNCHANGED <<running, handle, worker, lock, restorePoint, crashes>>

\* What follows engine.start(), by handler.
AfterStart(h) == IF handler[h] \in {"doctor start", "doctor spawn"} THEN "idle" ELSE "save start"

\* start(): the flag goes up, and a thread that is alive is trusted to go on.
StartSetsFlag(h) ==
    /\ handler[h] \in {"start", "doctor start"}
    /\ running' = TRUE
    /\ handler' = [handler EXCEPT ![h] =
           IF handle # None /\ Alive(handle) THEN AfterStart(h)
           ELSE IF @ = "start" THEN "spawn" ELSE "doctor spawn"]
    /\ UNCHANGED <<handle, worker, lock, restorePoint, crashes>>

\* The rest of start(), after the candles and opportunities are loaded.
StartSpawns(h) ==
    /\ handler[h] \in {"spawn", "doctor spawn"}
    /\ \E t \in Workers :
         /\ ~Alive(t)
         /\ handle' = t
         /\ worker' = [worker EXCEPT ![t] = "born"]
    /\ handler' = [handler EXCEPT ![h] = AfterStart(h)]
    /\ UNCHANGED <<running, lock, restorePoint, crashes>>

StartSaved(h) ==
    /\ Goes(h, "save start", "idle")
    /\ restorePoint' = TRUE
    /\ UNCHANGED <<running, handle, worker, lock, crashes>>

StopRequested(h) ==
    /\ Goes(h, "idle", "save stop")
    /\ running' = FALSE
    /\ UNCHANGED <<handle, worker, lock, restorePoint, crashes>>

DoctorStops(h) ==
    /\ handler[h] = "idle"
    /\ running' = FALSE
    /\ UNCHANGED <<handle, worker, handler, lock, restorePoint, crashes>>

StopSaved(h) ==
    /\ Goes(h, "save stop", "idle")
    /\ restorePoint' = FALSE
    /\ UNCHANGED <<running, handle, worker, lock, crashes>>

\* /api/engine/tick, when the lock is free.
TickRequested(h) ==
    /\ Goes(h, "idle", "ticking")
    /\ Acquire(h)
    /\ UNCHANGED <<running, handle, worker, restorePoint, crashes>>

TickAnswered(h) ==
    /\ Goes(h, "ticking", "idle")
    /\ \E failed \in BOOLEAN : lock' = Released(failed)
    /\ UNCHANGED <<running, handle, worker, restorePoint, crashes>>

-----------------------------------------------------------------------------
\* The process dies and boots: the engine is started if the restore point
\* says so.  A thread that was alive is gone.
Crash ==
    /\ crashes < MaxCrashes
    /\ crashes' = crashes + 1
    /\ running' = restorePoint
    /\ IF restorePoint
       THEN \E t \in Workers :
              /\ handle' = t
              /\ worker' = [u \in Workers |-> IF u = t THEN "born" ELSE "none"]
       ELSE /\ handle' = None
            /\ worker' = [t \in Workers |-> "none"]
    /\ handler' = [h \in Handlers |-> "idle"]
    /\ lock' = None
    /\ UNCHANGED restorePoint

Init ==
    /\ running = FALSE
    /\ handle = None
    /\ worker = [t \in Workers |-> "none"]
    /\ handler = [h \in Handlers |-> "idle"]
    /\ lock = None
    /\ restorePoint = FALSE
    /\ crashes = 0

\* What a thread does once it is under way.
WorkerStep(t) ==
    WorkerStarts(t) \/ WorkerTicks(t) \/ WorkerTickEnds(t) \/ WorkerLeaves(t) \/ WorkerDies(t)

HandlerStep(h) ==
    StartSetsFlag(h) \/ StartSpawns(h) \/ StartSaved(h) \/ StopSaved(h) \/ TickAnswered(h)

Request(h) ==
    \/ StartRequested(h) \/ DoctorStarts(h)
    \/ StopRequested(h) \/ DoctorStops(h)
    \/ TickRequested(h)

Next ==
    \/ \E t \in Workers : WorkerStep(t)
    \/ \E h \in Handlers : HandlerStep(h) \/ Request(h)
    \/ Crash

Spec == Init /\ [][Next]_loopVars

\* Threads that are under way go on; nobody has to send a request.
Fairness ==
    /\ \A t \in Workers : WF_loopVars(WorkerStep(t))
    /\ \A h \in Handlers : WF_loopVars(HandlerStep(h))

FairSpec == Spec /\ Fairness

-----------------------------------------------------------------------------
(* Properties *)

WorkerStates == {"none", "born", "waiting", "ticking", "leaving"}
HandlerStates == {"idle", "start", "spawn", "save start", "doctor start", "doctor spawn",
                  "save stop", "ticking"}

Ticking(a) == IF a \in Workers THEN worker[a] = "ticking" ELSE handler[a] = "ticking"

\* Types; the lock is held by a thread that is in a tick.
LoopTypeOK ==
    /\ running \in BOOLEAN
    /\ handle \in Workers \cup {None}
    /\ worker \in [Workers -> WorkerStates]
    /\ handler \in [Handlers -> HandlerStates]
    /\ lock \in Actors \cup {None}
    /\ restorePoint \in BOOLEAN
    /\ crashes \in 0..MaxCrashes
    /\ lock # None => Ticking(lock)

\* engine.py:1279 "the run loop and a manual /api/engine/tick must never
\* interleave": no two threads are in a tick, whatever starts, stops and
\* second loops there are.
TicksExclusive == \A a, b \in Actors : Ticking(a) /\ Ticking(b) => a = b

\* A tick, failed or not, does not keep the next one out for ever.
LockIsFreed == lock # None ~> lock = None

\* A loop told to stop, and not told otherwise, ends: no thread is left.
StoppedLoopsEnd ==
    ~running ~> (running \/ \A t \in Workers : worker[t] = "none")

Quiet == \A h \in Handlers : handler[h] \in {"idle", "ticking"}

(* What the documentation says of the program *)

\* engine.py:1635 "so /api/engine/start reports running=true even if the
\* thread hasn't been scheduled yet": an engine reported as running has a
\* loop that runs, or will.
RunningHasLoop ==
    running /\ Quiet => \E t \in Workers : worker[t] \in {"born", "waiting", "ticking"}
=============================================================================
