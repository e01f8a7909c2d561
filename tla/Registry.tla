------------------------------ MODULE Registry ------------------------------
(***************************************************************************)
(* registry.json of bot/exchange/registry.py: which profiles there are, on *)
(* which port each has its backend, which one is active and which one was  *)
(* launched last; with those who use it: launcher.py, the handlers of      *)
(* bot/server.py that start and activate profiles, and stop_all.py.        *)
(*                                                                         *)
(* Every update reads the whole file and writes the whole file, without a  *)
(* lock and from several processes.  Writing empties the file first; who   *)
(* reads it then finds no JSON and goes on with an empty registry.         *)
(***************************************************************************)
EXTENDS Integers, FiniteSetsExt

CONSTANTS
    Profiles,     \* profile ids
    Wallex,       \* the built-in profile
    NoProfile,
    Launchers,    \* terminals that run launcher.py
    Servers,      \* HTTP threads of the backends
    Jobs,         \* the wizard's jobs, which register profiles as well
    Ports,        \* 0..MaxPort of them from DEFAULT_PORT on
    MaxWork       \* bound on the updates of the registry and the wizard's jobs

ASSUME RegistryAssumption ==
    /\ Wallex \in Profiles /\ NoProfile \notin Profiles
    /\ Ports \subseteq Nat \ {0} /\ 1 \in Ports
    /\ MaxWork \in Nat

Updaters == Launchers \cup Servers \cup Jobs

VARIABLES
    file,         \* what registry.json says
    writing,      \* those who have emptied it and not written it yet
    update,       \* the update each one is in
    work,         \* number of updates and jobs so far
    running,      \* the backends: profile and port
    launch,       \* how far each launcher is
    launched,     \* the profile launched last
    registered,   \* the profiles ever registered
    collided,     \* whether an update that Collides was written
    overlapped    \* whether two updates overlapped

fileVars == <<file, writing, update, work, registered, collided, overlapped>>
registryVars == <<fileVars, running, launch, launched>>

NoUpdate == [op |-> "none"]
NoLaunch == [stage |-> "none"]
NoPort == 0
DefaultPort == 1

EmptyFile == [port |-> [p \in Profiles |-> NoPort], active |-> NoProfile, last |-> NoProfile]

\* _read_registry: a file that is being written is no JSON.
Seen == IF writing = {} THEN file ELSE EmptyFile

Registered(f) == {p \in Profiles : f.port[p] # NoPort}

-----------------------------------------------------------------------------
(* One update: read, change, write *)

\* Seeded fault: the ports of the others are not looked at.
NextFreePortFirst(f) == DefaultPort

\* _next_free_port: the first port no registered profile has.
NextFreePort(f) == Min(Ports \ {f.port[p] : p \in Registered(f)})

Other(a, b) == IF a # NoPort THEN a ELSE b

\* Seeded fault: the file is written with the one entry.
AfterRegisterAlone(f, u) ==
    [EmptyFile EXCEPT !.port[u.pid] = Other(u.port, NextFreePort(f)), !.active = u.pid, !.last = f.last]

\* register_profile: an entry that exists keeps its port unless one is given.
AfterRegister(f, u) ==
    [f EXCEPT !.port[u.pid] = Other(u.port, Other(@, NextFreePort(f))),
              !.active = IF u.setActive \/ @ = NoProfile THEN u.pid ELSE @]

\* Seeded fault: launching makes the profile active instead.
AfterMarkActive(f, u) == [f EXCEPT !.active = u.pid]

\* mark_last_launched.
AfterMark(f, u) == [f EXCEPT !.last = u.pid]

Changed(u) ==
    CASE u.op = "register" -> AfterRegister(u.seen, u)
      [] u.op = "mark" -> AfterMark(u.seen, u)
      [] u.op = "activate" -> [u.seen EXCEPT !.active = u.pid]

Update(op, pid, port, setActive) ==
    [op |-> op, pid |-> pid, port |-> port, setActive |-> setActive, stage |-> "read", seen |-> Seen]

\* What users ask for is counted, and bounded.
Asked == work < MaxWork /\ work' = work + 1

Free(a) == update[a] = NoUpdate
CanPort(u) == u.op # "register" \/ u.port # NoPort
    \/ \E q \in Ports : \A p \in Registered(u.seen) : u.seen.port[p] # q

\* The update begins with what is read; of a profile that is not there,
\* marking and activating come to nothing.
Begins(a, u) ==
    /\ Free(a) /\ CanPort(u)
    /\ update' = IF u.op = "register" \/ u.pid \in Registered(Seen)
                 THEN [update EXCEPT ![a] = u] ELSE update
    /\ overlapped' = (overlapped \/ \E b \in Updaters : ~Free(b))
    /\ UNCHANGED <<file, writing, registered, collided>>

\* mark_last_launched reads the file a second time.
ReadsAgain(a) ==
    /\ ~Free(a) /\ update[a].stage = "read" /\ update[a].op = "mark"
    /\ update' = [update EXCEPT ![a].seen = Seen, ![a].stage = "reread"]
    /\ UNCHANGED <<file, writing, work, registered, collided, overlapped>>

\* _write_registry: write_text empties the file ...
Empties(a) ==
    /\ ~Free(a) /\ update[a].stage \in IF update[a].op = "mark" THEN {"reread"} ELSE {"read"}
    /\ writing' = writing \cup {a}
    /\ update' = [update EXCEPT ![a].stage = "writing"]
    /\ UNCHANGED <<file, work, registered, collided, overlapped>>

\* The port asked for is another profile's, or not the one the profile has.
Collides(u) ==
    /\ u.port # NoPort
    /\ \/ u.seen.port[u.pid] \notin {NoPort, u.port}
       \/ \E p \in Profiles \ {u.pid} : u.seen.port[p] = u.port

\* ... and fills it.
Fills(a) ==
    LET u == update[a]
    IN  /\ ~Free(a) /\ u.stage = "writing"
        /\ file' = Changed(u)
        /\ writing' = writing \ {a}
        /\ update' = [update EXCEPT ![a] = NoUpdate]
        /\ registered' = registered \cup IF u.op = "register" THEN {u.pid} ELSE {}
        /\ collided' = (collided \/ Collides(u))
        /\ UNCHANGED <<work, overlapped>>

UpdateStep(a) ==
    /\ ReadsAgain(a) \/ Empties(a) \/ Fills(a)
    /\ UNCHANGED <<running, launch, launched>>

-----------------------------------------------------------------------------
(* launcher.py *)

PortsInUse == {b.port : b \in running}

\* active_profile_id.
ActiveProfile(f) ==
    IF f.active \in Registered(f) THEN f.active
    ELSE IF Wallex \in Registered(f) THEN Wallex ELSE NoProfile

\* default_boot_profile_id: the profile launched last, else the active one, else
\* any; where there is none the launcher takes wallex.
DefaultBoot(f) ==
    IF f.last \in Registered(f) THEN f.last
    ELSE IF ActiveProfile(f) # NoProfile THEN ActiveProfile(f)
    ELSE IF Registered(f) # {} THEN CHOOSE p \in Registered(f) : TRUE
    ELSE Wallex

\* _next_free_port_os(8788): a port that nobody listens on.
FreeOnOs == Ports \ ({DefaultPort} \cup PortsInUse)

\* main: with --profile or without, a profile that is not there is registered
\* on a port that nobody listens on.
Launch(l, p) ==
    /\ launch[l] = NoLaunch /\ Free(l) /\ Asked
    /\ IF p \in Registered(Seen)
       THEN /\ launch' = [launch EXCEPT ![l] = [stage |-> "found", pid |-> p, port |-> Seen.port[p]]]
            /\ UNCHANGED <<file, writing, update, registered, collided, overlapped>>
       ELSE /\ FreeOnOs # {}
            /\ launch' = [launch EXCEPT ![l] = [stage |-> "found", pid |-> p, port |-> Min(FreeOnOs)]]
            /\ Begins(l, Update("register", p, Min(FreeOnOs), FALSE))
    /\ UNCHANGED <<running, launched>>

LaunchDefault(l) == Launch(l, DefaultBoot(Seen))

\* The boot becomes the next default.
LaunchMarks(l) ==
    /\ launch[l] # NoLaunch /\ launch[l].stage = "found"
    /\ Begins(l, Update("mark", launch[l].pid, NoPort, FALSE))
    /\ launch' = [launch EXCEPT ![l].stage = "marked"]
    /\ launched' = launch[l].pid
    /\ UNCHANGED <<running, work>>

\* kill_old_instance of whoever listens on the port, then the backend's run.
LaunchRuns(l) ==
    /\ launch[l] # NoLaunch /\ launch[l].stage = "marked" /\ Free(l)
    /\ running' = {b \in running : b.port # launch[l].port}
                    \cup {[pid |-> launch[l].pid, port |-> launch[l].port]}
    /\ launch' = [launch EXCEPT ![l] = NoLaunch]
    /\ UNCHANGED <<fileVars, launched>>

-----------------------------------------------------------------------------
(* The handlers of a backend, and its end *)

\* profiles_activate.
Activate(s, p) ==
    /\ Asked
    /\ Begins(s, Update("activate", p, NoPort, FALSE))
    /\ UNCHANGED <<running, launch, launched>>

\* profiles_start: whoever listens on the profile's port, it is taken to run.
StartProfile(s, p) ==
    /\ Asked
    /\ p \in Registered(Seen)
    /\ Begins(s, Update("mark", p, NoPort, FALSE))
    /\ running' = running \cup
           IF Seen.port[p] \in PortsInUse THEN {} ELSE {[pid |-> p, port |-> Seen.port[p]]}
    /\ launched' = p
    /\ UNCHANGED launch

\* create_app of wallex, where there is data of the time before profiles:
\* migrate_legacy_data registers it on the default port.
Migrate(s) ==
    /\ Asked
    /\ Begins(s, Update("register", Wallex, DefaultPort, TRUE))
    /\ UNCHANGED <<running, launch, launched>>

\* A backend is stopped, by the user or by stop_all.py.
Stops ==
    /\ \E b \in running : running' = running \ {b}
    /\ UNCHANGED <<fileVars, launch, launched>>

-----------------------------------------------------------------------------
RegistryInit ==
    /\ file = EmptyFile
    /\ writing = {} /\ work = 0
    /\ update = [a \in Updaters |-> NoUpdate]
    /\ running = {}
    /\ launch = [l \in Launchers |-> NoLaunch]
    /\ launched = NoProfile
    /\ registered = {} /\ collided = FALSE /\ overlapped = FALSE

RegistryNext ==
    \/ \E a \in Updaters : UpdateStep(a)
    \/ \E l \in Launchers :
         \/ LaunchDefault(l) \/ LaunchMarks(l) \/ LaunchRuns(l)
         \/ \E p \in Profiles : Launch(l, p)
    \/ \E s \in Servers :
         \/ Migrate(s)
         \/ \E p \in Profiles : Activate(s, p) \/ StartProfile(s, p)
    \/ Stops

-----------------------------------------------------------------------------
(* Properties *)

\* Types; only those in an update write.
RegistryTypeOK ==
    /\ file \in [port : [Profiles -> Ports \cup {NoPort}],
                 active : Profiles \cup {NoProfile}, last : Profiles \cup {NoProfile}]
    /\ writing = {a \in Updaters : ~Free(a) /\ update[a].stage = "writing"}
    /\ running \subseteq [pid : Profiles, port : Ports]

\* registry.py:14 "shared across backends so every launcher instance sees all
\* profiles and their ports": only updates that overlap lose an entry.
NoProfileLost == overlapped \/ registered \subseteq Registered(file)

\* FIX(user req), launcher.py:147: the next start without --profile boots the
\* profile launched last, whatever was registered or activated since.
BootsLastLaunched ==
    (~overlapped /\ launched # NoProfile /\ \A a \in Updaters : Free(a)) => DefaultBoot(file) = launched

\* launcher.py:11 "kills only the process listening on ITS OWN port, so several
\* profiles can run simultaneously": a launch stops no other profile's backend,
\* as long as updates do not overlap, no profile is moved to another port, and
\* no port that main chose by looking at the OS belonged to another.
LaunchSparesOthers ==
    [][launch' # launch /\ ~overlapped /\ ~collided =>
         \A b \in running \ running' :
             \E l \in Launchers : launch[l] # launch'[l] /\ launch[l].pid = b.pid]_registryVars
=============================================================================
