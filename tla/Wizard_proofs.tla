---------------------------- MODULE Wizard_proofs ----------------------------
(***************************************************************************)
(* What holds of the registry and of the setup wizard for any number of    *)
(* profiles, launchers, HTTP threads, ports and updates, and any answers   *)
(* of the AI.                                                              *)
(***************************************************************************)
EXTENDS Wizard, WellFoundedInduction, TLAPS

-----------------------------------------------------------------------------
(* Types *)

\* The registry file, and the updates and launches that are under way.
Files == [port : [Profiles -> Ports \cup {NoPort}],
          active : Profiles \cup {NoProfile}, last : Profiles \cup {NoProfile}]
Updates == [op : {"register", "mark", "activate"}, pid : Profiles, port : Ports \cup {NoPort},
            setActive : BOOLEAN, stage : {"read", "reread", "writing"}, seen : Files]
Launches == [stage : {"found", "marked"}, pid : Profiles, port : Ports]

\* The update in hand: a port can be found for what it registers.
UpdateInv ==
    /\ update \in [Updaters -> Updates \cup {NoUpdate}]
    /\ \A a \in Updaters : ~Free(a) => CanPort(update[a])

\* Types of the registry file and of the updates of it.
FileTypes ==
    /\ file \in Files
    /\ writing = {a \in Updaters : ~Free(a) /\ update[a].stage = "writing"}
    /\ overlapped \in BOOLEAN /\ collided \in BOOLEAN
    /\ UpdateInv

\* Types of the launchers and of what they have started.
LaunchTypes ==
    /\ running \subseteq [pid : Profiles, port : Ports]
    /\ launch \in [Launchers -> Launches \cup {NoLaunch}]
    /\ launched \in Profiles \cup {NoProfile}

\* A profile's setup file, and the jobs that work on it.
Profiled == [status : {"draft", "probed", "ready", "error"}, answer : Nat,
             rules : {"default", "stated", "calibrated"}, probe : {"none", "clean", "failed"}]
JobStages == {"working", "saved", "probing"}
JobRecords == [stage : JobStages, pid : Profiles, read : Profiled \cup {NoFile}]

\* A job other than the research has read a profile, and what it repairs or
\* probes again is still there.
JobInv ==
    /\ job \in [Jobs -> JobRecords \cup {NoJob}]
    /\ \A k \in Jobs : Running(k) =>
         /\ k # "research" => job[k].read # NoFile /\ Exists(job[k].pid)
         /\ job[k].read # NoFile => job[k].read.answer \in 1..answers

\* Types of the setup files; no answer is recorded that was not given.
WizardTypes ==
    /\ profile \in [Profiles -> Profiled \cup {NoFile}]
    /\ answers \in Nat
    /\ \A p \in Profiles : Exists(p) => profile[p].answer \in 1..answers
    /\ JobInv

\* The markers of what is not there are none of these.
LEMMA Markers ==
  /\ NoUpdate \notin Updates /\ NoLaunch \notin Launches
  /\ NoFile \notin Profiled /\ NoJob \notin JobRecords
<1>1. NoUpdate \notin Updates
  BY DEF NoUpdate, Updates
<1>2. NoLaunch \notin Launches
  BY DEF NoLaunch, Launches
<1>3. NoFile \notin Profiled
  BY DEF NoFile, Profiled
<1>4. NoJob \notin JobRecords
  BY DEF NoJob, JobRecords, JobStages
<1> QED  BY <1>1, <1>2, <1>3, <1>4

\* The least element of a set of ports.
LEMMA MinPort ==
  ASSUME NEW S, S \subseteq Ports, S # {}
  PROVE  Min(S) \in S
<1>1. S \subseteq Nat
  BY RegistryAssumption
<1>2. \E x \in S : \A y \in S : ~(<<y, x>> \in OpToRel(<, Nat))
  BY <1>1, NatLessThanWellFounded, WFMin
<1>3. PICK x \in S : \A y \in S : ~(y < x)
  BY <1>1, <1>2 DEF OpToRel
<1>4. \A y \in S : x =< y
  BY <1>1, <1>3
<1> QED  BY <1>4 DEF Min

\* The registry that nobody has written, and what a reader sees of one.
LEMMA SeenType ==
  /\ EmptyFile \in Files
  /\ file \in Files => Seen \in Files
  /\ \A f \in Files, p \in Profiles : p \in Registered(f) => f.port[p] \in Ports
  /\ \A f \in Files : Registered(f) \subseteq Profiles
  /\ \A f \in Files : DefaultBoot(f) \in Profiles
<1>1. EmptyFile \in Files
  BY DEF EmptyFile, Files
<1>2. file \in Files => Seen \in Files
  BY <1>1 DEF Seen
<1>3. \A f \in Files, p \in Profiles : p \in Registered(f) => f.port[p] \in Ports
  BY DEF Files, Registered
<1>4. \A f \in Files : Registered(f) \subseteq Profiles
  BY DEF Registered
<1>5. ASSUME NEW f \in Files PROVE DefaultBoot(f) \in Profiles
  <2>1. NoProfile \notin Profiles /\ Wallex \in Profiles
    BY RegistryAssumption
  <2>2. ActiveProfile(f) # NoProfile => ActiveProfile(f) \in Profiles
    BY <1>4, <2>1 DEF ActiveProfile
  <2> QED  BY <1>4, <2>1, <2>2 DEF DefaultBoot
<1> QED  BY <1>1, <1>2, <1>3, <1>4, <1>5

\* The first free port is a port, and no registered profile has it.
LEMMA FreePort ==
  ASSUME NEW f \in Files, \E q \in Ports : \A p \in Registered(f) : f.port[p] # q
  PROVE  /\ NextFreePort(f) \in Ports
         /\ \A p \in Registered(f) : f.port[p] # NextFreePort(f)
<1> DEFINE S == Ports \ {f.port[p] : p \in Registered(f)}
<1>1. S \subseteq Ports /\ S # {}
  OBVIOUS
<1> HIDE DEF S
<1>2. Min(S) \in S
  BY <1>1, MinPort
<1>3. NextFreePort(f) = Min(S)
  BY DEF NextFreePort, S
<1> QED  BY <1>2, <1>3 DEF S

\* What an update writes: entries stay, the one it registers is there, and only
\* marking changes what was launched last.  Ports change only by a collision.
LEMMA Writes ==
  ASSUME NEW u \in Updates, CanPort(u)
  PROVE  /\ Changed(u) \in Files
         /\ Registered(u.seen) \subseteq Registered(Changed(u))
         /\ u.op = "register" => u.pid \in Registered(Changed(u))
         /\ Changed(u).last = IF u.op = "mark" THEN u.pid ELSE u.seen.last
         /\ ~Collides(u) =>
              /\ \A p \in Registered(u.seen) : Changed(u).port[p] = u.seen.port[p]
              /\ u.op = "register" /\ u.port # NoPort => Changed(u).port[u.pid] = u.port
              /\ (\A p, q \in Registered(u.seen) : u.seen.port[p] = u.seen.port[q] => p = q) =>
                 \A p, q \in Registered(Changed(u)) : Changed(u).port[p] = Changed(u).port[q] => p = q
<1> DEFINE f == u.seen
           g == Changed(u)
<1>0. /\ f \in Files /\ u.pid \in Profiles /\ u.port \in Ports \cup {NoPort}
      /\ f.port \in [Profiles -> Ports \cup {NoPort}] /\ NoPort \notin Ports
  BY RegistryAssumption DEF Updates, Files, NoPort
<1>1. CASE u.op = "register"
  <2> DEFINE q == Other(u.port, Other(f.port[u.pid], NextFreePort(f)))
             act == IF u.setActive \/ f.active = NoProfile THEN u.pid ELSE f.active
  <2>1. g = [f EXCEPT !.port[u.pid] = q, !.active = act]
    BY <1>1 DEF Changed, AfterRegister
  <2>2. u.port = NoPort =>
          NextFreePort(f) \in Ports /\ \A p \in Registered(f) : f.port[p] # NextFreePort(f)
    BY <1>0, <1>1, FreePort DEF CanPort
  <2>3. q \in Ports
    BY <1>0, <2>2 DEF Other
  <2>4. act \in Profiles \cup {NoProfile}
    BY <1>0 DEF Files
  <2>5. ~Collides(u) =>
          /\ f.port[u.pid] # NoPort => q = f.port[u.pid]
          /\ u.port # NoPort => q = u.port
          /\ \A p \in Registered(f) \ {u.pid} : f.port[p] # q \/ (f.port[u.pid] # NoPort /\ q = f.port[u.pid])
    BY <1>0, <2>2 DEF Other, Collides, Registered
  <2> HIDE DEF q, act
  <2>6. g \in Files /\ g.last = f.last /\ g.port = [f.port EXCEPT ![u.pid] = q]
    <3>1. g.last = f.last /\ g.port = [f.port EXCEPT ![u.pid] = q] /\ g.active = act
      BY <1>0, <2>1 DEF Files
    <3>2. g = [port |-> g.port, active |-> g.active, last |-> g.last]
      BY <1>0, <2>1 DEF Files
    <3>3. g.port \in [Profiles -> Ports \cup {NoPort}] /\ f.last \in Profiles \cup {NoProfile}
      BY <1>0, <2>3, <3>1 DEF Files
    <3> HIDE DEF g
    <3> QED  BY <2>4, <3>1, <3>2, <3>3 DEF Files
  <2> HIDE DEF g
  <2>7. Registered(g) = Registered(f) \cup {u.pid}
    BY <1>0, <2>3, <2>6 DEF Registered
  <2>8. ASSUME ~Collides(u), \A p, r \in Registered(f) : f.port[p] = f.port[r] => p = r,
               NEW p \in Registered(g), NEW r \in Registered(g), g.port[p] = g.port[r]
        PROVE  p = r
    BY <1>0, <2>5, <2>6, <2>7, <2>8 DEF Registered
  <2>9. ~Collides(u) => /\ \A p \in Registered(f) : g.port[p] = f.port[p]
                        /\ u.port # NoPort => g.port[u.pid] = u.port
    BY <1>0, <2>5, <2>6 DEF Registered
  <2> QED  BY <1>1, <2>6, <2>7, <2>8, <2>9 DEF g
<1>2. CASE u.op = "mark"
  <2>1. g = [f EXCEPT !.last = u.pid]
    BY <1>2 DEF Changed, AfterMark
  <2>2. g \in Files /\ g.last = u.pid /\ g.port = f.port
    BY <1>0, <2>1 DEF Files
  <2> QED  BY <1>2, <2>2 DEF Registered
<1>3. CASE u.op = "activate"
  <2>1. g = [f EXCEPT !.active = u.pid]
    BY <1>3 DEF Changed
  <2>2. g \in Files /\ g.last = f.last /\ g.port = f.port
    BY <1>0, <2>1 DEF Files
  <2> QED  BY <1>3, <2>2 DEF Registered
<1> QED  BY <1>1, <1>2, <1>3 DEF Updates

\* An update that begins has nothing of its own written yet.
LEMMA BeginsTypes ==
  ASSUME FileTypes, NEW a \in Updaters, NEW op \in {"register", "mark", "activate"},
         NEW pid \in Profiles, NEW port \in Ports \cup {NoPort}, NEW setActive \in BOOLEAN,
         Begins(a, Update(op, pid, port, setActive))
  PROVE  /\ FileTypes'
         /\ Update(op, pid, port, setActive) \in Updates
         /\ update[a] = NoUpdate
         /\ update' = IF op = "register" \/ pid \in Registered(Seen)
                      THEN [update EXCEPT ![a] = Update(op, pid, port, setActive)] ELSE update
         /\ UNCHANGED <<file, writing, registered, collided>>
         /\ overlapped' = (overlapped \/ \E b \in Updaters : ~Free(b))
<1> DEFINE u == Update(op, pid, port, setActive)
<1>1. u \in Updates /\ u.op = op /\ u.pid = pid /\ u.stage = "read"
  BY SeenType DEF Update, Updates, FileTypes
<1>2. update' = IF op = "register" \/ pid \in Registered(Seen) THEN [update EXCEPT ![a] = u] ELSE update
  BY <1>1 DEF Begins
<1>3. update[a] = NoUpdate /\ CanPort(u) /\ UNCHANGED <<file, writing, registered, collided>>
      /\ overlapped' = (overlapped \/ \E b \in Updaters : ~Free(b))
  BY DEF Begins, Free
<1> HIDE DEF u
<1>4. u # NoUpdate
  BY <1>1, Markers
<1>5. update' \in [Updaters -> Updates \cup {NoUpdate}]
  BY <1>1, <1>2 DEF FileTypes, UpdateInv
<1>6. \A b \in Updaters : update'[b] = update[b] \/ (b = a /\ update'[b] = u)
  BY <1>2 DEF FileTypes, UpdateInv
<1>7. UpdateInv'
  BY <1>3, <1>5, <1>6 DEF FileTypes, UpdateInv, Free, CanPort, Registered
<1>8. writing' = {b \in Updaters : ~Free(b)' /\ update'[b].stage = "writing"}
  BY <1>1, <1>3, <1>6 DEF FileTypes, Free
<1>9. overlapped' \in BOOLEAN
  BY <1>3 DEF FileTypes
<1> QED  BY <1>1, <1>2, <1>3, <1>7, <1>8, <1>9 DEF FileTypes, u

\* An update that goes on, up to the moment when it fills the file, is still
\* the same update.
LEMMA TurnsTypes ==
  ASSUME FileTypes, NEW a \in Updaters, ReadsAgain(a) \/ Empties(a)
  PROVE  /\ FileTypes'
         /\ update[a] \in Updates /\ update'[a] \in Updates /\ ~Free(a) /\ ~Free(a)'
         /\ update'[a].op = update[a].op /\ update'[a].pid = update[a].pid
         /\ update'[a].port = update[a].port
         /\ update'[a].seen = update[a].seen \/ (update'[a].seen = Seen /\ update[a].stage = "read")
         /\ \A b \in Updaters \ {a} : update'[b] = update[b]
         /\ UNCHANGED <<file, registered, collided, overlapped>>
<1> DEFINE u == update[a]
           v == update'[a]
<1>1. ~Free(a) /\ u \in Updates
  BY DEF ReadsAgain, Empties, FileTypes, UpdateInv, Free
<1>2. CASE ReadsAgain(a)
  <2>1. u.op = "mark" /\ u.stage = "read" /\ update' = [update EXCEPT ![a] = [u EXCEPT !.seen = Seen, !.stage = "reread"]]
        /\ UNCHANGED <<file, writing, registered, collided, overlapped>>
    BY <1>2 DEF ReadsAgain
  <2>2. v = [u EXCEPT !.seen = Seen, !.stage = "reread"] /\ \A b \in Updaters \ {a} : update'[b] = update[b]
    BY <2>1 DEF FileTypes, UpdateInv
  <2>3. v \in Updates /\ v.op = "mark" /\ v.pid = u.pid /\ v.port = u.port /\ v.stage = "reread" /\ v.seen = Seen
    <3>1. Seen \in Files
      BY SeenType DEF FileTypes
    <3> HIDE DEF u, v
    <3>2. v.op = u.op /\ v.pid = u.pid /\ v.port = u.port /\ v.stage = "reread" /\ v.seen = Seen
      BY <1>1, <2>2 DEF Updates
    <3>3. v = [op |-> u.op, pid |-> u.pid, port |-> u.port, setActive |-> u.setActive,
               stage |-> "reread", seen |-> Seen]
      BY <1>1, <2>2 DEF Updates
    <3>4. v \in Updates
      BY <1>1, <3>1, <3>3 DEF Updates
    <3> QED  BY <2>1, <3>2, <3>4
  <2>4. update' \in [Updaters -> Updates \cup {NoUpdate}]
    BY <2>1, <2>2, <2>3 DEF FileTypes, UpdateInv
  <2> HIDE DEF u, v
  <2>5. v # NoUpdate
    BY <2>3, Markers
  <2>6. UpdateInv'
    <3>1. ASSUME NEW b \in Updaters, ~Free(b)' PROVE CanPort(update[b])'
      <4>1. CASE b = a
        BY <2>3, <4>1 DEF CanPort, v
      <4>2. CASE b # a
        <5>1. CanPort(update[b])
          BY <2>2, <3>1, <4>2 DEF FileTypes, UpdateInv, Free
        <5> QED  BY <2>2, <4>2, <5>1 DEF CanPort, Registered
      <4> QED  BY <4>1, <4>2
    <3> QED  BY <2>4, <3>1 DEF UpdateInv
  <2>7. writing' = {b \in Updaters : ~Free(b)' /\ update'[b].stage = "writing"}
    BY <1>1, <2>1, <2>2, <2>3 DEF FileTypes, Free, u, v
  <2> QED  BY <1>1, <2>1, <2>2, <2>3, <2>5, <2>6, <2>7 DEF FileTypes, Free, u, v
<1>3. CASE Empties(a)
  <2>1. /\ update' = [update EXCEPT ![a] = [u EXCEPT !.stage = "writing"]]
        /\ writing' = writing \cup {a} /\ UNCHANGED <<file, registered, collided, overlapped>>
    BY <1>3 DEF Empties
  <2>2. v = [u EXCEPT !.stage = "writing"] /\ \A b \in Updaters \ {a} : update'[b] = update[b]
    BY <2>1 DEF FileTypes, UpdateInv
  <2>3. v \in Updates /\ v.op = u.op /\ v.pid = u.pid /\ v.port = u.port /\ v.stage = "writing" /\ v.seen = u.seen
    BY <1>1, <2>2 DEF Updates
  <2>4. update' \in [Updaters -> Updates \cup {NoUpdate}]
    BY <2>1, <2>2, <2>3 DEF FileTypes, UpdateInv
  <2>5. CanPort(u)
    BY <1>1 DEF FileTypes, UpdateInv
  <2> HIDE DEF u, v
  <2>6. v # NoUpdate
    BY <2>3, Markers
  <2>7. CanPort(v)
    BY <2>3, <2>5 DEF CanPort, Registered
  <2>8. UpdateInv'
    <3>1. ASSUME NEW b \in Updaters, ~Free(b)' PROVE CanPort(update[b])'
      <4>1. CASE b = a
        BY <2>7, <4>1 DEF CanPort, Registered, v
      <4>2. CASE b # a
        <5>1. CanPort(update[b])
          BY <2>2, <3>1, <4>2 DEF FileTypes, UpdateInv, Free
        <5> QED  BY <2>2, <4>2, <5>1 DEF CanPort, Registered
      <4> QED  BY <4>1, <4>2
    <3> QED  BY <2>4, <3>1 DEF UpdateInv
  <2>9. writing' = {b \in Updaters : ~Free(b)' /\ update'[b].stage = "writing"}
    BY <1>1, <2>1, <2>2, <2>3, <2>6 DEF FileTypes, Free, u, v
  <2> QED  BY <1>1, <2>1, <2>2, <2>3, <2>6, <2>8, <2>9 DEF FileTypes, Free, u, v
<1> QED  BY <1>2, <1>3

\* An update that fills the file has come to its end.
LEMMA FillsTypes ==
  ASSUME FileTypes, NEW a \in Updaters, Fills(a)
  PROVE  /\ FileTypes'
         /\ ~Free(a) /\ update[a] \in Updates /\ CanPort(update[a])
         /\ Free(a)' /\ \A b \in Updaters \ {a} : update'[b] = update[b]
         /\ file' = Changed(update[a]) /\ UNCHANGED overlapped
         /\ registered' = registered \cup IF update[a].op = "register" THEN {update[a].pid} ELSE {}
         /\ collided' = (collided \/ Collides(update[a]))
<1>1. ~Free(a) /\ update[a] \in Updates /\ CanPort(update[a]) /\ update[a].stage = "writing"
  BY DEF Fills, FileTypes, UpdateInv, Free
<1>2. /\ file' = Changed(update[a]) /\ writing' = writing \ {a} /\ UNCHANGED overlapped
      /\ update' = [update EXCEPT ![a] = NoUpdate]
      /\ registered' = registered \cup IF update[a].op = "register" THEN {update[a].pid} ELSE {}
      /\ collided' = (collided \/ Collides(update[a]))
  BY DEF Fills
<1>3. update'[a] = NoUpdate /\ \A b \in Updaters \ {a} : update'[b] = update[b]
  BY <1>2 DEF FileTypes, UpdateInv
<1>4. file' \in Files
  BY <1>1, <1>2, Writes
<1>5. update' \in [Updaters -> Updates \cup {NoUpdate}]
  BY <1>2 DEF FileTypes, UpdateInv
<1>6. UpdateInv'
  BY <1>3, <1>5 DEF FileTypes, UpdateInv, Free, CanPort, Registered
<1>7. writing' = {b \in Updaters : ~Free(b)' /\ update'[b].stage = "writing"}
  BY <1>2, <1>3 DEF FileTypes, Free
<1>8. collided' \in BOOLEAN /\ overlapped' \in BOOLEAN
  <2>1. Collides(update[a]) \in BOOLEAN
    BY DEF Collides
  <2> QED  BY <1>2, <2>1 DEF FileTypes
<1> QED  BY <1>1, <1>2, <1>3, <1>4, <1>6, <1>7, <1>8 DEF FileTypes, Free

-----------------------------------------------------------------------------
(* The registry, as long as updates do not overlap *)

\* One update at a time, of what the file says; and nothing registered is lost.
AloneInv ==
    ~overlapped =>
        /\ \A a, b \in Updaters : ~Free(a) /\ ~Free(b) => a = b
        /\ \A a \in Updaters : ~Free(a) => update[a].seen = file
        /\ registered \subseteq Registered(file)

\* The registration that a launcher has begun and not ended.
Pending(l) == /\ ~Free(l) /\ update[l].op = "register"
              /\ launch[l].stage = "found" /\ update[l].pid = launch[l].pid

\* What was launched last is registered, and is or will be the next default;
\* so is what is being launched.
LastInv ==
    ~overlapped =>
        /\ launched # NoProfile =>
             /\ launched \in Registered(file)
             /\ file.last = launched \/ \E a \in Updaters : ~Free(a) /\ update[a].op = "mark"
        /\ \A a \in Updaters : ~Free(a) /\ update[a].op = "mark" => update[a].pid = launched
        /\ \A l \in Launchers : launch[l] # NoLaunch =>
             launch[l].pid \in Registered(file) \/ Pending(l)

\* As long as nobody asks for a port that is another's: two profiles have two
\* ports, and what runs or is being launched is on its own.
PortsInv ==
    ~overlapped /\ ~collided =>
        /\ \A p, q \in Registered(file) : file.port[p] = file.port[q] => p = q
        /\ \A b \in running : file.port[b.pid] = b.port
        /\ \A l \in Launchers : launch[l] # NoLaunch =>
             file.port[launch[l].pid] = launch[l].port \/ (Pending(l) /\ update[l].port = launch[l].port)

\* The invariant of the registry.
RegistryInv == FileTypes /\ LaunchTypes /\ AloneInv /\ LastInv /\ PortsInv

\* Who finds a profile in the registry has read what the file says.
LEMMA SeenIsFile ==
  /\ \A p \in Profiles : p \in Registered(Seen) => Seen = file
  /\ FileTypes /\ (\A a \in Updaters : Free(a)) => Seen = file
<1>1. ASSUME NEW p \in Profiles, p \in Registered(EmptyFile) PROVE FALSE
  BY <1>1 DEF Registered, EmptyFile
<1>2. \A p \in Profiles : p \in Registered(Seen) => Seen = file
  BY <1>1 DEF Seen
<1>3. FileTypes /\ (\A a \in Updaters : Free(a)) => Seen = file
  BY DEF Seen, FileTypes
<1> QED  BY <1>2, <1>3

\* An update that begins alone finds nobody at it.
LEMMA BeginsAlone ==
  ASSUME FileTypes, AloneInv, NEW a \in Updaters, NEW op \in {"register", "mark", "activate"},
         NEW pid \in Profiles, NEW port \in Ports \cup {NoPort}, NEW setActive \in BOOLEAN,
         Begins(a, Update(op, pid, port, setActive))
  PROVE  /\ AloneInv'
         /\ ~overlapped' => /\ ~overlapped /\ Seen = file
                            /\ \A b \in Updaters : Free(b)
                            /\ \A b \in Updaters \ {a} : Free(b)'
                            /\ op = "register" \/ pid \in Registered(file) =>
                                 /\ ~Free(a)' /\ update'[a].op = op /\ update'[a].pid = pid
                                 /\ update'[a].port = port
                            /\ ~(op = "register" \/ pid \in Registered(file)) => Free(a)'
<1> DEFINE u == Update(op, pid, port, setActive)
<1>1. /\ u \in Updates
      /\ update' = IF op = "register" \/ pid \in Registered(Seen) THEN [update EXCEPT ![a] = u] ELSE update
      /\ UNCHANGED <<file, writing, registered, collided>>
      /\ overlapped' = (overlapped \/ \E b \in Updaters : ~Free(b))
  BY BeginsTypes
<1>2. u.op = op /\ u.pid = pid /\ u.port = port /\ u.seen = Seen
  BY DEF Update
<1> HIDE DEF u
<1> SUFFICES ASSUME ~overlapped'
             PROVE  /\ AloneInv'
                    /\ ~overlapped /\ Seen = file
                    /\ \A b \in Updaters : Free(b)
                    /\ \A b \in Updaters \ {a} : Free(b)'
                    /\ op = "register" \/ pid \in Registered(file) =>
                         /\ ~Free(a)' /\ update'[a].op = op /\ update'[a].pid = pid
                         /\ update'[a].port = port
                    /\ ~(op = "register" \/ pid \in Registered(file)) => Free(a)'
  BY DEF AloneInv
<1>3. ~overlapped /\ \A b \in Updaters : Free(b)
  BY <1>1 DEF FileTypes
<1>4. Seen = file
  BY <1>3, SeenIsFile
<1>5. u # NoUpdate
  BY <1>1, Markers
<1>6. \A b \in Updaters \ {a} : update'[b] = update[b]
  BY <1>1 DEF FileTypes, UpdateInv
<1>7. CASE op = "register" \/ pid \in Registered(file)
  <2>1. update'[a] = u
    BY <1>1, <1>4, <1>7 DEF FileTypes, UpdateInv
  <2>2. \A b \in Updaters : ~Free(b)' => b = a
    BY <1>3, <1>6 DEF Free
  <2>3. AloneInv'
    BY <1>1, <1>2, <1>3, <1>4, <2>1, <2>2 DEF AloneInv, Registered
  <2> QED  BY <1>2, <1>3, <1>4, <1>5, <1>7, <2>1, <2>2, <2>3 DEF Free
<1>8. CASE ~(op = "register" \/ pid \in Registered(file))
  <2>1. update' = update
    BY <1>1, <1>4, <1>8
  <2> QED  BY <1>1, <1>3, <1>4, <1>8, <2>1 DEF AloneInv, Free, Registered
<1> QED  BY <1>7, <1>8

\* A step of an update but the last changes nothing of this.
LEMMA TurnsKeep ==
  ASSUME RegistryInv, NEW a \in Updaters, ReadsAgain(a) \/ Empties(a),
         UNCHANGED <<running, launch, launched>>
  PROVE  RegistryInv'
<1>1. /\ FileTypes'
      /\ update[a] \in Updates /\ update'[a] \in Updates /\ ~Free(a) /\ ~Free(a)'
      /\ update'[a].op = update[a].op /\ update'[a].pid = update[a].pid
      /\ update'[a].port = update[a].port
      /\ update'[a].seen = update[a].seen \/ (update'[a].seen = Seen /\ update[a].stage = "read")
      /\ \A b \in Updaters \ {a} : update'[b] = update[b]
      /\ UNCHANGED <<file, registered, collided, overlapped>>
  BY TurnsTypes DEF RegistryInv
<1>2. \A b \in Updaters : Free(b)' <=> Free(b)
  BY <1>1 DEF Free
<1>3. \A b \in Updaters : ~Free(b) => update'[b].op = update[b].op /\ update'[b].pid = update[b].pid
                                       /\ update'[b].port = update[b].port
  BY <1>1
<1>4. AloneInv'
  <2> SUFFICES ASSUME ~overlapped PROVE update'[a].seen = file /\ \A b \in Updaters : ~Free(b) => b = a
    BY <1>1, <1>2 DEF AloneInv, RegistryInv, Registered
  <2>1. (\A b \in Updaters : ~Free(b) => b = a) /\ update[a].seen = file
    BY <1>1 DEF AloneInv, RegistryInv
  <2>2. update[a].stage = "read" => writing = {}
    BY <2>1 DEF RegistryInv, FileTypes
  <2> QED  BY <1>1, <2>1, <2>2 DEF Seen
<1>5. \A l \in Launchers : l \in Updaters /\ (Pending(l)' <=> Pending(l))
  BY <1>2, <1>3 DEF Pending, Updaters
<1>6. LastInv'
  BY <1>1, <1>2, <1>3, <1>5 DEF LastInv, RegistryInv, Registered
<1>7. PortsInv'
  <2>1. \A l \in Launchers : Pending(l) => update'[l].port = update[l].port
    BY <1>3, <1>5 DEF Pending
  <2> QED  BY <1>1, <1>5, <2>1 DEF PortsInv, RegistryInv, Registered
<1> QED  BY <1>1, <1>4, <1>6, <1>7 DEF RegistryInv, LaunchTypes

\* Nor does the last one, which ends a registration by registering.
LEMMA FillsKeep ==
  ASSUME RegistryInv, NEW a \in Updaters, Fills(a), UNCHANGED <<running, launch, launched>>
  PROVE  RegistryInv'
<1> DEFINE u == update[a]
<1>1. /\ FileTypes'
      /\ ~Free(a) /\ u \in Updates /\ CanPort(u)
      /\ Free(a)' /\ \A b \in Updaters \ {a} : update'[b] = update[b]
      /\ file' = Changed(u) /\ UNCHANGED overlapped
      /\ registered' = registered \cup IF u.op = "register" THEN {u.pid} ELSE {}
      /\ collided' = (collided \/ Collides(u))
  BY FillsTypes DEF RegistryInv
<1> SUFFICES ASSUME ~overlapped PROVE RegistryInv'
  BY <1>1 DEF RegistryInv, AloneInv, LastInv, PortsInv, LaunchTypes
<1>2. u.seen = file /\ \A b \in Updaters : Free(b)'
  BY <1>1 DEF AloneInv, RegistryInv, Free
<1> HIDE DEF u
<1>3. /\ Registered(file) \subseteq Registered(file')
      /\ u.op = "register" => u.pid \in Registered(file')
      /\ file'.last = IF u.op = "mark" THEN u.pid ELSE file.last
      /\ ~Collides(u) =>
           /\ \A p \in Registered(file) : file'.port[p] = file.port[p]
           /\ u.op = "register" /\ u.port # NoPort => file'.port[u.pid] = u.port
           /\ (\A p, q \in Registered(file) : file.port[p] = file.port[q] => p = q) =>
              \A p, q \in Registered(file') : file'.port[p] = file'.port[q] => p = q
  BY <1>1, <1>2, Writes
<1>4. AloneInv'
  BY <1>1, <1>2, <1>3 DEF AloneInv, RegistryInv
<1>5. \A l \in Launchers : Pending(l) => u.op = "register" /\ u.pid = launch[l].pid /\ u = update[l]
  BY <1>1 DEF Pending, Updaters, AloneInv, RegistryInv, u
<1>6. LastInv'
  <2>1. u.op = "mark" => u.pid = launched
    BY <1>1 DEF LastInv, RegistryInv, u
  <2>2. ASSUME launched # NoProfile PROVE launched \in Registered(file') /\ file'.last = launched
    <3>1. /\ launched \in Registered(file)
          /\ file.last = launched \/ \E b \in Updaters : ~Free(b) /\ update[b].op = "mark"
      BY <2>2 DEF LastInv, RegistryInv
    <3>2. (\E b \in Updaters : ~Free(b) /\ update[b].op = "mark") => u.op = "mark"
      BY <1>1 DEF AloneInv, RegistryInv, u
    <3> QED  BY <1>3, <2>1, <3>1, <3>2
  <2>3. \A l \in Launchers : launch[l] # NoLaunch => launch[l].pid \in Registered(file')
    BY <1>3, <1>5 DEF LastInv, RegistryInv
  <2> QED  BY <1>2, <2>2, <2>3 DEF LastInv
<1>7. PortsInv'
  <2> SUFFICES ASSUME ~collided'
               PROVE  /\ \A p, q \in Registered(file') : file'.port[p] = file'.port[q] => p = q
                      /\ \A b \in running : file'.port[b.pid] = b.port
                      /\ \A l \in Launchers : launch[l] # NoLaunch => file'.port[launch[l].pid] = launch[l].port
    BY DEF PortsInv
  <2>1. ~Collides(u) /\ ~collided
    BY <1>1 DEF RegistryInv, FileTypes
  <2>2. ASSUME NEW p \in Profiles, NEW q \in Ports, file.port[p] = q
        PROVE  file'.port[p] = q
    <3>1. p \in Registered(file)
      BY <2>2, RegistryAssumption DEF Registered, NoPort
    <3> QED  BY <1>3, <2>1, <2>2, <3>1
  <2>3. \A b \in running : file'.port[b.pid] = b.port
    BY <2>1, <2>2 DEF PortsInv, RegistryInv, LaunchTypes
  <2>4. ASSUME NEW l \in Launchers, launch[l] # NoLaunch
        PROVE  file'.port[launch[l].pid] = launch[l].port
    <3>1. launch[l].pid \in Profiles /\ launch[l].port \in Ports
      BY <2>4 DEF RegistryInv, LaunchTypes, Launches
    <3>2. file.port[launch[l].pid] = launch[l].port \/ (Pending(l) /\ update[l].port = launch[l].port)
      BY <2>1, <2>4 DEF PortsInv, RegistryInv
    <3>3. CASE file.port[launch[l].pid] = launch[l].port
      BY <2>2, <3>1, <3>3
    <3>4. CASE Pending(l) /\ update[l].port = launch[l].port
      <4>1. u.op = "register" /\ u.pid = launch[l].pid /\ u.port = launch[l].port
        BY <1>5, <3>4
      <4>2. u.port # NoPort
        BY <3>1, <4>1, RegistryAssumption DEF NoPort
      <4> QED  BY <1>3, <2>1, <4>1, <4>2
    <3> QED  BY <3>2, <3>3, <3>4
  <2>5. \A p, q \in Registered(file') : file'.port[p] = file'.port[q] => p = q
    BY <1>3, <2>1 DEF PortsInv, RegistryInv
  <2> QED  BY <2>3, <2>4, <2>5
<1> QED  BY <1>1, <1>4, <1>6, <1>7 DEF RegistryInv, LaunchTypes

\* An update by a handler or a job, which launches nothing.
LEMMA BeginsKeep ==
  ASSUME RegistryInv, NEW a \in Updaters, NEW op \in {"register", "activate"},
         NEW pid \in Profiles, NEW port \in Ports \cup {NoPort}, NEW setActive \in BOOLEAN,
         Begins(a, Update(op, pid, port, setActive)), UNCHANGED <<running, launch, launched>>
  PROVE  RegistryInv'
<1>1. FileTypes' /\ AloneInv' /\ UNCHANGED <<file, registered, collided>>
  BY BeginsTypes, BeginsAlone DEF RegistryInv
<1> SUFFICES ASSUME ~overlapped' PROVE RegistryInv'
  BY <1>1 DEF RegistryInv, LastInv, PortsInv, LaunchTypes
<1>2. /\ ~overlapped /\ \A b \in Updaters : Free(b)
      /\ \A b \in Updaters : ~Free(b)' => update'[b].op = op
  BY BeginsAlone DEF RegistryInv
<1>3. \A l \in Launchers : ~Pending(l)
  BY <1>2 DEF Pending, Updaters
<1>4. LastInv'
  BY <1>1, <1>2, <1>3 DEF LastInv, RegistryInv, Registered
<1>5. PortsInv'
  BY <1>1, <1>2, <1>3 DEF PortsInv, RegistryInv, Registered
<1> QED  BY <1>1, <1>4, <1>5 DEF RegistryInv, LaunchTypes

\* A launch finds its profile, or begins to register it.
LEMMA LaunchKeeps ==
  ASSUME RegistryInv, NEW l \in Launchers, NEW p \in Profiles, Launch(l, p)
  PROVE  RegistryInv'
<1>0. /\ l \in Updaters /\ UNCHANGED <<running, launched>> /\ Free(l) /\ launch[l] = NoLaunch
      /\ file \in Files /\ Seen \in Files
  BY SeenType DEF Launch, Updaters, RegistryInv, FileTypes
<1>1. CASE p \in Registered(Seen)
  <2> DEFINE v == [stage |-> "found", pid |-> p, port |-> Seen.port[p]]
  <2>1. /\ launch' = [launch EXCEPT ![l] = v]
        /\ UNCHANGED <<file, writing, update, registered, collided, overlapped>>
    BY <1>1 DEF Launch
  <2>2. Seen = file /\ p \in Registered(file) /\ v.port = file.port[p] /\ v.pid = p /\ v \in Launches
    BY <1>0, <1>1, SeenIsFile, SeenType DEF Launches
  <2> HIDE DEF v
  <2>3. launch' \in [Launchers -> Launches \cup {NoLaunch}]
        /\ launch'[l] = v /\ \A m \in Launchers \ {l} : launch'[m] = launch[m]
    BY <2>1, <2>2 DEF RegistryInv, LaunchTypes
  <2>4. FileTypes' /\ AloneInv' /\ LaunchTypes'
    BY <1>0, <2>1, <2>3 DEF RegistryInv, LaunchTypes, FileTypes, UpdateInv, AloneInv, Free, CanPort, Registered
  <2>5. \A m \in Launchers \ {l} : Pending(m) => Pending(m)'
    BY <2>1, <2>3 DEF Pending, Free
  <2>6. LastInv'
    BY <1>0, <2>1, <2>2, <2>3, <2>5 DEF RegistryInv, LastInv, Free, Registered
  <2>7. PortsInv'
    BY <1>0, <2>1, <2>2, <2>3, <2>5 DEF RegistryInv, PortsInv, Registered
  <2> QED  BY <2>4, <2>6, <2>7 DEF RegistryInv
<1>2. CASE p \notin Registered(Seen)
  <2> DEFINE q == Min(FreeOnOs)
             v == [stage |-> "found", pid |-> p, port |-> q]
  <2>1. /\ launch' = [launch EXCEPT ![l] = v] /\ FreeOnOs # {}
        /\ Begins(l, Update("register", p, q, FALSE))
    BY <1>2 DEF Launch
  <2>2. q \in Ports
    <3>1. FreeOnOs \subseteq Ports
      BY DEF FreeOnOs
    <3> QED  BY <2>1, <3>1, MinPort
  <2> HIDE DEF q
  <2>3. FileTypes' /\ AloneInv' /\ UNCHANGED <<file, registered, collided>>
    BY <1>0, <2>1, <2>2, BeginsTypes, BeginsAlone DEF RegistryInv
  <2>4. v \in Launches /\ v.pid = p /\ v.port = q /\ v.stage = "found"
    BY <2>2 DEF Launches
  <2> HIDE DEF v
  <2>5. LaunchTypes' /\ launch'[l] = v /\ \A m \in Launchers \ {l} : launch'[m] = launch[m]
    BY <1>0, <2>1, <2>4 DEF RegistryInv, LaunchTypes
  <2> SUFFICES ASSUME ~overlapped' PROVE RegistryInv'
    BY <2>3, <2>5 DEF RegistryInv, LastInv, PortsInv
  <2>6. /\ ~overlapped /\ \A b \in Updaters : Free(b)
        /\ \A b \in Updaters \ {l} : Free(b)'
        /\ ~Free(l)' /\ update'[l].op = "register" /\ update'[l].pid = p /\ update'[l].port = q
    <3>1. q \in Ports \cup {NoPort} /\ "register" \in {"register", "mark", "activate"} /\ FALSE \in BOOLEAN
      BY <2>2
    <3>2. FileTypes /\ AloneInv
      BY DEF RegistryInv
    <3>3. /\ ~overlapped /\ \A b \in Updaters : Free(b)
          /\ \A b \in Updaters \ {l} : Free(b)'
          /\ "register" = "register" \/ p \in Registered(file) =>
                /\ ~Free(l)' /\ update'[l].op = "register" /\ update'[l].pid = p /\ update'[l].port = q
      BY <1>0, <2>1, <3>1, <3>2, BeginsAlone
    <3> QED  BY <3>3
  <2>7. Pending(l)'
    BY <2>4, <2>5, <2>6 DEF Pending
  <2>8. \A m \in Launchers : ~Pending(m)
    BY <2>6 DEF Pending, Updaters
  <2>9. LastInv'
    BY <1>0, <2>3, <2>5, <2>6, <2>7, <2>8 DEF RegistryInv, LastInv, Registered
  <2>10. PortsInv'
    BY <1>0, <2>3, <2>4, <2>5, <2>6, <2>7, <2>8 DEF RegistryInv, PortsInv, Registered
  <2> QED  BY <2>3, <2>5, <2>9, <2>10 DEF RegistryInv
<1> QED  BY <1>1, <1>2

\* A registered profile is marked as the one launched last.
LEMMA MarksKeep ==
  ASSUME RegistryInv, NEW a \in Updaters, NEW p \in Profiles,
         Begins(a, Update("mark", p, NoPort, FALSE)), launched' = p, LaunchTypes',
         ~overlapped' => p \in Registered(file),
         ~overlapped' /\ ~collided =>
           \A b \in running' \ running : file.port[b.pid] = b.port,
         \A l \in Launchers : launch'[l] # NoLaunch =>
           launch[l] # NoLaunch /\ launch'[l].pid = launch[l].pid /\ launch'[l].port = launch[l].port
  PROVE  RegistryInv'
<1>1. FileTypes' /\ AloneInv' /\ UNCHANGED <<file, registered, collided>>
  BY BeginsTypes, BeginsAlone DEF RegistryInv
<1> SUFFICES ASSUME ~overlapped' PROVE RegistryInv'
  BY <1>1 DEF RegistryInv, LastInv, PortsInv
<1>2. /\ ~overlapped /\ \A b \in Updaters : Free(b)
      /\ ~Free(a)' /\ update'[a].op = "mark" /\ update'[a].pid = p
      /\ \A b \in Updaters : ~Free(b)' => b = a
  BY BeginsAlone DEF RegistryInv
<1>3. \A l \in Launchers : ~Pending(l)
  BY <1>2 DEF Pending, Updaters
<1>4. LastInv'
  BY <1>1, <1>2, <1>3 DEF LastInv, RegistryInv, Registered
<1>5. PortsInv'
  BY <1>1, <1>2, <1>3 DEF PortsInv, RegistryInv, Registered
<1> QED  BY <1>1, <1>4, <1>5 DEF RegistryInv

\* What runs stays where it is; a launched profile is where its launcher says.
LEMMA RunsKeep ==
  ASSUME RegistryInv, UNCHANGED fileVars, UNCHANGED launched, LaunchTypes',
         \A l \in Launchers : launch'[l] # NoLaunch => launch'[l] = launch[l],
         \A b \in running' \ running : \E l \in Launchers :
             /\ launch[l] # NoLaunch /\ launch[l].stage = "marked"
             /\ b.pid = launch[l].pid /\ b.port = launch[l].port
  PROVE  RegistryInv'
<1>1. FileTypes' /\ AloneInv' /\ UNCHANGED <<file, writing, update, registered, collided, overlapped>>
  BY DEF RegistryInv, FileTypes, UpdateInv, AloneInv, Free, CanPort, Registered, fileVars
<1>2. \A l \in Launchers : launch'[l] # NoLaunch /\ Pending(l) => Pending(l)'
  BY <1>1 DEF Pending, Free
<1>3. \A l \in Launchers : launch[l].stage = "marked" => ~Pending(l)
  BY DEF Pending
<1>4. LastInv'
  BY <1>1, <1>2 DEF RegistryInv, LastInv, Free, Registered
<1>5. PortsInv'
  BY <1>1, <1>2, <1>3 DEF RegistryInv, PortsInv, Registered
<1> QED  BY <1>1, <1>4, <1>5 DEF RegistryInv

\* Every step of the registry's users keeps this.
LEMMA RegistryKept ==
  ASSUME RegistryInv, RegistryNext
  PROVE  RegistryInv'
<1>0. Launchers \subseteq Updaters /\ Servers \subseteq Updaters /\ Wallex \in Profiles /\ DefaultPort \in Ports
  BY RegistryAssumption DEF Updaters, DefaultPort
<1>1. ASSUME NEW a \in Updaters, UpdateStep(a) PROVE RegistryInv'
  BY <1>1, TurnsKeep, FillsKeep DEF UpdateStep
<1>2. ASSUME NEW l \in Launchers, NEW p \in Profiles, Launch(l, p) PROVE RegistryInv'
  BY <1>2, LaunchKeeps
<1>3. ASSUME NEW l \in Launchers, LaunchDefault(l) PROVE RegistryInv'
  <2>1. DefaultBoot(Seen) \in Profiles
    BY SeenType DEF RegistryInv, FileTypes
  <2> QED  BY <1>3, <2>1, LaunchKeeps DEF LaunchDefault
<1>4. ASSUME NEW l \in Launchers, LaunchMarks(l) PROVE RegistryInv'
  <2> DEFINE w == launch[l]
  <2>1. w # NoLaunch /\ w \in Launches /\ w.stage = "found" /\ w.pid \in Profiles
    BY <1>4 DEF LaunchMarks, RegistryInv, LaunchTypes, Launches
  <2>2. /\ Begins(l, Update("mark", w.pid, NoPort, FALSE)) /\ launched' = w.pid
        /\ launch' = [launch EXCEPT ![l] = [w EXCEPT !.stage = "marked"]] /\ running' = running
    BY <1>4 DEF LaunchMarks
  <2>3. [w EXCEPT !.stage = "marked"] \in Launches
        /\ [w EXCEPT !.stage = "marked"].pid = w.pid /\ [w EXCEPT !.stage = "marked"].port = w.port
    BY <2>1 DEF Launches
  <2>4. LaunchTypes'
    BY <2>1, <2>2, <2>3 DEF RegistryInv, LaunchTypes
  <2>5. \A m \in Launchers : launch'[m] # NoLaunch =>
           launch[m] # NoLaunch /\ launch'[m].pid = launch[m].pid /\ launch'[m].port = launch[m].port
    BY <2>1, <2>2, <2>3 DEF RegistryInv, LaunchTypes
  <2>6. ~overlapped' => w.pid \in Registered(file)
    <3>1. ~overlapped' => ~overlapped /\ Free(l)
      BY <1>0, <2>2, BeginsTypes DEF Free, RegistryInv, FileTypes, Begins
    <3> QED  BY <2>1, <3>1 DEF RegistryInv, LastInv, Pending
  <2> QED  BY <1>0, <2>1, <2>2, <2>4, <2>5, <2>6, MarksKeep
<1>5. ASSUME NEW l \in Launchers, LaunchRuns(l) PROVE RegistryInv'
  <2>1. launch[l] # NoLaunch /\ launch[l] \in Launches /\ launch[l].stage = "marked"
    BY <1>5 DEF LaunchRuns, RegistryInv, LaunchTypes
  <2>2. /\ running' = {b \in running : b.port # launch[l].port}
                        \cup {[pid |-> launch[l].pid, port |-> launch[l].port]}
        /\ launch' = [launch EXCEPT ![l] = NoLaunch] /\ UNCHANGED <<fileVars, launched>>
    BY <1>5 DEF LaunchRuns
  <2>3. LaunchTypes' /\ \A m \in Launchers : launch'[m] # NoLaunch => launch'[m] = launch[m]
    BY <2>1, <2>2 DEF RegistryInv, LaunchTypes, Launches
  <2> QED  BY <2>1, <2>2, <2>3, RunsKeep
<1>6. ASSUME NEW s \in Servers, Migrate(s) PROVE RegistryInv'
  BY <1>0, <1>6, BeginsKeep DEF Migrate
<1>7. ASSUME NEW s \in Servers, NEW p \in Profiles, Activate(s, p) PROVE RegistryInv'
  BY <1>0, <1>7, BeginsKeep DEF Activate
<1>8. ASSUME NEW s \in Servers, NEW p \in Profiles, StartProfile(s, p) PROVE RegistryInv'
  <2>1. /\ p \in Registered(Seen) /\ Begins(s, Update("mark", p, NoPort, FALSE)) /\ launched' = p
        /\ running' = running \cup
               IF Seen.port[p] \in PortsInUse THEN {} ELSE {[pid |-> p, port |-> Seen.port[p]]}
        /\ UNCHANGED launch
    BY <1>8 DEF StartProfile
  <2>2. Seen = file /\ Seen.port[p] \in Ports
    BY <2>1, SeenIsFile, SeenType DEF RegistryInv, FileTypes
  <2>3. LaunchTypes'
    BY <2>1, <2>2 DEF RegistryInv, LaunchTypes
  <2>4. \A b \in running' \ running : file.port[b.pid] = b.port
    BY <2>1, <2>2
  <2>5. p \in Registered(file)
    BY <2>1, <2>2
  <2> QED  BY <1>0, <2>1, <2>3, <2>4, <2>5, MarksKeep
<1>9. CASE Stops
  <2>1. LaunchTypes'
    BY <1>9 DEF Stops, RegistryInv, LaunchTypes
  <2> QED  BY <1>9, <2>1, RunsKeep DEF Stops
<1> QED  BY <1>1, <1>2, <1>3, <1>4, <1>5, <1>6, <1>7, <1>8, <1>9 DEF RegistryNext

-----------------------------------------------------------------------------
(* The jobs *)

\* On a profile where no jobs have overlapped there is one, and what it has
\* read is of the answer the profile is still of, or it will read it again.
SharedInv ==
    /\ \A j, k \in Jobs : /\ Running(j) /\ Running(k)
                          /\ job[j].pid = job[k].pid /\ job[k].pid \notin shared
                          => j = k
    /\ \A k \in Jobs : /\ Running(k) /\ k # "research"
                       /\ job[k].pid \notin shared /\ job[k].stage # "saved"
                       => job[k].read.answer = profile[job[k].pid].answer

\* The invariant of the wizard.
WizardInv == WizardTypes /\ ReadyWasProven /\ SharedInv

\* What a saved profile has to be for the wizard's invariant to hold: proven if
\* it says so, and of a new answer or of the one that the job has read.
Saving(k, p, new) ==
    /\ k \in Jobs /\ Running(k) /\ job[k].pid = p /\ p \in Profiles
    /\ new \in Profiled /\ new.answer \in 1..answers'
    /\ profile' = [profile EXCEPT ![p] = new]
    /\ new.status \in {"probed", "ready"} => <<p, new.answer>> \in proven'
    /\ answers <= answers' /\ answers' \in Nat /\ proven \subseteq proven' /\ UNCHANGED shared
    /\ \/ new.answer > answers
       \/ k # "research" /\ job[k].stage # "saved" /\ new.answer = job[k].read.answer
    /\ \/ job' = [job EXCEPT ![k] = NoJob]
       \/ \E v : /\ job' = [job EXCEPT ![k] = v] /\ v \in JobRecords
                 /\ v.stage = "saved" /\ v.pid = p /\ v.read = job[k].read

\* A job that saves keeps the invariant: where jobs overlap the profile may be
\* replaced by an older one, but not by one that was not proven.
LEMMA SavingKeeps ==
  ASSUME WizardInv, NEW k \in Jobs, NEW p, NEW new, Saving(k, p, new)
  PROVE  WizardInv'
<1>0. /\ p \in Profiles /\ new \in Profiled /\ new.answer \in 1..answers' /\ new # NoFile
      /\ answers \in Nat /\ answers' \in Nat /\ answers <= answers'
      /\ profile' \in [Profiles -> Profiled \cup {NoFile}]
      /\ profile'[p] = new /\ \A q \in Profiles \ {p} : profile'[q] = profile[q]
  BY Markers DEF Saving, WizardInv, WizardTypes
<1>1. ReadyWasProven'
  BY <1>0 DEF Saving, WizardInv, ReadyWasProven, Exists
<1>2. \A q \in Profiles : Exists(q)' => profile'[q].answer \in 1..answers'
  BY <1>0 DEF WizardInv, WizardTypes, Exists
<1>3. \A q \in Profiles : Exists(q) => Exists(q)'
  BY <1>0 DEF Exists
<1>4. /\ job' \in [Jobs -> JobRecords \cup {NoJob}]
      /\ \A j \in Jobs \ {k} : job'[j] = job[j]
      /\ job'[k] = NoJob \/ (job'[k].stage = "saved" /\ job'[k].pid = p /\ job'[k].read = job[k].read)
  BY DEF Saving, WizardInv, WizardTypes, JobInv
<1>5. \A j \in Jobs : Running(j)' => /\ Running(j) /\ job'[j].pid = job[j].pid /\ job'[j].read = job[j].read
                                     /\ job'[j].stage = job[j].stage \/ (j = k /\ job'[j].stage = "saved")
  BY <1>4 DEF Running, Saving
<1>6. \A j \in Jobs : Running(j) => job[j].pid \in Profiles
  BY DEF WizardInv, WizardTypes, JobInv, Running, JobRecords
<1>7. JobInv'
  <2>1. \A j \in Jobs : Running(j)' =>
          /\ j # "research" => job'[j].read # NoFile /\ profile'[job[j].pid] # NoFile
          /\ job'[j].read # NoFile => job'[j].read.answer \in 1..answers
    BY <1>3, <1>5, <1>6 DEF WizardInv, WizardTypes, JobInv, Exists
  <2>2. \A j \in Jobs : Running(j)' =>
          /\ j # "research" => job'[j].read # NoFile /\ profile'[job'[j].pid] # NoFile
          /\ job'[j].read # NoFile => job'[j].read.answer \in 1..answers'
    <3>1. \A n \in 1..answers : n \in 1..answers'
      BY <1>0
    <3> QED  BY <1>5, <2>1, <3>1 DEF Exists
  <2> QED  BY <1>4, <2>2 DEF JobInv, Exists
<1>8. SharedInv'
  <2>1. \A i, j \in Jobs : /\ Running(i)' /\ Running(j)'
                           /\ job'[i].pid = job'[j].pid /\ job'[j].pid \notin shared'
                           => i = j
    BY <1>5 DEF WizardInv, SharedInv, Saving
  <2>2. ASSUME NEW j \in Jobs, Running(j)', j # "research", job'[j].pid \notin shared', job'[j].stage # "saved"
        PROVE  job'[j].read.answer = profile'[job'[j].pid].answer
    <3>1. Running(j) /\ job'[j].pid = job[j].pid /\ job'[j].read = job[j].read /\ job'[j].stage = job[j].stage
      BY <1>5, <2>2
    <3>2. j # k
      BY <1>4, <2>2 DEF Running
    <3>3. job[j].pid # p
      BY <2>2, <3>1, <3>2 DEF WizardInv, SharedInv, Saving
    <3> QED  BY <1>0, <1>6, <2>2, <3>1, <3>3 DEF WizardInv, SharedInv, Saving
  <2> QED  BY <2>1, <2>2 DEF SharedInv
<1>9. WizardTypes'
  BY <1>0, <1>2, <1>7 DEF WizardTypes
<1> QED  BY <1>1, <1>8, <1>9 DEF WizardInv

\* A job's thread that ends or goes on without saving.
LEMMA WaitingKeeps ==
  ASSUME WizardInv, NEW k \in Jobs, NEW v \in JobRecords \cup {NoJob}, Running(k),
         job' = [job EXCEPT ![k] = v], UNCHANGED <<profile, answers, proven, shared>>,
         v = NoJob \/ /\ v.pid = job[k].pid
                      /\ v.read = profile[v.pid] \/ (v.read = job[k].read /\ v.stage = job[k].stage)
                      /\ k # "research" => Exists(v.pid)
  PROVE  WizardInv'
<1>1. /\ job'[k] = v /\ \A j \in Jobs \ {k} : job'[j] = job[j]
      /\ job' \in [Jobs -> JobRecords \cup {NoJob}]
  BY DEF WizardInv, WizardTypes, JobInv
<1>2. \A j \in Jobs : Running(j)' => Running(j) /\ job'[j].pid = job[j].pid
  BY <1>1 DEF Running
<1>3. \A j \in Jobs : Running(j) => job[j].pid \in Profiles
  BY DEF WizardInv, WizardTypes, JobInv, Running, JobRecords
<1>4. JobInv'
  <2>1. ASSUME NEW j \in Jobs, Running(j)'
        PROVE  /\ j # "research" => job'[j].read # NoFile /\ profile'[job'[j].pid] # NoFile
               /\ job'[j].read # NoFile => job'[j].read.answer \in 1..answers'
    <3>1. CASE j # k
      BY <1>1, <2>1, <3>1 DEF WizardInv, WizardTypes, JobInv, Running, Exists
    <3>2. CASE j = k
      BY <1>1, <1>2, <1>3, <2>1, <3>2 DEF WizardInv, WizardTypes, JobInv, Running, Exists
    <3> QED  BY <3>1, <3>2
  <2> QED  BY <1>1, <2>1 DEF JobInv, Exists
<1>5. SharedInv'
  BY <1>1, <1>2 DEF WizardInv, SharedInv, Running
<1>6. ReadyWasProven' /\ WizardTypes'
  BY <1>4 DEF WizardInv, WizardTypes, ReadyWasProven, Exists
<1> QED  BY <1>5, <1>6 DEF WizardInv

\* A job that starts on a profile where another is running makes it shared.
LEMMA StartKeeps ==
  ASSUME WizardInv, NEW k \in Jobs, NEW p \in Profiles, StartJob(k, p), k # "research" => Exists(p)
  PROVE  WizardInv'
<1> DEFINE v == [stage |-> "working", pid |-> p, read |-> profile[p]]
<1>1. /\ job' = [job EXCEPT ![k] = v] /\ ~Running(k)
      /\ shared' = shared \cup IF \E j \in Jobs : OnProfile(j, p) THEN {p} ELSE {}
      /\ UNCHANGED <<profile, answers, proven>>
  BY DEF StartJob
<1>2. v \in JobRecords /\ v.pid = p /\ v.read = profile[p]
  BY DEF JobRecords, JobStages, WizardInv, WizardTypes
<1> HIDE DEF v
<1>3. /\ job'[k] = v /\ \A j \in Jobs \ {k} : job'[j] = job[j]
      /\ job' \in [Jobs -> JobRecords \cup {NoJob}]
  BY <1>1, <1>2 DEF WizardInv, WizardTypes, JobInv
<1>4. JobInv'
  <2>1. ASSUME NEW j \in Jobs, Running(j)'
        PROVE  /\ j # "research" => job'[j].read # NoFile /\ profile'[job'[j].pid] # NoFile
               /\ job'[j].read # NoFile => job'[j].read.answer \in 1..answers'
    <3>1. CASE j # k
      BY <1>1, <1>3, <2>1, <3>1 DEF WizardInv, WizardTypes, JobInv, Running, Exists
    <3>2. CASE j = k
      BY <1>1, <1>2, <1>3, <2>1, <3>2 DEF WizardInv, WizardTypes, JobInv, Running, Exists
    <3> QED  BY <3>1, <3>2
  <2> QED  BY <1>3, <2>1 DEF JobInv, Exists
<1>5. SharedInv'
  <2>1. \A j \in Jobs \ {k} : Running(j)' => Running(j)
    BY <1>3 DEF Running
  <2>2. ASSUME NEW j \in Jobs, NEW i \in Jobs, Running(i)', Running(j)',
               job'[i].pid = job'[j].pid, job'[j].pid \notin shared'
        PROVE  i = j
    BY <1>1, <1>2, <1>3, <2>1, <2>2 DEF WizardInv, SharedInv, OnProfile
  <2>3. ASSUME NEW j \in Jobs, Running(j)', j # "research", job'[j].pid \notin shared', job'[j].stage # "saved"
        PROVE  job'[j].read.answer = profile'[job'[j].pid].answer
    BY <1>1, <1>2, <1>3, <2>1, <2>3 DEF WizardInv, SharedInv
  <2> QED  BY <2>2, <2>3 DEF SharedInv
<1>6. ReadyWasProven' /\ WizardTypes'
  BY <1>1, <1>4 DEF WizardInv, WizardTypes, ReadyWasProven, Exists
<1> QED  BY <1>5, <1>6 DEF WizardInv

\* The activation makes ready what is probed or ready.
LEMMA ActivateKeeps ==
  ASSUME WizardInv, NEW p \in Profiles, MayActivate(p),
         profile' = [profile EXCEPT ![p].status = "ready"], UNCHANGED <<job, answers, proven, shared>>
  PROVE  WizardInv'
<1> DEFINE new == [profile[p] EXCEPT !.status = "ready"]
<1>1. profile[p] \in Profiled /\ <<p, profile[p].answer>> \in proven
  BY DEF MayActivate, Exists, WizardInv, WizardTypes, ReadyWasProven
<1>2. new \in Profiled /\ new.answer = profile[p].answer /\ new.status = "ready"
  BY <1>1 DEF Profiled
<1>3. profile'[p] = new /\ \A q \in Profiles \ {p} : profile'[q] = profile[q]
  BY DEF WizardInv, WizardTypes
<1> HIDE DEF new
<1>4. new # NoFile
  BY <1>2, Markers
<1>5. \A q \in Profiles : Exists(q)' <=> Exists(q)
  BY <1>3, <1>4 DEF Exists, MayActivate
<1>6. \A q \in Profiles : profile'[q] = profile[q] \/ (q = p /\ profile'[q] = new)
  BY <1>3
<1>7. \A q \in Profiles : Exists(q) => profile'[q].answer = profile[q].answer
  BY <1>2, <1>6
<1>8. profile' \in [Profiles -> Profiled \cup {NoFile}]
  <2>1. profile' = [profile EXCEPT ![p] = new]
    BY DEF new
  <2> QED  BY <1>2, <2>1 DEF WizardInv, WizardTypes
<1>9. \A k \in Jobs : Running(k) => job[k].pid \in Profiles
  BY DEF WizardInv, WizardTypes, JobInv, Running, JobRecords
<1>10. JobInv'
  BY <1>5, <1>9 DEF WizardInv, WizardTypes, JobInv, Running, Exists
<1>11. SharedInv'
  BY <1>7, <1>9 DEF WizardInv, WizardTypes, JobInv, SharedInv, Running
<1>12. ReadyWasProven'
  BY <1>1, <1>2, <1>5, <1>6 DEF WizardInv, ReadyWasProven
<1>13. WizardTypes'
  BY <1>5, <1>7, <1>8, <1>10 DEF WizardInv, WizardTypes
<1> QED  BY <1>11, <1>12, <1>13 DEF WizardInv

\* What a job has read and what it has its profile from.
LEMMA JobReads ==
  ASSUME WizardInv, NEW k \in Jobs, Running(k)
  PROVE  /\ job[k] \in JobRecords /\ job[k].pid \in Profiles /\ job[k].stage \in JobStages
         /\ job[k].read \in Profiled \cup {NoFile} /\ answers \in Nat
         /\ k # "research" => /\ job[k].read \in Profiled /\ job[k].read.answer \in 1..answers
                              /\ Exists(job[k].pid)
<1>1. job[k] \in JobRecords
  BY DEF WizardInv, WizardTypes, JobInv, Running
<1> QED  BY <1>1 DEF WizardInv, WizardTypes, JobInv, JobRecords

\* A step of a job saves a profile, or leaves all of them.
LEMMA JobSaves ==
  ASSUME WizardInv, NEW k \in Jobs, JobStep(k)
  PROVE  (\E p, new : Saving(k, p, new)) \/ (WizardInv' /\ UNCHANGED profile)
<1>0. /\ "research" \in Jobs /\ "diagnose" \in Jobs /\ "calibrate" \in Jobs /\ "probe" \in Jobs
      /\ answers \in Nat
  BY WizardAssumption DEF WizardInv, WizardTypes
<1>1. CASE Fails(k)
  BY <1>1, WaitingKeeps, Markers DEF Fails
<1>2. CASE ProbeSaves(k)
  <2> DEFINE p == job[k].pid
             read == job[k].read
  <2>1. Running(k) /\ k # "research" /\ job' = [job EXCEPT ![k] = NoJob] /\ UNCHANGED answers
        /\ job[k].stage # "saved"
    BY <1>2 DEF ProbeSaves
  <2>2. PICK ok \in BOOLEAN, clean \in BOOLEAN :
          /\ Saves(p, Probed(k, p, ok, clean))
          /\ proven' = proven \cup IF ok THEN {<<p, read.answer>>} ELSE {}
    BY <1>2 DEF ProbeSaves
  <2> DEFINE new == Probed(k, p, ok, clean)
  <2>3. read \in Profiled /\ read.answer \in 1..answers /\ p \in Profiles
    BY <2>1, JobReads
  <2>4. new \in Profiled /\ new.answer = read.answer /\ (new.status \in {"probed", "ready"} => ok)
    BY <2>3 DEF Probed, Profiled
  <2>5. profile' = [profile EXCEPT ![p] = new] /\ UNCHANGED shared
    BY <2>2 DEF Saves
  <2> HIDE DEF new
  <2>6. Saving(k, p, new)
    BY <1>0, <2>1, <2>2, <2>3, <2>4, <2>5 DEF Saving
  <2> QED  BY <2>6
<1>3. CASE k = "research" /\ ResearchSaves
  <2> DEFINE p == job[k].pid
             v == [job[k] EXCEPT !.stage = "saved"]
  <2>1. /\ Running(k) /\ job' = [job EXCEPT ![k] = v] /\ answers' = answers + 1 /\ UNCHANGED proven
        /\ \E stated \in BOOLEAN : Saves(p, Merged(Draft("default"), profile[p], stated))
    BY <1>3 DEF ResearchSaves
  <2>2. PICK stated \in BOOLEAN : Saves(p, Merged(Draft("default"), profile[p], stated))
    BY <2>1
  <2> DEFINE new == Merged(Draft("default"), profile[p], stated)
  <2>3. p \in Profiles /\ profile[p] \in Profiled \cup {NoFile}
    BY <2>1, JobReads DEF WizardInv, WizardTypes
  <2>4. new \in Profiled /\ new.answer = answers + 1 /\ new.status = "draft"
    <3>1. Draft("default") \in Profiled /\ Draft("default").answer = answers + 1 /\ Draft("default").status = "draft"
      BY <1>0 DEF Draft, Profiled
    <3>2. profile[p] # NoFile => profile[p].rules \in {"default", "stated", "calibrated"}
      BY <2>3 DEF Profiled
    <3> QED  BY <3>1, <3>2 DEF Merged, Profiled
  <2>5. profile' = [profile EXCEPT ![p] = new] /\ UNCHANGED shared
    BY <2>2 DEF Saves
  <2>6. v \in JobRecords /\ v.stage = "saved" /\ v.pid = p /\ v.read = job[k].read
    <3>1. job[k] \in JobRecords
      BY <2>1, JobReads
    <3> QED  BY <3>1 DEF JobRecords, JobStages
  <2> HIDE DEF new, v
  <2>7. Saving(k, p, new)
    <3>1. new.answer \in 1..answers' /\ answers' \in Nat /\ answers <= answers' /\ new.answer > answers
      BY <1>0, <2>1, <2>4
    <3>2. \E w : /\ job' = [job EXCEPT ![k] = w] /\ w \in JobRecords
                 /\ w.stage = "saved" /\ w.pid = p /\ w.read = job[k].read
      BY <2>1, <2>6
    <3> QED  BY <2>1, <2>3, <2>4, <2>5, <3>1, <3>2 DEF Saving
  <2> QED  BY <2>7
<1>4. CASE k = "research" /\ ResearchRegisters
  BY <1>4, WaitingKeeps DEF ResearchRegisters
<1>5. CASE k = "diagnose" /\ DiagnoseSaves
  <2> DEFINE p == job[k].pid
             v == [job[k] EXCEPT !.stage = "saved"]
             new == Draft("stated")
  <2>1. /\ Running(k) /\ job' = [job EXCEPT ![k] = v] /\ answers' = answers + 1 /\ UNCHANGED proven
        /\ profile' = [profile EXCEPT ![p] = new] /\ UNCHANGED shared
    BY <1>5 DEF DiagnoseSaves, Saves, Repaired
  <2>2. p \in Profiles
    BY <2>1, JobReads
  <2>3. new \in Profiled /\ new.answer = answers + 1 /\ new.status = "draft"
    BY <1>0 DEF Draft, Profiled
  <2>4. v \in JobRecords /\ v.stage = "saved" /\ v.pid = p /\ v.read = job[k].read
    <3>1. job[k] \in JobRecords
      BY <2>1, JobReads
    <3> QED  BY <3>1 DEF JobRecords, JobStages
  <2> HIDE DEF new, v
  <2>5. Saving(k, p, new)
    <3>1. new.answer \in 1..answers' /\ answers' \in Nat /\ answers <= answers' /\ new.answer > answers
      BY <1>0, <2>1, <2>3
    <3>2. \E w : /\ job' = [job EXCEPT ![k] = w] /\ w \in JobRecords
                 /\ w.stage = "saved" /\ w.pid = p /\ w.read = job[k].read
      BY <2>1, <2>4
    <3> QED  BY <2>1, <2>2, <2>3, <3>1, <3>2 DEF Saving
  <2> QED  BY <2>5
<1>6. CASE k = "diagnose" /\ DiagnoseProbes
  <2> DEFINE p == job[k].pid
             v == [job[k] EXCEPT !.stage = "probing", !.read = profile[p]]
  <2>1. Running(k) /\ job' = [job EXCEPT ![k] = v] /\ UNCHANGED <<profile, answers, proven, shared>>
    BY <1>6 DEF DiagnoseProbes
  <2>2. job[k] \in JobRecords /\ p \in Profiles /\ Exists(p)
    BY <1>6, <2>1, JobReads
  <2>3. v \in JobRecords /\ v.pid = p /\ v.read = profile[p]
    <3>1. profile[p] \in Profiled \cup {NoFile}
      BY <2>2 DEF WizardInv, WizardTypes
    <3> QED  BY <2>2, <3>1 DEF JobRecords, JobStages
  <2> HIDE DEF v
  <2> QED  BY <2>1, <2>2, <2>3, WaitingKeeps
<1>7. CASE k = "calibrate" /\ CalibrateSaves
  <2> DEFINE p == job[k].pid
             read == job[k].read
  <2>1. Running(k) /\ k # "research" /\ job' = [job EXCEPT ![k] = NoJob] /\ UNCHANGED answers
        /\ proven' = proven \cup {<<p, read.answer>>} /\ job[k].stage # "saved"
    BY <1>7 DEF CalibrateSaves
  <2>2. PICK found \in BOOLEAN :
          Saves(p, [read EXCEPT !.rules = IF found THEN "calibrated" ELSE @,
                                !.status = IF @ \in {"draft", "error"} THEN "probed" ELSE @])
    BY <1>7 DEF CalibrateSaves
  <2> DEFINE new == [read EXCEPT !.rules = IF found THEN "calibrated" ELSE @,
                                 !.status = IF @ \in {"draft", "error"} THEN "probed" ELSE @]
  <2>3. read \in Profiled /\ read.answer \in 1..answers /\ p \in Profiles
    BY <2>1, JobReads
  <2>4. new \in Profiled /\ new.answer = read.answer
    BY <2>3 DEF Profiled
  <2>5. profile' = [profile EXCEPT ![p] = new] /\ UNCHANGED shared
    BY <2>2 DEF Saves
  <2> HIDE DEF new
  <2>6. Saving(k, p, new)
    BY <1>0, <2>1, <2>3, <2>4, <2>5 DEF Saving
  <2> QED  BY <2>6
<1> QED  BY <1>1, <1>2, <1>3, <1>4, <1>5, <1>6, <1>7 DEF JobStep

\* Every step of a job keeps the invariant.
LEMMA JobKeeps ==
  ASSUME WizardInv, NEW k \in Jobs, JobStep(k)
  PROVE  WizardInv'
BY JobSaves, SavingKeeps

-----------------------------------------------------------------------------
(* Theorems *)

\* The inductive invariant.
Inv == RegistryInv /\ WizardInv

\* A step that leaves the registry alone.
LEMMA RegistryStutters ==
  ASSUME RegistryInv, UNCHANGED <<file, writing, update, registered, collided, overlapped>>,
         UNCHANGED <<running, launch, launched>>
  PROVE  RegistryInv'
<1>1. FileTypes' /\ AloneInv' /\ LaunchTypes'
  BY DEF RegistryInv, FileTypes, UpdateInv, AloneInv, LaunchTypes, Free, CanPort, Registered
<1>2. \A l \in Launchers : Pending(l)' <=> Pending(l)
  BY DEF Pending, Free
<1>3. LastInv' /\ PortsInv'
  BY <1>2 DEF RegistryInv, LastInv, PortsInv, Free, Registered
<1> QED  BY <1>1, <1>3 DEF RegistryInv

\* At first no profile is registered and no job runs.
LEMMA InitInv == Init => Inv
<1> SUFFICES ASSUME Init PROVE Inv
  OBVIOUS
<1>1. FileTypes
  <2>1. file \in Files
    BY SeenType DEF Init, RegistryInit
  <2> QED  BY <2>1 DEF Init, RegistryInit, FileTypes, UpdateInv, Free
<1>2. LaunchTypes
  BY DEF Init, RegistryInit, LaunchTypes
<1>3. AloneInv /\ LastInv /\ PortsInv
  BY DEF Init, RegistryInit, AloneInv, LastInv, PortsInv, Free, Registered, EmptyFile
<1>4. WizardInv
  BY DEF Init, WizardInv, WizardTypes, JobInv, ReadyWasProven, SharedInv, Exists, Running
<1> QED  BY <1>1, <1>2, <1>3, <1>4 DEF Inv, RegistryInv

\* Every step of the registry, the launcher and the wizard keeps the invariant.
LEMMA StepInv == Inv /\ [Next]_vars => Inv'
<1> SUFFICES ASSUME Inv, [Next]_vars PROVE Inv'
  OBVIOUS
<1>1. UNCHANGED wizardVars => WizardInv'
  BY DEF Inv, WizardInv, WizardTypes, JobInv, ReadyWasProven, SharedInv, Exists, Running, wizardVars
<1>2. UNCHANGED registryVars => RegistryInv'
  BY RegistryStutters DEF Inv, registryVars, fileVars
<1>3. CASE RegistryNext /\ UNCHANGED wizardVars
  BY <1>1, <1>3, RegistryKept DEF Inv
<1>4. ASSUME NEW k \in Jobs, JobStep(k) PROVE Inv'
  <2>1. WizardInv'
    BY <1>4, JobKeeps DEF Inv
  <2>2. RegistryInv'
    <3>1. CASE k = "research" /\ ResearchRegisters
      <4>1. /\ Begins("research", Update("register", job["research"].pid, NoPort, FALSE))
            /\ UNCHANGED <<running, launch, launched>> /\ Running("research")
        BY <3>1 DEF ResearchRegisters
      <4>2. job["research"].pid \in Profiles /\ "research" \in Updaters
        BY <3>1, <4>1, JobReads DEF Inv, Updaters
      <4> QED  BY <4>1, <4>2, BeginsKeep DEF Inv
    <3>2. CASE ~(k = "research" /\ ResearchRegisters)
      BY <1>2, <1>4, <3>2 DEF JobStep, Fails, ProbeSaves, ResearchSaves, DiagnoseSaves, DiagnoseProbes, CalibrateSaves
    <3> QED  BY <3>1, <3>2
  <2> QED  BY <2>1, <2>2 DEF Inv
<1>5. ASSUME NEW k \in Jobs, NEW p \in Profiles, StartJob(k, p), k # "research" => Exists(p) PROVE Inv'
  <2>1. WizardInv'
    BY <1>5, StartKeeps DEF Inv
  <2>2. RegistryInv'
    BY <1>5, RegistryStutters DEF Inv, StartJob
  <2> QED  BY <2>1, <2>2 DEF Inv
<1>6. ASSUME NEW p \in Profiles, Research(p) PROVE Inv'
  BY <1>5, <1>6, WizardAssumption DEF Research
<1>7. ASSUME NEW p \in Profiles, NEW k \in Jobs, Works(k, p) PROVE Inv'
  BY <1>5, <1>7 DEF Works
<1>8. ASSUME NEW p \in Profiles, NEW s \in Servers, WizardActivates(s, p) PROVE Inv'
  <2>1. WizardInv'
    BY <1>8, ActivateKeeps DEF Inv, WizardActivates
  <2>2. RegistryInv'
    BY <1>8, BeginsKeep DEF Inv, WizardActivates, Updaters
  <2> QED  BY <2>1, <2>2 DEF Inv
<1>9. ASSUME NEW p \in Profiles, NEW s \in Servers, Heals(s, p) PROVE Inv'
  <2>1. RegistryInv'
    BY <1>9, BeginsKeep DEF Inv, Heals, Updaters
  <2> QED  BY <1>1, <1>9, <2>1 DEF Inv, Heals
<1>10. CASE UNCHANGED vars
  BY <1>1, <1>2, <1>10 DEF vars, Inv
<1> QED  BY <1>3, <1>4, <1>6, <1>7, <1>8, <1>9, <1>10 DEF Next

\* So it always holds.
LEMMA Invariance == Spec => []Inv
BY InitInv, StepInv, PTL DEF Spec

\* What is in the registry and in the profiles is of its type, and a job that
\* needs a profile has read one, however the jobs interleave.
THEOREM WizardTypesRight == Spec => []WizardTypeOK
<1>1. Inv => WizardTypeOK
  BY DEF Inv, RegistryInv, FileTypes, LaunchTypes, Files, WizardInv, WizardTypes, JobInv, WizardTypeOK,
         RegistryTypeOK, Profiled, Exists
<1> QED  BY <1>1, Invariance, PTL

\* register_profile never loses another's entry but to an update that overlaps.
THEOREM NothingLost == Spec => []NoProfileLost
<1>1. Inv => NoProfileLost
  BY DEF Inv, RegistryInv, AloneInv, NoProfileLost
<1> QED  BY <1>1, Invariance, PTL

\* default_boot_profile_id finds what main and profiles_start launched last,
\* once it is written, whatever was registered or activated in between.
THEOREM LastIsBooted == Spec => []BootsLastLaunched
<1>1. Inv => BootsLastLaunched
  BY DEF Inv, RegistryInv, LastInv, BootsLastLaunched, DefaultBoot
<1> QED  BY <1>1, Invariance, PTL

\* A backend that main kills is an old instance of the profile it starts, as
\* long as nobody has asked for a port that is another's.
THEOREM OthersSpared == Spec => LaunchSparesOthers
<1> DEFINE A == launch' # launch /\ ~overlapped /\ ~collided =>
                  \A b \in running \ running' :
                      \E l \in Launchers : launch[l] # launch'[l] /\ launch[l].pid = b.pid
<1>1. Inv /\ [Next]_vars => [A]_registryVars
  <2> SUFFICES ASSUME Inv, [Next]_vars, launch' # launch, ~overlapped, ~collided,
                      NEW b \in running, b \notin running'
               PROVE  \E l \in Launchers : launch[l] # launch'[l] /\ launch[l].pid = b.pid
    OBVIOUS
  <2>1. PICK l \in Launchers : LaunchRuns(l)
    BY DEF Next, RegistryNext, UpdateStep, Launch, LaunchDefault, LaunchMarks, Activate, StartProfile, Migrate,
           Stops, JobStep, Fails, ProbeSaves, ResearchSaves, ResearchRegisters, DiagnoseSaves, DiagnoseProbes,
           CalibrateSaves, Research, Works, StartJob, WizardActivates, Heals, vars, registryVars
  <2>2. /\ launch[l] # NoLaunch /\ launch[l].stage = "marked" /\ b.port = launch[l].port
        /\ launch'[l] = NoLaunch
    BY <2>1 DEF LaunchRuns, Inv, RegistryInv, LaunchTypes
  <2>3. /\ launch[l].pid \in Profiles /\ launch[l].port \in Ports /\ b.pid \in Profiles
    BY <2>2 DEF Inv, RegistryInv, LaunchTypes, Launches
  <2>4. file.port[launch[l].pid] = launch[l].port /\ file.port[b.pid] = b.port
    BY <2>2 DEF Inv, RegistryInv, PortsInv, Pending
  <2>5. launch[l].pid \in Registered(file) /\ b.pid \in Registered(file)
    BY <2>2, <2>3, <2>4, RegistryAssumption DEF Registered, NoPort
  <2>6. launch[l].pid = b.pid
    BY <2>2, <2>4, <2>5 DEF Inv, RegistryInv, PortsInv
  <2> QED  BY <2>2, <2>6
<1> QED  BY <1>1, Invariance, PTL DEF Spec, LaunchSparesOthers

\* Whatever research, probe, diagnosis, calibration and activation write over
\* one another, a profile that may be activated is of an answer that a probe or
\* a calibration has accepted.
THEOREM ProvenReady == Spec => []ReadyWasProven
<1>1. Inv => ReadyWasProven
  BY DEF Inv, WizardInv
<1> QED  BY <1>1, Invariance, PTL

\* Where the jobs on a profile do not overlap none of them puts an older answer
\* of the AI in the place of a newer one.
THEOREM AnswersKept == Spec => NoAnswerLost
<1> DEFINE A == \A p \in Profiles : Exists(p) /\ p \notin shared' =>
                  Exists(p)' /\ profile'[p].answer >= profile[p].answer
<1>1. Inv /\ [Next]_vars => [A]_vars
  <2> SUFFICES ASSUME Inv, [Next]_vars, NEW p \in Profiles, Exists(p), p \notin shared'
               PROVE  Exists(p)' /\ profile'[p].answer >= profile[p].answer
    OBVIOUS
  <2>0. /\ profile[p] \in Profiled /\ profile[p].answer \in 1..answers /\ answers \in Nat
    BY DEF Inv, WizardInv, WizardTypes, Exists
  <2>1. CASE profile'[p] = profile[p]
    BY <2>0, <2>1 DEF Exists
  <2>2. CASE profile'[p] = [profile[p] EXCEPT !.status = "ready"]
    <3>1. profile'[p] \in Profiled /\ profile'[p].answer = profile[p].answer
      BY <2>0, <2>2 DEF Profiled
    <3> QED  BY <2>0, <3>1, Markers DEF Exists
  <2>3. ASSUME NEW k \in Jobs, NEW q, NEW new, Saving(k, q, new)
        PROVE  Exists(p)' /\ profile'[p].answer >= profile[p].answer
    <3>1. CASE q # p
      BY <2>1, <2>3, <3>1 DEF Saving, Inv, WizardInv, WizardTypes
    <3>2. CASE q = p
      <4>1. profile'[p] = new /\ new \in Profiled /\ new.answer \in Nat
        BY <2>3, <3>2 DEF Saving, Inv, WizardInv, WizardTypes, Profiled
      <4>2. job[k].stage # "saved" /\ k # "research" => job[k].read.answer = profile[p].answer
        BY <2>3, <3>2 DEF Saving, Inv, WizardInv, SharedInv
      <4>3. new.answer >= profile[p].answer
        BY <2>0, <2>3, <4>1, <4>2 DEF Saving
      <4> QED  BY <4>1, <4>3, Markers DEF Exists
    <3> QED  BY <3>1, <3>2
  <2>4. ASSUME NEW k \in Jobs, JobStep(k) PROVE Exists(p)' /\ profile'[p].answer >= profile[p].answer
    BY <2>1, <2>3, <2>4, JobSaves DEF Inv
  <2>5. ASSUME NEW q \in Profiles, NEW s \in Servers, WizardActivates(s, q)
        PROVE  Exists(p)' /\ profile'[p].answer >= profile[p].answer
    BY <2>1, <2>2, <2>5 DEF WizardActivates, Inv, WizardInv, WizardTypes
  <2>6. CASE UNCHANGED profile
    BY <2>1, <2>6
  <2> QED  BY <2>4, <2>5, <2>6 DEF Next, Research, Works, StartJob, Heals, vars, wizardVars
<1> QED  BY <1>1, Invariance, PTL DEF Spec, NoAnswerLost
=============================================================================
