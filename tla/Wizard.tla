------------------------------- MODULE Wizard -------------------------------
(***************************************************************************)
(* The setup wizard, bot/wizard.py: background jobs that let an AI write   *)
(* the profile of an exchange, probe it, repair it and calibrate it, and   *)
(* the activation of a profile; profile.json of bot/exchange/profile.py is *)
(* their shared state and is replaced as a whole.  Jobs of different kinds *)
(* run at once, on the same profile too, and take minutes.                 *)
(*                                                                         *)
(* The AI, the documentation and the exchange are outside the repository:  *)
(* they may answer anything, or nothing.  Of a profile it is only told     *)
(* apart which AI answer it came from and where its rules came from.       *)
(***************************************************************************)
EXTENDS Registry

CONSTANT MaxAnswers    \* bound on the AI's answers

ASSUME WizardAssumption ==
    /\ Jobs = {"research", "probe", "diagnose", "calibrate"}
    /\ MaxAnswers \in Nat

VARIABLES
    profile,      \* profile.json of each profile
    job,          \* the running job of each kind
    answers,      \* number of answers of the AI so far
    proven,       \* profiles and answers that a probe or a calibration accepted
    shared        \* the profiles on which jobs overlapped

wizardVars == <<profile, job, answers, proven, shared>>
vars == <<registryVars, wizardVars>>

NoFile == [status |-> "missing"]
NoJob == [stage |-> "none"]
Exists(p) == profile[p] # NoFile
Running(k) == job[k] # NoJob
MaxRunning == 3

\* A profile as the AI wrote it: status, the AI's answer, its rules, and
\* whether the last probe had failures.
Draft(rules) == [status |-> "draft", answer |-> answers + 1, rules |-> rules, probe |-> "none"]

OnProfile(k, p) == Running(k) /\ job[k].pid = p

-----------------------------------------------------------------------------
(* Jobs *)

\* _start_job, under the lock: one job of a kind and three in all.
StartJob(k, p) ==
    /\ ~Running(k) /\ Cardinality({j \in Jobs : Running(j)}) < MaxRunning
    /\ Free(k)
    /\ Asked
    /\ job' = [job EXCEPT ![k] = [stage |-> "working", pid |-> p, read |-> profile[p]]]
    /\ shared' = shared \cup IF \E j \in Jobs : OnProfile(j, p) THEN {p} ELSE {}
    /\ UNCHANGED <<file, writing, update, registered, collided, overlapped>>
    /\ UNCHANGED <<running, launch, launched, profile, answers, proven>>

\* Wallex is built in and needs no research; the other jobs need a profile.
Exchanges == Profiles \ {Wallex}
Research(p) == p \in Exchanges /\ StartJob("research", p)
Works(k, p) == k # "research" /\ Exists(p) /\ StartJob(k, p)

\* An error, or nothing to do: the job's thread ends.
Fails(k) ==
    /\ Running(k) /\ job[k].stage \in {"working", "probing"}
    /\ job' = [job EXCEPT ![k] = NoJob]
    /\ UNCHANGED <<registryVars, profile, answers, proven, shared>>

\* save_profile: the whole profile is replaced, whatever it was read from.
Saves(p, new) == profile' = [profile EXCEPT ![p] = new] /\ UNCHANGED shared

\* Smart re-research: rules the AI did not state are taken from the profile
\* there was, calibrated ones before all.
Merged(new, previous, stated) ==
    [new EXCEPT !.rules = IF stated THEN "stated"
                          ELSE IF previous = NoFile THEN "default" ELSE previous.rules]

\* The AI has answered: research reads the profile there is, replaces it and
\* goes on to register it.
ResearchSaves ==
    /\ Running("research") /\ job["research"].stage = "working"
    /\ answers < MaxAnswers /\ answers' = answers + 1
    /\ LET p == job["research"].pid
       IN  \E stated \in BOOLEAN : Saves(p, Merged(Draft("default"), profile[p], stated))
    /\ job' = [job EXCEPT !["research"].stage = "saved"]
    /\ UNCHANGED <<registryVars, proven>>

ResearchRegisters ==
    /\ Running("research") /\ job["research"].stage = "saved"
    /\ Begins("research", Update("register", job["research"].pid, NoPort, FALSE))
    /\ job' = [job EXCEPT !["research"] = NoJob]
    /\ UNCHANGED <<work, running, launch, launched, profile, answers, proven, shared>>

\* What a probe makes of the profile it has read: markets and candles decide.
Probed(k, p, ok, clean) ==
    [job[k].read EXCEPT !.status = IF ok THEN "probed" ELSE "error", !.probe = IF clean THEN "clean" ELSE "failed"]

\* _probe_sync, as a job or as the end of a diagnosis.
ProbeSaves(k) ==
    /\ Running(k) /\ job[k].stage = IF k = "probe" THEN "working" ELSE "probing"
    /\ k \in {"probe", "diagnose"}
    /\ LET p == job[k].pid
       IN  \E ok, clean \in BOOLEAN :
             /\ clean => ok
             /\ Saves(p, Probed(k, p, ok, clean))
             /\ proven' = proven \cup IF ok THEN {<<p, job[k].read.answer>>} ELSE {}
    /\ job' = [job EXCEPT ![k] = NoJob]
    /\ UNCHANGED <<registryVars, answers>>

\* The AI's repair of a profile with failed checks: a new draft, with the
\* rules the AI gave or the default ones.
Repaired(read) == Draft("stated")

DiagnoseSaves ==
    /\ Running("diagnose") /\ job["diagnose"].stage = "working"
    /\ job["diagnose"].read.probe = "failed"
    /\ answers < MaxAnswers /\ answers' = answers + 1
    /\ Saves(job["diagnose"].pid, Repaired(job["diagnose"].read))
    /\ job' = [job EXCEPT !["diagnose"].stage = "saved"]
    /\ UNCHANGED <<registryVars, proven>>

\* Seeded fault: the new probe takes the profile the repair began with.
DiagnoseProbesStale ==
    /\ Running("diagnose") /\ job["diagnose"].stage = "saved"
    /\ job' = [job EXCEPT !["diagnose"].stage = "probing"]
    /\ UNCHANGED <<registryVars, profile, answers, proven, shared>>

\* The new probe reads the profile again.
DiagnoseProbes ==
    /\ Running("diagnose") /\ job["diagnose"].stage = "saved"
    /\ job' = [job EXCEPT !["diagnose"].stage = "probing", !["diagnose"].read = profile[job["diagnose"].pid]]
    /\ UNCHANGED <<registryVars, profile, answers, proven, shared>>

\* Calibration: the exchange has told the rules, or nothing; the profile counts
\* as probed either way.
CalibrateSaves ==
    /\ Running("calibrate") /\ job["calibrate"].stage = "working"
    /\ LET p == job["calibrate"].pid
           read == job["calibrate"].read
       IN  /\ \E found \in BOOLEAN :
                Saves(p,
                      [read EXCEPT !.rules = IF found THEN "calibrated" ELSE @,
                                   !.status = IF @ \in {"draft", "error"} THEN "probed" ELSE @])
           /\ proven' = proven \cup {<<p, read.answer>>}
    /\ job' = [job EXCEPT !["calibrate"] = NoJob]
    /\ UNCHANGED <<registryVars, answers>>

\* Seeded fault: any profile may be activated.
MayActivateAny(p) == Exists(p)

MayActivate(p) == Exists(p) /\ profile[p].status \in {"probed", "ready"}

\* wizard.activate, in an HTTP thread: the profile becomes ready and active.
WizardActivates(s, p) ==
    /\ MayActivate(p) /\ Asked
    /\ profile' = [profile EXCEPT ![p].status = "ready"]
    /\ Begins(s, Update("register", p, NoPort, TRUE))
    /\ UNCHANGED <<running, launch, launched, job, answers, proven, shared>>

\* profiles_heal: a profile with a directory that the registry does not know of.
Heals(s, p) ==
    /\ Exists(p) \/ \E b \in running : b.pid = p
    /\ p \notin Registered(Seen) /\ Asked
    /\ Begins(s, Update("register", p, NoPort, FALSE))
    /\ UNCHANGED <<running, launch, launched, wizardVars>>

-----------------------------------------------------------------------------
Init ==
    /\ RegistryInit
    /\ profile = [p \in Profiles |-> NoFile]
    /\ job = [k \in Jobs |-> NoJob]
    /\ answers = 0 /\ proven = {} /\ shared = {}

JobStep(k) ==
    \/ Fails(k) \/ ProbeSaves(k)
    \/ k = "research" /\ (ResearchSaves \/ ResearchRegisters)
    \/ k = "diagnose" /\ (DiagnoseSaves \/ DiagnoseProbes)
    \/ k = "calibrate" /\ CalibrateSaves

Next ==
    \/ RegistryNext /\ UNCHANGED wizardVars
    \/ \E k \in Jobs : JobStep(k)
    \/ \E p \in Profiles :
         \/ Research(p)
         \/ \E k \in Jobs : Works(k, p)
         \/ \E s \in Servers : WizardActivates(s, p) \/ Heals(s, p)

Spec == Init /\ [][Next]_vars

-----------------------------------------------------------------------------
(* Properties *)

\* Types, and what a job has read is a profile.
WizardTypeOK ==
    /\ RegistryTypeOK
    /\ \A p \in Profiles : Exists(p) => /\ profile[p].status \in {"draft", "probed", "ready", "error"}
                                        /\ profile[p].answer \in 1..answers
    /\ \A k \in Jobs \ {"research"} : Running(k) => job[k].read # NoFile

\* wizard.py:1343 "probe must pass before activation": whatever jobs overlap, a
\* profile counts as probed or ready only if what it says, the AI's answer it
\* came from, was probed with success or calibrated.
ReadyWasProven == \A p \in Profiles :
    Exists(p) /\ profile[p].status \in {"probed", "ready"} => <<p, profile[p].answer>> \in proven

\* A profile is replaced by one of an older answer only where jobs overlapped.
NoAnswerLost == [][\A p \in Profiles : Exists(p) /\ p \notin shared' =>
    Exists(p)' /\ profile'[p].answer >= profile[p].answer]_vars

=============================================================================
