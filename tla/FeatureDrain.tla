----------------------------- MODULE FeatureDrain -----------------------------
(***************************************************************************)
(* The script board-feature-drain.sh works through the stories of one      *)
(* feature.  Three starters spawn it: the button "Umsetzen" of a feature   *)
(* (routers/featureDrain.js with FeatureDrainRunner), and the rounds of    *)
(* the manual and of the night drains (FeatureDrainFlowRunner).  All share *)
(* featureDrainLock, keyed by project and feature; only the button keeps a *)
(* registry, which is persisted and loaded at boot.                        *)
(***************************************************************************)
EXTENDS Naturals

CONSTANTS
  Projects,
  Features,   \* features of all projects: the lock keys
  Project,    \* the project of a feature
  MaxRuns,    \* bound: number of runs started
  MaxCrashes  \* bound: number of crashes of the server process

ASSUME FeatureAssumption ==
  /\ Project \in [Features -> Projects]
  /\ MaxRuns \in Nat
  /\ MaxCrashes \in Nat

Runs     == 1..MaxRuns
Starters == {"button", "manual", "night"}
Phases   == {"off", "resolve", "child", "failing", "over"}
Entries  == {"none", "running", "done", "failed"}

\* "error": the child process emits 'error' and then 'close';
\* "throw": spawn itself throws; "write": feature-drain-jobs.json is not written
FaultKinds == {"error", "throw", "write"}

VARIABLES
  up,       \* the server process is running
  faults,   \* the kinds of failure this behaviour may meet; never changes
  used,     \* number of runs so far
  feature,  \* feature of a run
  starter,  \* starter of a run
  phase,    \* awaiting the plugin root, script alive, 'error' seen, over
  awaited,  \* runs a drain round is waiting for (awaitCompletion)
  lock,     \* featureDrainLock
  reg,      \* FeatureDrainRegistry: status per feature
  file,     \* the same as it would be read back
  loaded,   \* history: features whose entry is unchanged since the boot
  crashes

runVars      == <<used, feature, starter>>
registryVars == <<reg, file, loaded>>
vars == <<up, faults, runVars, phase, awaited, lock, registryVars, crashes>>

TypeOK ==
  /\ up \in BOOLEAN
  /\ faults \in SUBSET FaultKinds
  /\ used \in 0..MaxRuns
  /\ feature \in [Runs -> Features]
  /\ starter \in [Runs -> Starters]
  /\ phase \in [Runs -> Phases]
  /\ awaited \in SUBSET Runs
  /\ lock \in SUBSET Features
  /\ reg \in [Features -> Entries]
  /\ file \in [Features -> Entries]
  /\ loaded \in SUBSET Features
  /\ crashes \in 0..MaxCrashes

Init ==
  /\ up = TRUE
  /\ faults \in SUBSET FaultKinds
  /\ used = 0
  /\ \E f \in Features : feature = [r \in Runs |-> f]
  /\ starter = [r \in Runs |-> "button"]
  /\ phase = [r \in Runs |-> "off"]
  /\ awaited = {}
  /\ lock = {}
  /\ reg = [f \in Features |-> "none"]
  /\ file = reg
  /\ loaded = Features
  /\ crashes = 0

-----------------------------------------------------------------------------
(* FeatureDrainRegistry.                                                   *)

\* #persist: a synchronous write in a microtask of the same turn, whose errors
\* are swallowed
Persist == file' = reg' \/ ("write" \in faults /\ UNCHANGED file)

Store(f, status) ==
  /\ reg' = [reg EXCEPT ![f] = status]
  /\ loaded' = loaded \ {f}
  /\ Persist

Register(f) == Store(f, "running")

\* markDone, markFailed: an existing entry only
Ended(f, status) ==
  IF reg[f] = "none" THEN UNCHANGED registryVars ELSE Store(f, status)

-----------------------------------------------------------------------------
(* Starting a run: the lock, the plugin root, the registry, the process.   *)

EngineWaits(e, f) ==
  \E r \in awaited : starter[r] = e /\ Project[feature[r]] = Project[f]

\* take the lock and resolve the plugin root; an engine drains a project in one
\* loop and waits for each of its runs.  (Mutant of Start: nobody looks who
\* holds the lock.)
Admit(s, f) ==
  /\ up
  /\ used < MaxRuns
  /\ s = "button" \/ ~EngineWaits(s, f)
  /\ lock' = lock \cup {f}
  /\ used' = used + 1
  /\ feature' = [feature EXCEPT ![used + 1] = f]
  /\ starter' = [starter EXCEPT ![used + 1] = s]
  /\ phase' = [phase EXCEPT ![used + 1] = "resolve"]
  /\ awaited' = IF s = "button" THEN awaited ELSE awaited \cup {used + 1}
  /\ UNCHANGED <<up, faults, registryVars, crashes>>

\* tryAcquire succeeds; else 409, or the drain ends 'command-channel-busy'
Start(s, f) == f \notin lock /\ Admit(s, f)

Move(r, from, to) ==
  /\ phase[r] = from
  /\ phase' = [phase EXCEPT ![r] = to]
  /\ UNCHANGED <<up, faults, runVars, crashes>>

Release(r) == lock' = lock \ {feature[r]}

\* no installed plugin version has the script: 503, or a single /flow instead
Unavailable(r) ==
  /\ Move(r, "resolve", "over")
  /\ Release(r)
  /\ awaited' = awaited \ {r}
  /\ UNCHANGED registryVars

Spawn(r) ==
  /\ Move(r, "resolve", "child")
  /\ IF starter[r] = "button" THEN Register(feature[r]) ELSE UNCHANGED registryVars
  /\ UNCHANGED <<lock, awaited>>

\* spawn throws: FeatureDrainFlowRunner catches it and releases the lock; in
\* FeatureDrainRunner.start, after register(), nobody does
SpawnThrows(r) ==
  /\ "throw" \in faults
  /\ Move(r, "resolve", "over")
  /\ IF starter[r] = "button"
     THEN Register(feature[r]) /\ UNCHANGED lock
     ELSE Release(r) /\ UNCHANGED registryVars
  /\ UNCHANGED awaited

-----------------------------------------------------------------------------
(* The end of a run: 'close', or 'error' followed by 'close'.              *)

\* what an end event does: mark the entry (button only), release the lock
Settle(r, status) ==
  /\ IF starter[r] = "button" THEN Ended(feature[r], status)
                              ELSE UNCHANGED registryVars
  /\ Release(r)
  /\ UNCHANGED awaited

\* mutant: exit 3 ("waits") is not treated as an end
ExitUnlessWaiting(r, status) ==
  /\ Move(r, "child", "over")
  /\ IF status = "failed" THEN UNCHANGED <<registryVars, lock, awaited>>
                          ELSE Settle(r, status)

\* the script exits: code 0, or 3 ("waits") and everything else
Exit(r, status) == Move(r, "child", "over") /\ Settle(r, status)

\* the script could not be started (no bash, no such directory)
ChildError(r) ==
  /\ "error" \in faults
  /\ Move(r, "child", "failing")
  /\ Settle(r, "failed")

\* Node emits 'close' after 'error', once the pipes are closed
CloseAfterError(r) == Move(r, "failing", "over") /\ Settle(r, "failed")

\* awaitCompletion sees a job that is no longer 'running'
Awaited(r) ==
  /\ up
  /\ r \in awaited
  /\ phase[r] \in {"failing", "over"}
  /\ awaited' = awaited \ {r}
  /\ UNCHANGED <<up, faults, runVars, phase, lock, registryVars, crashes>>

-----------------------------------------------------------------------------
\* the container ends and with it every script
Crash ==
  /\ up
  /\ crashes < MaxCrashes
  /\ crashes' = crashes + 1
  /\ up' = FALSE
  /\ phase' = [r \in Runs |-> IF r <= used THEN "over" ELSE "off"]
  /\ awaited' = {}
  /\ lock' = {}
  /\ reg' = [f \in Features |-> "none"]
  /\ UNCHANGED <<faults, runVars, file, loaded>>

\* FeatureDrainRegistry.#loadSync: entries are taken as they are
Boot ==
  /\ ~up
  /\ up' = TRUE
  /\ reg' = file
  /\ loaded' = Features
  /\ UNCHANGED <<faults, runVars, phase, awaited, lock, file, crashes>>

-----------------------------------------------------------------------------
Resolved(r) == Unavailable(r) \/ Spawn(r) \/ SpawnThrows(r)

Finished(r) ==
  \/ \E status \in {"done", "failed"} : Exit(r, status)
  \/ ChildError(r)

RunStep(r) == Resolved(r) \/ Finished(r) \/ CloseAfterError(r) \/ Awaited(r)

Next ==
  \/ \E s \in Starters, f \in Features : Start(s, f)
  \/ \E r \in Runs : RunStep(r)
  \/ Crash
  \/ Boot

Spec == Init /\ [][Next]_vars

\* File lookups return, and every script ends: it has no timeout, so this is
\* an assumption about the stories it works on.
Fairness ==
  \A r \in Runs : WF_vars(Resolved(r)) /\ WF_vars(Finished(r))

FairSpec == Spec /\ Fairness

-----------------------------------------------------------------------------
(* Properties.                                                             *)

\* a run that holds the lock by right
Live(r) == phase[r] \in {"resolve", "child"}

\* However button, manual and night drains race: no two runs of one feature
\* are alive at once - provided no child emits 'error' before its 'close'.
OneScriptPerFeature ==
  "error" \notin faults =>
    \A r, s \in Runs : Live(r) /\ Live(s) /\ feature[r] = feature[s] => r = s

\* A held lock belongs to a live run, so that no feature is blocked by a run
\* that is over - provided spawn does not throw.
LockBelongsToRun ==
  "throw" \notin faults =>
    \A f \in lock : \E r \in Runs : Live(r) /\ feature[r] = f

ButtonScript(r) == starter[r] = "button" /\ phase[r] = "child"

\* What GET .../batch shows as running is a live run of the button, except for
\* entries loaded at boot; and a live run of the button is shown as running.
RegistryFollowsRuns ==
  \A f \in Features :
    /\ "throw" \notin faults /\ reg[f] = "running" =>
         f \in loaded \/ \E r \in Runs : ButtonScript(r) /\ feature[r] = f
    /\ "error" \notin faults /\ (\E r \in Runs : ButtonScript(r) /\ feature[r] = f)
         => reg[f] = "running"

\* Every lock is given back, so that a feature can be started again.
LockIsReleased ==
  \A f \in Features :
    (f \in lock /\ "throw" \notin faults) ~> (f \notin lock)

=============================================================================
