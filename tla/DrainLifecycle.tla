--------------------------- MODULE DrainLifecycle ---------------------------
(***************************************************************************)
(* The life of a drain ("Board abarbeiten") in the dev-gui server process: *)
(* how it is started by hand, by the night watch and at boot, how its      *)
(* locks, its abort handle and its persisted registry entry follow it, how *)
(* it is stopped, and what a crash of the process leaves behind.           *)
(*                                                                         *)
(* Composes DrainJobRegistry, DrainAbortRegistry, ProjectJobLock, the      *)
(* project drain router, NightWatchScheduler.#startDrain, BootDrainRecovery*)
(* and the outer control of ProjectDrain.drainProject as server.js wires   *)
(* them.  What one round of the drain loop does to the board is the matter *)
(* of module DrainLoop.                                                    *)
(***************************************************************************)
EXTENDS Naturals, FiniteSets

CONSTANTS
  Projects,         \* project repositories
  MaxDrains,        \* bound: number of drain ids handed out
  MaxParallel,      \* setting maxParallel of the night watch
  MaxCrashes,       \* bound: number of process crashes
  MaxWriteFailures  \* bound: number of failing writes of drain-jobs.json

ASSUME BoundsAssumption ==
  /\ MaxDrains \in Nat
  /\ MaxParallel \in Nat \ {0}
  /\ MaxCrashes \in Nat
  /\ MaxWriteFailures \in Nat

Ids      == 1..MaxDrains
Triggers == {"manual", "night"}
Statuses == {"none", "running", "done", "failed", "aborted"}
Phases   == {"off", "sync", "check", "round"}

VARIABLES
  up,        \* the server process is running
  used,      \* number of drain ids handed out so far (randomUUID)
  proj,      \* project of a drain entry
  trig,      \* trigger of a drain entry
  boot,      \* drain was started by BootDrainRecovery
  mem,       \* DrainJobRegistry: status per id in memory ("none" = no entry)
  file,      \* the same as read back from drain-jobs.json
  pending,   \* #persist calls queued and not yet begun
  writing,   \* a write of drain-jobs.json is in progress ...
  snapshot,  \* ... of this copy of the entries
  held,      \* ProjectJobLock contents, one lock per drain engine
  loop,      \* where the drain loop of an id stands
  handle,    \* DrainAbortRegistry: "none", "armed" or "aborted"
  active,    \* NightWatchScheduler.#activeDrains
  occupied,  \* projects with a PTY session or a running command
  orphans,   \* entries BootDrainRecovery.run still has to treat
  gateOpen,  \* BootDrainRecovery has found the night gate open
  stopped,   \* history: ids answered 202 by the stop route
  lost,      \* history: answered stops whose write was cut off or failed
  crashes, writeFailures

registry == <<used, proj, trig, boot, mem>>
disk     == <<file, writing, snapshot, writeFailures>>
recovery == <<orphans, gateOpen>>
history  == <<stopped, lost>>
vars == <<up, registry, disk, pending, held, loop, handle, active, occupied,
          recovery, history, crashes>>

Snapshots == [Ids -> Statuses]

RegistryTypeOK ==
  /\ used \in 0..MaxDrains
  /\ proj \in [Ids -> Projects]
  /\ trig \in [Ids -> Triggers]
  /\ boot \in [Ids -> BOOLEAN]
  /\ mem \in Snapshots

DiskTypeOK ==
  /\ file \in Snapshots
  /\ pending \in Nat
  /\ snapshot \in Snapshots
  /\ writeFailures \in 0..MaxWriteFailures

RuntimeTypeOK ==
  /\ held \in [Triggers -> SUBSET Projects]
  /\ loop \in [Ids -> Phases]
  /\ handle \in [Ids -> {"none", "armed", "aborted"}]
  /\ active \in SUBSET Projects
  /\ occupied \in SUBSET Projects

RecoveryTypeOK ==
  /\ orphans \in SUBSET Ids
  /\ stopped \in SUBSET Ids
  /\ lost \in SUBSET Ids
  /\ crashes \in 0..MaxCrashes

FlagsTypeOK ==
  /\ up \in BOOLEAN
  /\ writing \in BOOLEAN
  /\ gateOpen \in BOOLEAN

TypeOK ==
  /\ RegistryTypeOK
  /\ DiskTypeOK
  /\ RuntimeTypeOK
  /\ RecoveryTypeOK
  /\ FlagsTypeOK

Init ==
  /\ up = TRUE
  /\ used = 0
  /\ \E p \in Projects : proj = [d \in Ids |-> p]
  /\ trig = [d \in Ids |-> "manual"]
  /\ boot = [d \in Ids |-> FALSE]
  /\ mem = [d \in Ids |-> "none"]
  /\ file = [d \in Ids |-> "none"]
  /\ pending = 0
  /\ writing = FALSE
  /\ snapshot = [d \in Ids |-> "none"]
  /\ held = [t \in Triggers |-> {}]
  /\ loop = [d \in Ids |-> "off"]
  /\ handle = [d \in Ids |-> "none"]
  /\ active = {}
  /\ occupied = {}
  /\ orphans = {}
  /\ gateOpen = FALSE
  /\ stopped = {}
  /\ lost = {}
  /\ crashes = 0
  /\ writeFailures = 0

-----------------------------------------------------------------------------
(* ProjectJobLock, DrainJobRegistry: the operations the actors call.       *)

\* isProjectBusy: the engine's own lock, or a session/command of the user
IsProjectBusy(t, p) == p \in held[t] \/ p \in occupied

\* register a fresh id; `status` is what the entry holds when the current
\* run to completion ends ("running", or "done" for an immediate already-busy)
Register(p, t, byBoot, status) ==
  /\ used < MaxDrains
  /\ used' = used + 1
  /\ proj' = [proj EXCEPT ![used + 1] = p]
  /\ trig' = [trig EXCEPT ![used + 1] = t]
  /\ boot' = [boot EXCEPT ![used + 1] = byBoot]
  /\ mem' = [mem EXCEPT ![used + 1] = status]

\* mutant: the lock is taken without the busy check
EnterLoopUnchecked(p, t) ==
  /\ held' = [held EXCEPT ![t] = @ \cup {p}]
  /\ loop' = [loop EXCEPT ![used + 1] = "sync"]

\* the drain of the id being registered takes the lock and enters its loop
EnterLoop(p, t) ==
  /\ ~IsProjectBusy(t, p)
  /\ held' = [held EXCEPT ![t] = @ \cup {p}]
  /\ loop' = [loop EXCEPT ![used + 1] = "sync"]

\* mutant: an aborted entry is overwritten by a later end
MarkUnguarded(d, status) ==
  /\ mem' = [mem EXCEPT ![d] = status]
  /\ pending' = pending + 1

\* mutant: the change is not persisted
MarkInMemory(d, status) ==
  /\ mem' = IF mem[d] = "aborted" THEN mem ELSE [mem EXCEPT ![d] = status]
  /\ UNCHANGED pending

\* markDone / markFailed / markAborted: an aborted entry is never overwritten
Mark(d, status) ==
  IF mem[d] = "aborted"
  THEN UNCHANGED <<mem, pending>>
  ELSE /\ mem' = [mem EXCEPT ![d] = status]
       /\ pending' = pending + 1

-----------------------------------------------------------------------------
(* The project drain router.                                               *)

\* POST /drain: busy check, register, arm the abort handle, start - no await
ManualStart(p) ==
  /\ up
  /\ Register(p, "manual", FALSE, "running")
  /\ EnterLoop(p, "manual")
  /\ handle' = [handle EXCEPT ![used + 1] = "armed"]
  /\ pending' = pending + 1
  /\ UNCHANGED <<up, disk, active, occupied, recovery, history, crashes>>

\* POST /drain/:id/stop: signal the handle, mark the entry aborted, answer 202
Stop(d) ==
  /\ up
  /\ handle[d] # "none"
  /\ handle' = [handle EXCEPT ![d] = "aborted"]
  /\ Mark(d, "aborted")
  /\ stopped' = stopped \cup {d}
  /\ UNCHANGED <<up, used, proj, trig, boot, disk, held, loop, active,
                 occupied, recovery, lost, crashes>>

-----------------------------------------------------------------------------
(* NightWatchScheduler.#startDrain for a project of the current tick.      *)

\* mutant: one drain too many
NightSlotFreeOffByOne(p) == p \notin active /\ Cardinality(active) <= MaxParallel

NightSlotFree(p) == p \notin active /\ Cardinality(active) < MaxParallel

NightStart(p) ==
  /\ up
  /\ NightSlotFree(p)
  /\ Register(p, "night", FALSE, "running")
  /\ EnterLoop(p, "night")
  /\ handle' = [handle EXCEPT ![used + 1] = "armed"]
  /\ active' = active \cup {p}
  /\ pending' = pending + 1
  /\ UNCHANGED <<up, disk, occupied, recovery, history, crashes>>

\* drainProject answers already-busy: markDone, unregister and the removal
\* from #activeDrains follow in the microtasks of the same turn
NightStartBusy(p) ==
  /\ up
  /\ NightSlotFree(p)
  /\ IsProjectBusy("night", p)
  /\ Register(p, "night", FALSE, "done")
  /\ pending' = pending + 2
  /\ UNCHANGED <<up, disk, held, loop, handle, active, occupied, recovery,
                 history, crashes>>

-----------------------------------------------------------------------------
(* The drain loop (ProjectDrain.drainProject, its finally and the handlers *)
(* its caller hangs on the promise).                                       *)

Move(d, from, to) ==
  /\ loop[d] = from
  /\ loop' = [loop EXCEPT ![d] = to]
  /\ UNCHANGED <<up, registry, disk, pending, held, handle, active, occupied,
                 recovery, history, crashes>>

Synced(d) == Move(d, "sync", "check")

\* mutant: the round begins without a look at the abort handle
BeginRoundUnchecked(d) == Move(d, "check", "round")

\* no abort seen at the start of the round: scan, then one flow run
BeginRound(d) == handle[d] # "aborted" /\ Move(d, "check", "round")

EndRound(d) == Move(d, "round", "check")

\* release the lock, mark the entry, drop the handle, leave #activeDrains
Finish(d, status) ==
  /\ loop' = [loop EXCEPT ![d] = "off"]
  /\ held' = [held EXCEPT ![trig[d]] = @ \ {proj[d]}]
  /\ Mark(d, status)
  /\ handle' = [handle EXCEPT ![d] = "none"]
  /\ active' = IF trig[d] = "night" /\ ~boot[d] THEN active \ {proj[d]}
                                                ELSE active
  /\ UNCHANGED <<up, used, proj, trig, boot, disk, occupied, recovery,
                 history, crashes>>

\* the abort is seen at the start of a round: reason 'aborted'
FinishAborted(d) ==
  /\ loop[d] = "check"
  /\ handle[d] = "aborted"
  /\ Finish(d, "aborted")

\* any other end: dirty clone, no target, busy channel, safety stop, ...
FinishDone(d) == loop[d] \in {"sync", "round"} /\ Finish(d, "done")

\* mutant: the rejection handler forgets to unregister the abort handle
FinishFailedKeepsHandle(d) ==
  /\ loop[d] # "off"
  /\ loop' = [loop EXCEPT ![d] = "off"]
  /\ held' = [held EXCEPT ![trig[d]] = @ \ {proj[d]}]
  /\ Mark(d, "failed")
  /\ active' = IF trig[d] = "night" /\ ~boot[d] THEN active \ {proj[d]}
                                                ELSE active
  /\ UNCHANGED <<up, used, proj, trig, boot, disk, handle, occupied,
                 recovery, history, crashes>>

\* the drain throws; the registry entry becomes 'failed'
FinishFailed(d) == loop[d] # "off" /\ Finish(d, "failed")

-----------------------------------------------------------------------------
(* DrainJobRegistry.#persist: serialised writes of the whole cache.        *)

PersistBegin ==
  /\ pending > 0
  /\ ~writing
  /\ pending' = pending - 1
  /\ writing' = TRUE
  /\ snapshot' = mem
  /\ UNCHANGED <<up, registry, file, writeFailures, held, loop, handle,
                 active, occupied, recovery, history, crashes>>

\* the atomic rename
PersistCommit ==
  /\ writing
  /\ file' = snapshot
  /\ writing' = FALSE
  /\ snapshot' = [d \in Ids |-> "none"]
  /\ UNCHANGED <<up, registry, writeFailures, pending, held, loop, handle,
                 active, occupied, recovery, history, crashes>>

\* a write error is swallowed; nothing retries it
PersistFail ==
  /\ writing
  /\ writeFailures < MaxWriteFailures
  /\ writeFailures' = writeFailures + 1
  /\ writing' = FALSE
  /\ lost' = lost \cup {d \in stopped : /\ file[d] # "aborted"
                                       /\ pending = 0
                                       /\ snapshot[d] = "aborted"}
  /\ snapshot' = [d \in Ids |-> "none"]
  /\ UNCHANGED <<up, registry, file, pending, held, loop, handle, active,
                 occupied, recovery, stopped, crashes>>

-----------------------------------------------------------------------------
(* Crash, boot and BootDrainRecovery.                                      *)

\* everything in memory is gone; drain-jobs.json stays
Crash ==
  /\ up
  /\ crashes < MaxCrashes
  /\ crashes' = crashes + 1
  /\ up' = FALSE
  /\ mem' = [d \in Ids |-> "none"]
  /\ pending' = 0
  /\ writing' = FALSE
  /\ held' = [t \in Triggers |-> {}]
  /\ loop' = [d \in Ids |-> "off"]
  /\ handle' = [d \in Ids |-> "none"]
  /\ active' = {}
  /\ occupied' = {}
  /\ orphans' = {}
  /\ gateOpen' = FALSE
  /\ lost' = lost \cup {d \in stopped :
                          /\ file[d] # "aborted"
                          /\ pending > 0 \/ (writing /\ snapshot[d] = "aborted")}
  /\ snapshot' = [d \in Ids |-> "none"]
  /\ UNCHANGED <<used, proj, trig, boot, file, writeFailures, stopped>>

\* load drain-jobs.json, mark every running entry aborted, hand the orphans
\* to BootDrainRecovery.run - all in the synchronous part of the boot
Boot ==
  /\ ~up
  /\ up' = TRUE
  /\ orphans' = {d \in Ids : file[d] = "running"}
  /\ mem' = [d \in Ids |-> IF file[d] = "running" THEN "aborted" ELSE file[d]]
  /\ pending' = IF orphans' = {} THEN 0 ELSE 1
  /\ UNCHANGED <<used, proj, trig, boot, disk, held, loop, handle, active,
                 occupied, gateOpen, history, crashes>>

\* groupOrphansByProjectTrigger (the cost-mode arguments replayed are left out)
Group(t, p) == {d \in orphans : trig[d] = t /\ proj[d] = p}

\* one step of the loops of run(): the group (t, p) has its turn
Turn(t, p) ==
  /\ up
  /\ Group(t, p) # {}
  /\ IF t = "night" THEN gateOpen ELSE TRUE
  /\ orphans' = orphans \ Group(t, p)

\* #restartOne: a fresh id for the drain, no abort handle, no report
Restart(t, p) ==
  /\ Turn(t, p)
  /\ Register(p, t, TRUE, "running")
  /\ EnterLoop(p, t)
  /\ pending' = pending + 1
  /\ UNCHANGED <<up, disk, handle, active, occupied, gateOpen, history,
                 crashes>>

\* a night orphan is not checked for busy: drainProject answers already-busy
RestartBusyNight(p) ==
  /\ Turn("night", p)
  /\ IsProjectBusy("night", p)
  /\ Register(p, "night", TRUE, "done")
  /\ pending' = pending + 2
  /\ UNCHANGED <<up, disk, held, loop, handle, active, occupied, gateOpen,
                 history, crashes>>

\* mutant: a busy project is waited for instead of skipped
RestartSkipWaits(t, p) == up /\ Group(t, p) # {} /\ UNCHANGED vars

\* the slug no longer resolves, or a manual orphan finds its project busy
RestartSkip(t, p) ==
  /\ Turn(t, p)
  /\ UNCHANGED <<up, registry, disk, pending, held, loop, handle, active,
                 occupied, gateOpen, history, crashes>>

\* #evaluateNightGate, once the manual orphans are through: settings, window
\* and auth are what the environment says at that moment
NightGate(open) ==
  /\ up
  /\ orphans # {}
  /\ ~gateOpen
  /\ \A d \in orphans : trig[d] = "night"
  /\ gateOpen' = open
  /\ orphans' = IF open THEN orphans ELSE {}
  /\ UNCHANGED <<up, registry, disk, pending, held, loop, handle, active,
                 occupied, history, crashes>>

-----------------------------------------------------------------------------
(* The user: PTY sessions and commands come and go.                        *)

\* the first session or command of a project begins, or its last one ends
SessionsChange(p) ==
  /\ up
  /\ occupied' = IF p \in occupied THEN occupied \ {p} ELSE occupied \cup {p}
  /\ UNCHANGED <<up, registry, disk, pending, held, loop, handle, active,
                 recovery, history, crashes>>

-----------------------------------------------------------------------------

Starts(p) == ManualStart(p) \/ NightStart(p) \/ NightStartBusy(p)

LoopStep(d) ==
  Synced(d) \/ BeginRound(d) \/ EndRound(d)
    \/ FinishAborted(d) \/ FinishDone(d) \/ FinishFailed(d)

Persist == PersistBegin \/ PersistCommit \/ PersistFail

Recover(t, p) ==
  Restart(t, p) \/ RestartSkip(t, p) \/ (t = "night" /\ RestartBusyNight(p))

Recovery ==
  \/ \E t \in Triggers, p \in Projects : Recover(t, p)
  \/ \E open \in BOOLEAN : NightGate(open)

Next ==
  \/ \E p \in Projects : Starts(p) \/ SessionsChange(p)
  \/ \E d \in Ids : Stop(d) \/ LoopStep(d)
  \/ Persist
  \/ Crash
  \/ Boot
  \/ Recovery

Spec == Init /\ [][Next]_vars

\* The event loop runs every ready continuation, every child process of a
\* round ends (HeadlessRunnerCore kills it at its timeout), file operations
\* return and the container restarts the process.  Nothing makes a user or
\* the night watch start or stop anything.
Fairness ==
  /\ \A d \in Ids : WF_vars(LoopStep(d))
  /\ WF_vars(Persist)
  /\ WF_vars(Boot)
  /\ WF_vars(Recovery)

FairSpec == Spec /\ Fairness

-----------------------------------------------------------------------------
(* Safety.                                                                 *)

Live(d) == loop[d] # "off"

SameGroup(d, e) == trig[d] = trig[e] /\ proj[d] = proj[e]

\* An engine's ProjectJobLock holds exactly the projects its live loops drain,
\* and no two loops of one engine drain the same project: nobody releases the
\* lock of another drain and no end of a drain leaks it.
LockIsHeldByItsLoop ==
  /\ \A t \in Triggers, p \in Projects :
       p \in held[t] <=> \E d \in Ids : Live(d) /\ trig[d] = t /\ proj[d] = p
  /\ \A d, e \in Ids : Live(d) /\ Live(e) /\ SameGroup(d, e) => d = e

\* What GET /drain/:id answers: 'running' only while the loop really runs, and
\* a loop whose entry is no longer 'running' is one the user stopped.
RegistryTellsTheTruth ==
  \A d \in Ids :
    /\ mem[d] = "running" => Live(d)
    /\ Live(d) => mem[d] = "running" \/ (mem[d] = "aborted" /\ d \in stopped)

\* The stop route finds every live drain that the router or the night watch has
\* started, and none that is over: a handle neither outlives its drain nor is lost
\* before its end.  Nothing is claimed of live drains restarted at boot.
HandleFollowsLoop ==
  \A d \in Ids :
    /\ handle[d] # "none" => Live(d)
    /\ Live(d) /\ ~boot[d] => handle[d] # "none"

\* Both routes of the router tell the truth about a drain: the status it answers
\* and whether a stop finds it.
RouterTellsTheTruth == RegistryTellsTheTruth /\ HandleFollowsLoop

\* #activeDrains, the slot book-keeping of the night watch, names exactly the
\* projects of its live drains and never more than maxParallel.
ActiveDrainsAreLive ==
  /\ \A p \in Projects :
       p \in active <=>
         \E d \in Ids : Live(d) /\ trig[d] = "night" /\ ~boot[d] /\ proj[d] = p
  /\ Cardinality(active) <= MaxParallel

\* drain-jobs.json never holds two running entries of one project and trigger,
\* however crashes, failing writes and restarts interleave: the grouping of
\* BootDrainRecovery never has to drop one.
OneOrphanPerGroup ==
  \A d, e \in Ids :
    file[d] = "running" /\ file[e] = "running" /\ SameGroup(d, e) => d = e

\* Within one process life nothing brings an aborted entry back.
AbortedStaysAborted ==
  [][\A d \in Ids : mem[d] = "aborted" /\ up' => mem'[d] = "aborted"]_vars

\* A terminal status that has reached the disk is final, over crashes and
\* restarts too: no late write of an older snapshot takes it back.
DurableEndIsFinal ==
  [][\A d \in Ids : file[d] \in {"done", "failed", "aborted"}
                      => file'[d] = file[d]]_vars

\* The boot recovery takes a drain whose stop was answered with 202 for an orphan
\* only if a crash came while a write was still queued or was writing that abort,
\* or if the last write that carried it failed: however stops, older writes in
\* progress, ends of the loop and crashes interleave, no other stop is undone.
UndoneStopsWereLost == orphans \cap stopped \subseteq lost

-----------------------------------------------------------------------------
(* A drain as its users see it, and liveness under FairSpec.               *)

\* where an id stands: not handed out, waiting for its next round, in a round,
\* or without a loop and so over
Where(d) ==
  IF d > used THEN "new"
  ELSE IF loop[d] = "off" THEN "over"
  ELSE IF loop[d] = "round" THEN "round"
  ELSE "idle"

Session == INSTANCE DrainSession
             WITH Engines <- Triggers,
                  where   <- [d \in Ids |-> Where(d)],
                  lane    <- [d \in Ids |-> <<trig[d], proj[d]>>],
                  asked   <- stopped

\* Every drain is a session: alone on its engine and project, over for good when
\* its loop has ended - by itself, by an error, by a crash - and never in another
\* round after its stop was answered with 202.  Its end follows that answer, even
\* if every round would be followed by another one.
KeepsSessions == Session!Spec /\ Session!AskedEnd

\* BootDrainRecovery comes to the end of the orphans of every boot.
OrphansAreTreated == []<>(orphans = {})

\* Without write errors drain-jobs.json catches up with the registry for good.
FileConverges == <>[](writeFailures = 0 => up /\ file = mem)

=============================================================================
