# Verification of dev-gui

TLA+ models, TLC checks and TLAPS proofs for the server of dev-gui, a Node/Express
application from which a user works through the boards ("Stories") of cloned project
repositories. The server spawns `claude -p` child processes and shell scripts, keeps
interactive PTY sessions, and starts all of this by hand, at night and after a restart.

All paths are relative to `src/` of the verification workspace, i.e. to the repository
root; the server's code is in `src/src/`, the wiring in `src/server.js`.

Contents: [1 Inventory](#1-inventory) · [2
Modules](#2-modules-and-how-they-correspond-to-the-code) · [3 Runs](#3-runs) · [4
Fairness](#4-fairness) · [5 Proofs](#5-proofs) · [6
Disagreements](#6-disagreements-between-code-and-documents) · [7
Limits](#7-what-is-not-modelled-and-what-is-only-checked) · [8 Plan](#8-plan)


## 1 Inventory

One Node process. Concurrency comes from `await` points, timers, child processes and
HTTP/WebSocket requests; between two awaits code is atomic. Nothing is locked between
processes: every lock is a `Set` or a flag in memory. Files below `CRED_STORE_DIR` survive
a crash; the container restarts the process.

### 1.1 Drains (modelled)

A *drain* ("Board abarbeiten") works through the board of one project.

| Part | State | Operations |
|---|---|---|
| `DrainJobRegistry` | entries by drain id in memory; `drain-jobs.json`; a chain of writes | `register`, `markDone/Failed/Aborted`, `reconcileOrphans`, `#persist` |
| `DrainAbortRegistry` | abort handles by drain id | `register`, `signal`, `unregister` |
| `ProjectJobLock` | set of held project paths, one instance per engine | `tryAcquire`, `release` |
| `projectDrainRouter` | – | `POST /drain`, `GET /drain/:id`, `POST /drain/:id/stop` |
| `NightWatchScheduler` | tick timer, `#activeDrains` | `start`, `stop`, tick, `#startDrain` |
| `BootDrainRecovery` | list of orphans (local) | `run` after a boot |
| `ProjectDrain` | local state of the loop: counters, snapshots, attempted escalations | `drainProject`, `#runLoop`, `#syncCloneToOrigin`, `selectDrainMode` |
| `BoardAggregator`, `GitReadBoundary` | index cache | scan of the working tree or of `origin/…` |
| `BoardWriter` | board files | `setBlocked` (used by the drain) |

Hard: an entry, a handle, a lock, a slot and a persisted record must follow one loop
through every order of stop, end, rejection, crash and boot; memory is ahead of the disk;
writes fail silently; manual drains, night drains and boot restarts meet. The loop judges
runs by comparing two scans, each of which may come from a different source, may be
unverified or may have failed; two counters with different resets decide when it gives up.

Correct means: one loop per project and engine; the registry, the handles and the slots
tell the truth; ends are final, on disk too; stops take effect; the drain neither leaves
feasible work nor runs for ever; no wrong or repeated escalation.

### 1.2 Feature drains (modelled)

`FeatureDrainRunner` (button *Umsetzen*, with `FeatureDrainRegistry` and
`feature-drain-jobs.json`) and `FeatureDrainFlowRunner` (rounds of manual and night
drains) spawn `board-feature-drain.sh` for one feature. One `featureDrainLock`, shared by
all of them, keyed by project and feature.

Hard: three starters race, each after awaits of its own; Node emits `'error'` *and*
`'close'`; spawn may throw; a crash leaves entries behind. Correct: one script per
feature, no lock without a run, a registry that shows what runs.

### 1.3 Headless runs (modelled)

`HeadlessRunnerCore` spawns `claude -p`, keeps a job map, a lock per runner and a timer
per job. `HeadlessFlowRunner`, `HeadlessReconcileRunner` and `FlowRunner` adapt it.

Hard: `close`, `error` and the timeout come in any order, each maybe after another has
settled the job and the next job has begun; a process may ignore `SIGTERM`; the verdict
needs the whole output. Correct: one final status per job, the lock of the right job is
released, every job ends.

### 1.4 Commands and PTY sessions (modelled)

`CommandService` types a command into a session and guesses its end from silence, under a
process-wide `JobLock`. `PtySessionRegistry` keeps a session per project (cap 5), closes
idle ones after 30 minutes unless they are *held* by a command. `PtyManager` restarts the
process of a session, at most 5 times per minute.

Hard: two idle timers, holds, a cap shared by commands, terminals and discussions,
failures between the lock and the write. Correct: the lock and the hold follow the command;
no session is closed under its command, none lives for ever.

### 1.5 Night watch, token limit and budget (modelled)

| Part | State | Operations |
|---|---|---|
| `NightWatchScheduler` | `#timer`, `#activeDrains`, the last interval; settings file | `start`, `stop`, tick with its gates, `#startDrain` |
| `TokenLimitWatcher` | rolling text buffer, `#state` with the reset | `#onData`, `getState`, `waitForReset`, `clear` |
| `BudgetGuard` | reset noted last, measurement | `checkProactive`, `noteLimit`, `waitForResume` |

Hard: settings and window are read before the await on a token limit and used after it; a
limit is a *time of day* in old terminal output that is read again with every chunk, against
the clock of that moment; the reset a pause waits for may have been noted by another drain
nights ago; slots are counted before the board is read; `stop()` may find a tick running.
Correct means: drains start in the night only; no pause outlasts its night; a stopped night
watch is silent; a running one never falls silent.

### 1.6 Credential store, master key and backups (modelled)

| Part | State | Operations |
|---|---|---|
| `CredentialStore` | `secrets.enc.json`, its `.rotate-tmp`, the key in memory (`#masterKeyRaw`), in an env file and in the process environment, the write lock (a promise chain) | `set`, `delete`, metadata writes, `restore`, `unlock`, `rotate`, boot check |
| `BackupEngine` | artefacts: the file, encrypted with the key of the moment | hook after each write |
| `BitwardenMasterKeyService` | a Bitwarden item that holds the key | `acquireMasterKey`, `createMasterKey`, `archiveRotatedKey` |

Hard: every call does part of its work before it waits for the lock; a rotation re-encrypts
the file, swaps it, saves the key in three places and may be cut anywhere. Correct means: no
secret is lost or undone by another call, the key in the process opens the file, a boot finds
that key, a backup can be opened.

### 1.7 Deployments and Cloudflare (modelled)

| Part | State | Operations |
|---|---|---|
| `DeployOrchestrator` | none: the hostname label of a container and the tunnel's route are the only record | `deploy`, `undeploy`, `addRouteOnly`, compensation |
| `ReconciliationJob` | midnight timer, `#running` | `reconcile`: remove orphaned routes, create missing ones |
| `CloudflareApi`, `LockoutGuard` | the tunnel's **one list** of routes, CNAMEs | `addRoute`, `removeRoute`, DNS |
| `VpsDockerControl`, `vpsContainerRouter` | Docker on the VPS | `run`, `rm`, `ps`, `ps -a`, `start`, `stop` |

Hard: sagas over SSH and HTTPS whose steps fail, or succeed without an answer; compensation
that fails too; restarts in between; read–modify–write of the list of routes without version;
a job that acts on two reads of different moments; deploys that overlap. Correct means: a
deploy that reports success is served; the protected way to dev-gui itself is never touched;
what is left of failures is drift that the job removes; a stopped app keeps its route.

### 1.8 Ideas (modelled)

| Part | State | Operations |
|---|---|---|
| `BoardWriter` | `board.yaml` with the counter `next_story_id`, story files; `#createIdeaLock` (a promise chain) | `createIdea`, `resolveIdea`, `archiveSupersededIdea` |
| `IdeaSpecifyFinalizer` | `#jobMeta` (snapshot before a run), `#safetyNetChecked`, `#noOpJobs`, the last run of each idea; lost at a restart, by design | `start`, `getJob` with its safety net |

Hard: the counter is shared with the board CLI, a process with no common lock; each edit of a
file reads it, waits, and writes the whole text back; what a run has achieved is inferred from
listings of directories while the owner and the agent go on. Correct means: no idea is lost
or comes back, ids are unique, a run reported as done has settled its idea.

### 1.9 Everything else (not modelled)

| Component | State | Operations and what is hard | Correct means |
|---|---|---|---|
| Automatic retro | queue and lock | dedupe, one at a time, behind drains | every queued retro runs once |
| Rest of the board write side (`AreaWriter`, `boardRouter`) | YAML files | read–modify–write against flow runs and other requests | no lost update |
| Board read side (`BoardAggregator`, `BoardEventHub`, `RunStateWatcher`) | cache, watchers, SSE subscribers | coalesced events, subscribers that vanish | a change reaches every subscriber |
| Idea and story chats, `StorySpecifyFinalizer` | chat sessions | confirm twice, session expiry | one story per confirmed chat |
| Notifications | sent markers | polling, restart | each event once |
| Stacks, tunnel healing | compose projects, tunnels | sagas like those of 1.7 | converges to the wanted state |
| Regression, scans, reports, token usage | result files | bounded lists, child processes | – |
| VPS provisioning, GitHub cloning, SSH terminals | external | HTTP/SSH clients and streams: I/O | – |
| Workspace, access guard, server wiring | – | path confinement, HTTP plumbing | – |
| React client | UI | uses the REST and WebSocket operations above | – |

### 1.10 How the parts interact

`server.js` builds **two** `ProjectJobLock`s for drains (manual; night) – each engine's
`ProjectDrain` gets its own – one lock per headless runner and one `featureDrainLock` for
the button and both drain engines. `isProjectBusy(p)` of an engine is: own lock, *or* any
running command, *or* an open PTY session of `p`. So sessions keep drains from starting, a
drain does not keep sessions from opening, and manual and night drains do not see each
other. A round of a drain calls a flow runner (headless) or the feature script and waits for
its job. After a boot `BootDrainRecovery` runs concurrently with routes and night watch. The
night watch reads the board, asks the token limit watcher and starts drains of the second
engine, which ask the budget guard before and after each run. Deployments take their SSH
keys and API tokens from the credential store and otherwise share nothing with drains. The
idea finalizer has a headless runner, and so a lock, of its own: it excludes neither drains
nor sessions.


## 2 Modules and how they correspond to the code

`PROJECT.json` maps each definition to its lines. `MC*` modules only instantiate;
`MCDrainTargets` also bounds the inputs (below). Operators marked *mutant* in the modules
are wrong variants of the definition after them; they occur in no specification and document
which slip each property catches.

| Module | Models | EXTENDS / uses |
|---|---|---|
| `DrainSession` | abstract promise of a drain to its users | – |
| `DrainLifecycle` | start, stop, end, persistence, crash, boot recovery of drains | refines `DrainSession` |
| `DrainTargets` | the pure judgements about one scan | – |
| `IdealRuns` | the reference the stop rule is held against | `DrainTargets` |
| `DrainLoop` | `#runLoop` over two boards | `DrainTargets` |
| `FeatureDrain` | three starters of the feature script | – |
| `HeadlessJob` | abstract promise of a headless runner | – |
| `HeadlessRun` | `HeadlessRunnerCore` | refines `HeadlessJob` |
| `CommandSession` | `CommandService` + `PtySessionRegistry` + `PtyManager` + `JobLock` | – |
| `NightWatch` | timer chain, tick, token limit, budget pauses of night drains | – |
| `SecretVault` | abstract promise of the credential store | – |
| `CredentialKeys` | store, master key, backups, crash and boot | refines `SecretVault` |
| `Deployments` | deploy, undeploy, reconciliation, list of routes | – |
| `IdeaInbox` | capturing, resolving and finalising ideas | composed with `HeadlessJob` |
| `*Proofs` | theorems about the module of that name | TLAPS |

### DrainLifecycle

State per drain id: project, trigger, whether it was started at boot, status in memory and
on disk, loop position, abort handle; plus one lock per engine, `#activeDrains`, the write
chain (`pending`, `writing`, `snapshot`) and the orphans of the boot.

- `ManualStart` is the whole `POST /drain` handler: busy check, `register`, abort handle,
  `drainProject` up to its first await. A refused request changes nothing and is no action.
- `NightStart`/`NightStartBusy` are `#startDrain`. The night watch registers *before*
  `drainProject` checks for busy; the `already-busy` answer is handled in microtasks of the
  same turn, so entry, handle and slot come and go in one step with two writes queued.
- `Synced`, `BeginRound`, `EndRound` are the awaits of the loop; the abort handle is
  looked at only when a round begins. `FinishAborted`, `FinishDone`, `FinishFailed` are the
  `finally` of `drainProject` with the caller's handlers: release, mark, unregister, slot.
- `PersistBegin` copies the whole cache, `PersistCommit` is the rename, `PersistFail` the
  swallowed error.
- `Crash` empties memory. Child processes die with the container. `Boot` loads the file and
  reconciles; `Restart`, `RestartSkip`, `RestartBusyNight`, `NightGate` are the body of
  `BootDrainRecovery.run`: manual orphans first, then the gate, then the night orphans.
- `SessionsChange` is the environment: the first session or command of a project begins, or
  its last one ends. What keeps a project busy is modelled in detail in `CommandSession`.
- `stopped` and `lost` are history: the stops answered with 202, and those of them whose write
  a crash cut off, queued or in progress, or whose last write failed.

`DrainSession` says the same without locks, handles, entries and files. A session has a
*lane* (engine and project), begins only on a free one, goes from round to round, ends for
good, and begins no round after `Ask`, the 202 of the stop route. The refinement mapping
reads `where` from the ids handed out and the loop's position, `lane` from the entry and
`asked` from `stopped`: `Synced` and all steps of the disk and of the recovery's waiting are
stutters, each end of a drain is `Close`, a crash is `Outage`, a start that finds the project
busy after it has registered (`NightStartBusy`, `RestartBusyNight`) is `Refuse`, and a drain
restarted at boot is a session of its own.

Cost-mode arguments, reports and notifications are left out: no property is about them.

### DrainTargets and IdealRuns

Readiness (`computeStoryReadyStatus`), targets, `computeAliveStoryIds` and the stop rule as
operators over a board. Statuses that the code treats alike are one. The readiness rules
that are not about status and dependencies (active spec, known acceptance criteria, no
`blocked_reason`) are the set `Planned`. `IdealRuns` takes *every* board over every
dependency relation and lets ideal flow runs finish what `board next` lets them finish: a
reference semantics of "feasible work" against which the stop rule is checked.
`MCDrainTargets` bounds the dependencies for TLC. The theorems about `IdealRuns` stand in
`DrainLoopProofs`, which extends both and shares the lemmas on `DrainTargets`; hence the
names `IdealInit`, `IdealNext`, `IdealSpec`.

### DrainLoop

Two boards, the clone's working tree and `origin`; `ahead` says which one is read.
`FindProject` is the set of scans `#findProject` may return *now*, under the faults enabled
by `Faults`:

| Fault | In the code |
|---|---|
| `fetch` | `git fetch` fails: the scan is of the working tree and *unverified* |
| `ref` | a git error while the truth ref is resolved counts as "not ahead" |
| `read` | a file or directory of the board cannot be read or parsed, in the clone or at the ref (`readFileAtRef`/`listFilesAtRef` answer a git error with "no such file", "no files") |
| `limit` | token or budget limit before or during a run |
| `write` | `setBlocked` fails |

One action per way out of the loop's body: `Abort`, `StopWithoutWork`, `ProactivePause`,
`ChannelBusy`, `StartRun` before a run; `LimitedRun`, `Progress`, `Unverified`,
`NoEscalation`, `Escalate`, `EscalationIneffective` after it; `WriteBlocked` for the awaited
write, then the safety belt. `Others` (flow runs, users, other sessions) changes
stories, lands pull requests at origin and synchronises at any moment, a round included.

No reading fails as a whole. `BoardAggregator.scan` never throws (`BoardAggregator.js:1102`):
a `board.yaml` that is missing or does not parse leaves an entry without stories, unreadable
story files and directories are skipped, and a story whose spec cannot be read is not ready.
So under `read` a scan finds *any* subset of the stories (`Found`) and judges any subset of
the planned ones (`Judgeable`), and a drain may end as *no-drain-target* with work on its board
(section 6). The reason `scan-failed` needs an aggregator that throws or returns no array; it
cannot occur with this one and is left out.

Abstractions: `Planned` and `Depends` are fixed during a session; the choice between flow and
feature runs (`selectDrainMode`) does not matter to how a round is judged and is left out.
`calm`, `quietRuns` and the field `misled` of a scan (a git error hid that origin is ahead) are
history.

### FeatureDrain

`Start` takes the lock; `resolve` is the await on the plugin root; then `Spawn`,
`Unavailable` or `SpawnThrows`. `Exit`, or `ChildError` followed by `CloseAfterError`, ends
it. `awaited` is the polling loop of a drain round: an engine drains a project in one
loop and waits for each run, so it starts at most one at a time per project. Which feature
it takes is free. The registry's write is synchronous in the same turn. `faults` is rigid:
chosen at the start and never changed, so that a property can say "provided spawn does not
throw" about a whole behaviour.

### HeadlessJob and HeadlessRun

`HeadlessJob` is the promise: one running job per project, exactly one final status, and
every job ends. `HeadlessRun` has processes, events and timers. `Start` covers a process
that lives, one whose `'error'` is due and a spawn that throws (lock and job are settled in
the microtasks of the same turn: one step). `Exit` fixes exit code and output, `Close`
judges them: 401 before limit before exit code. `Timeout` sends `SIGTERM` – which the
process may ignore – and settles the job at once. The refinement is by equal names
(`project`, `job`). Polling by adapters, command lines and audit are left out.

### CommandSession

A timer is `off`, `armed` or `due` (its time has come, its callback has not run), so that a
callback can be overtaken by the events of the same turn. `GetOrCreate`, `DestroySession`,
`SessionIdle` are the registry; `Spawn`, `Exit`, `WindowPasses` the PTY manager with its
sliding window of restarts; `TryRun`, `Cancel`, `CancelThrows`, `Output`, `IdleExpired` the
command service. A command refused at the lock, by a failing audit or by a failing write
gives everything back but the session it opened. Invalid commands and refusals at the cap
change nothing and are stuttering. Writes to a dead process are dropped silently by
`PtyManager`, so a command in a failed session "runs" until its quiet period ends.
The shutdown (`destroy()`) and the content of terminals are not modelled.

### NightWatch

Time is cyclic (`hour`) and discrete; each deadline is kept as the time left to it and clipped
where it no longer matters how long it has passed (`Floor`; `PastWindow` answers both ways
where clipping would lose the difference). `Elapse` is the clock. It must not overtake a
timer that is due or a tick's reads (`Urgent`), but a run may take any time.

- `TimerFires`, then one action per way through the tick: `TickSkipped` (settings unreadable,
  container login expired), `TickOff`, `LimitStop`, `WaitForReset`/`WaitEnds`, `NoLimit`,
  `ScanFails`, `StartDrains`. Each ends with `EndTick`: the chain re-arms whatever happened.
- `plan` is what the tick has read and still needs: window end and slots from before the wait.
- `StartDrains` takes the first free projects of the index. One with an open session counts
  but gets `already-busy`; the watcher then listens to its session.
- A night drain is `round`, `run` or `pause` with the end of the window it was given.
  `ProactivePause`, `RunLimited` and `PauseEnds` are the two budget pauses.
- `LimitMessage`, `Output`, `BufferScrolls` are the watcher: every chunk parses the buffer
  again and takes the first match.
- `waited`, `due` and `quiet` are history.

A drain's entry, handle and lock are in `DrainLifecycle`, its rounds in `DrainLoop`.

### CredentialKeys and SecretVault

An encrypted entry is the key it is sealed with and the write it comes from. A call is
`queued` after the part before the lock, with the key it took there in `job` and what it
decrypted in `seen`; `Acquire` is `#withWriteLock`. A rotation is `RotateEncrypt` (entries
opened, sealed, written to the tmp file), `RotateSwap` (verified, renamed),
`RotateActivate` (saved in the env file – may fail –, active in the process), the backup
hook and, after the lock, `ArchiveRotatedKey`. `RotateAbort` and `LeaveUnchanged` are the
failures before the point of no return. `Crash` at any point; `Boot` looks for the key as
the constructor does, the process environment first.

`misuse` records five things the code lets happen (`Causes`): a set, restore or unlock that
waited out a rotation; a crash between swap and saved key; a crash after a key that could not
be saved. The three key invariants say that nothing *else* breaks them.

`SecretVault` knows neither keys nor locks: a map from names to secrets, with puts, removals,
backups and recalls. The refinement forgets keys (`Content`).

### Deployments

Every remote step is an action: it succeeds, fails without effect, or has its effect and
loses the answer (`Answers`; `MaxTrouble` bounds the last two, crashes and hand-made
changes). Requests and the job share `GetRoutes`, `PutRoutes` and `EditDns`, since all of
them go through the same read–modify–write of `CloudflareApi`; `AfterEdit` says what each does
next. A deploy is `StartDeploy` (gates and pull change nothing), `ListOld`, `RemoveOld`,
`SelectPort`, `RunContainer` or `PortTaken`, the route, DNS; `RollbackContainer` is the
compensation. An undeploy is route, DNS, `FindRunning`, `RemoveFound`. The job is
`ReadContainers`, `ReadRoutes` – `Looked` is all it keeps of the first read – then one
edit per orphan and per missing route. `Crash` ends everything under way; nothing resumes it.
Containers are named after the request that creates them; `Deployed` are those of earlier
days, running or stopped.

### IdeaInbox

A story file is the capture that wrote it and a status; files of the board CLI are the set
`titled`, since their names (`S-<n>-<title>.yaml`) differ from those of captures
(`S-<n>.yaml`). `ReadCounter`, `Reserve` and `ExclusiveCreate` are the awaits of one turn of
`_createIdeaLocked`, with the retry on `EEXIST`; `AddRead` and `AddWrite` are the board CLI,
whose late write may set the counter back. `CreateFails` is any error of a capture: nothing is
undone. `ResolveRead`/`ResolveWrite` and `ArchiveRead`/`ArchiveWrite` are separated by the
await after which the old text is written back.

`StartRun` checks for a run of the same idea, waits for the snapshot (`Listing` – an unreadable
directory is an empty one), then `Begin` or `Refused` asks the runner. The runner is an
instance of `HeadlessJob` over the variable `run`: what `HeadlessRun` was shown to implement is
what the finalizer may rely on. `GetJob` is the first poll that sees `done`, with the comparison
of the listings; `ReadIdeaStatus`, `ArchiveRead`, `ArchiveWrite` are the rest of the safety net.
New features, specs and temporary files count as evidence too; they are the free choice of
"archive" in `GetJob`. `raced` and `trouble` are history. The proofs are in
`HeadlessRunProofs`, beside those of the runner it rests on; hence the prefix `Inbox` of the
standard names.


## 3 Runs

Each property has a mutant in `PROJECT.json`: a plausible slip in the code it is about, under
which the property fails in that very run.

| Run | Checks | Bounds |
|---|---|---|
| `drain_lifecycle` | locks, registry, handles and slots follow the live loops; ends on disk are final; only a lost write undoes a stop; each drain is a session (refinement, with the end of stopped ones), the recovery ends, the file converges | 2 projects, 2 drains, `MaxParallel` 1, 1 crash, 1 failing write; 620 k states, with liveness |
| `targets` | the stop rule against ideal runs | all boards of 3 stories, all dependency relations with ≤ 2 dependencies per story, missing ids and cycles included, at most one unplanned story |
| `loop_safety` | over what an escalation writes *Blocked* | 2 stories in a chain, all five faults, 2 rounds, 1 change, escalation after 1, belt 2; 374 k states |
| `loop_ends` | belt bounds the quiet runs, the drain ends | 2 stories, fault `write`, escalation after 2, belt 3, 6 rounds, 1 change, all initial boards |
| `feature_drain` | one script per feature, locks come back | 1 project, 2 features, 3 runs, 1 crash, every set of faults; 526 k states |
| `headless_run` | lock, verdict, refinement with liveness | 2 projects, 3 jobs; 341 k states |
| `command_session` | lock, sessions under a command, liveness | 3 projects + global, cap 2, 2 restarts; 10 k states |
| `night_watch` | when night drains start, how long they pause, silence after `stop()`, work comes again and again | 2 projects, 1 or 2 slots, day of 4 units, tick every 2, buffers 1 and 2, a window within a day and one over midnight, project 1 attended, 2 changes from outside; 793 k states |
| `credential_keys` | one map of secrets (refinement), keys of file, process, boot and backups agree, calls end | 2 names, 2 keys, 2 calls, 1 crash |
| `deployments` | success is served, stopped apps keep their route, drift is healed | 2 hostnames and a protected one, 2 ports, a container of an earlier day, 2 requests, 1 failure, lost answer, crash or hand-made stop or start; 585 k states |
| `idea_inbox` | no idea lost or revived, unique ids, a settled idea behind each `done` | 3 numbers, 3 captures, 1 story of the board CLI, 2 finalizer runs, 2 attempts, 1 failing read or write; 4.8 M states |
| `credential_mixed` ✗ | a rotation leaves entries under two keys | as `credential_keys`, no crash |

✗ marks the run that is meant to fail (section 6).

**Why the bounds are enough.** Lifecycle: everything is per project and per engine, only
slots and the recovery's order relate projects. Two drains are what it takes to release each
other's lock, to collide in the file, or to be an orphan and its restart; the second project
makes "wrong project" mistakes visible and makes two drains compete for one slot; one crash
separates two process lives and one failing write makes the file stale before it. The proofs
remove these bounds for all safety properties. Targets: three stories hold every shape of
dependency that matters (chain, cycle, fork, join, dead end behind an alive story); the
fixpoint then needs more than one pass, which the single-hop mutant shows. Loop: with one run
per escalation a round is enough for a *Blocked* to be due, and the second round starts from what
the first has left; a chain of two has a target and one waiting for it. `loop_safety` starts
from boards of *To Do*, and *Done* for the first story (`FreshSpec`), the other statuses come
up during the drain; `loop_ends` starts from any.
`MaxRounds` never ends a drain by force: where it is reached, `StartRun` is disabled, and in
`loop_ends` the bound lies above what the drain can need with one change (at most
`SafetyMax` rounds without progress, once more after the change or an escalation): a drain
that used up the rounds at the top of its loop would violate `DrainEnds`. Feature: three
runs are a run, its late event and the run hurt by it, with one of each starter. Sessions:
with cap 2 and three projects one is always refused. Night watch: with two projects and one
slot somebody waits; a day of four units has an evening, a morning and a day outside the
window, ticks that hit and miss its ends, and resets inside and behind it; two changes are a
limit and what upsets the wait for it. Credentials: two calls are one that overtakes or
waits out the other; the theorems remove the bounds. Deployments: two requests, the job and
one trouble give every pair of overlapping sagas with one cut anywhere; two ports make ports
collide and run out. More troubles or requests are beyond five minutes of TLC. Ideas: for a
capture to meet an existing file the counter must be set back behind two finished captures,
so the third is the one that collides and retries; two runs are one whose evidence the other
makes.

**What the runs say, beyond the obvious.** `StopIsFinal`: when the drain gives up, no order
of successful runs could have made a story ready. `PlannedWaitingEnds`: what it waits for
comes, if every story is planned. `NoBlockOverDone`: whatever fails, no *Blocked* is about to
be written over a story that is *Done* in the clone or at an origin ahead of it, with two named
exceptions, both in the code: a board changed after the scan that the choice rests on, or a git
error hid from that scan that origin is ahead. The scan before the run may be as wrong as it
likes, and so may the boards it compares: only the verified scan after the run decides.
`RouterTellsTheTruth`: what the status route (entries) and the stop route
(handles) answer from agrees with the loops, through every way a drain can end; nothing is
claimed of the handle of a live drain restarted at boot (section 6). `UndoneStopsWereLost`: a
stop answered with 202 is on its way to the file from that moment on – behind older writes in
progress, past the end of the loop – and the recovery restarts its drain only if a crash or a
failing write has stopped it on that way.
`KeepsSessions`: a stop is answered while a round may be running and the entry is already
*aborted*; still no further round begins, even with the last look at the handle past, and the
drain ends. Its liveness half, `OrphansAreTreated` and `FileConverges` are stated as what
holds from some moment on, or again and again: drains, crashes and write failures are bounded, so a
behaviour has a last stop, boot and write, and the plain leads-to forms say the same.
`FileConverges` speaks of behaviours in which no write failed: nothing is retried.
`DurableEndIsFinal`: no queued write of an older snapshot takes an end back – the chain of
writes with its single snapshot at the start of each write is what guarantees it.
`VerdictIsKept`: waiting for `close` instead of `exit` is essential. `KeepsPromise` needs
fairness of the timers only: no process has to end. `HeldSessionLives`, `IdleSessionsClose`:
the re-arming of the idle timer while a command runs never ends in a session that nobody
closes. `StartsInNight`: a tick that has waited for a reset may start a drain up to one
buffer after the window it read. `PausesStayInNight`: a reset noted by another drain, or in
another night, cannot stretch a pause. `NightWorkStarts`: only the *first* project with work
is certain of its turn (section 6), and no failing read, limit or full house ends the chain.
`VaultIsKept`: the write lock is what makes calls atomic, although each begins before it.
`StoreOpens`, `BootFindsKey`, `BackupsOpen`: the list of causes is complete.
`OkMeansServed`: the order replace – port – run – route – DNS matters; stopped containers
count. `CapturesAreKept`: `link()` instead of `rename()` is what saves an idea when the
counter is set back. `IdsUniqueUnlessRaced`: it takes a read by both sides before either
writes to get two files of one id, and no failed capture leaves the way open to it.
`CheckedIdeaIsSettled`: no run ends as `done` over an untouched idea, except for an
ambiguous id or a failing read or write. `StopKeepsRoute`: the job must look at all
containers to remove and at running ones to heal. `DriftIsHealed`: every failed or cut saga,
lost update and race of deploy and job leaves only drift that the following runs of the job
remove.

`CHECK_DEADLOCK FALSE` stands only where a behaviour may really stop: a drain has ended
(`DrainLoop`), a board is finished (`IdealRuns`), or the bound on runs, jobs or calls is
used up and all of them are over (`FeatureDrain`, `HeadlessRun`, `CredentialKeys`, `IdeaInbox`).


## 4 Fairness

| Specification | Weak fairness of | Because |
|---|---|---|
| `DrainLifecycle!FairSpec` | every loop's step, persisting, boot, recovery | the event loop runs ready continuations; rounds end, since `HeadlessRunnerCore` settles each run at its timeout (`KeepsPromise`); Docker restarts the process |
| `DrainLoop!FairSpec` | decision at the top, judgement after a run, write | the same; nobody has to abort, occupy the channel or change a board |
| `IdealRuns!FairIdealSpec` | some finishing run | *ideal* runs, by definition of the question |
| `FeatureDrain!FairSpec` | plugin resolution; the script's end | file lookups return; that every **script ends is an assumption**: it has no timeout. No fairness for the `close` after `error` |
| `HeadlessRun!FairSpec` | timeouts | timers fire. No process has to end, no event has to come |
| `CommandSession!FairSpec` | the two kinds of timers | timers fire; users, processes and output owe nothing |
| `NightWatch!FairSpec` | tick and drain steps; **strong** fairness of `Elapse` | timers fire, reads return, runs end at their timeouts; time passes. Strong, because a drain over budget may repeat pauses of length zero (section 6) in which a timer is due each time |
| `CredentialKeys!FairSpec` | `Acquire` and `Work` of each call | file operations return, gpg is killed after 30 s, uploads have a timeout and bounded retries, each release wakes the next waiter |
| `Deployments!FairSpec` | the job; each request under way | midnight comes, every SSH and HTTPS call has a timeout; nobody has to deploy, stop or start anything |

Nothing fair makes a user, the night watch or a crash act.


## 5 Proofs

TLAPS checks these for every value of the constants, i.e. any number of projects, drains,
stories, jobs, crashes and so on, from the named assumptions in each module only
(`BoundsAssumption`, `StoriesAssumption`, `LoopAssumption`, `FeatureAssumption`,
`JobsAssumption`, `SessionAssumption`, `KeysAssumption`, `NightAssumption`,
`DeployAssumption`: types of the constants, non-zero limits, finitely
many projects).

**DrainLifecycleProofs.** `IInv` adds to the wanted invariants that ids not handed out have
no entry, loop or file record, and that a dead process holds nothing. `LocksCorrect` needs
`EnterLoop`'s busy check and that `Finish` releases exactly its own engine's lock;
`RegistryCorrect` needs that an aborted entry is not overwritten and that the history
`stopped` covers every aborted live entry. For the disk, `DInv` adds
`SnapshotsAgreeOnEnds` (an end in the file or in the snapshot being written is what memory
says, and in that order) and `OneRunningEverywhere` (two running entries of one group are
the same, compared across memory, snapshot and file). Neither is visible in the wanted
properties, and both are needed: a late commit writes an *old* copy of memory.
`AbortedIsTerminal` and `DurableEndCorrect` are action properties from these.
`RouterCorrect` joins registry and handles; the invariant holds the exact rule for handles
(`HandlesExactly`), of which the property claims only what the documents promise. `SlotsCorrect` is inductive together with `IInv`
(`SlotStep`): that no other live drain has the project of the one that ends comes from the locks,
the bound from the cardinality theorems. `StopsAreKeptCorrect` needs `StopInv`: a stop
answered and not lost is *aborted* in memory, and either the file has it, or the write in
progress carries it, or a write is queued; with `SnapshotsAgreeOnEnds` a commit cannot take it
back, and an orphan is never a live drain (`OrphansAreOver`), so no stop hits one.
`KeepsSessionsCorrect` proves the safety half of `KeepsSessions` step by step: each action of
`DrainLifecycle` is one of `DrainSession` or a stutter (`StepIsOfSession`, with `Registers`
for the ways an id is handed out and `LoopMoves` for those of a loop). That a lane is free
when a session begins follows from the lock (`LockIsHeldByItsLoop`); that no round follows a
stop needs one more inductive invariant, `AskedInv`: a live loop in `stopped` has its handle
aborted. It holds because only the end of the loop unregisters a handle and no start reuses
an id.

**DrainLoopProofs.** `IInv` = counters in range, and: during a quiet round the scan it began
with is still the scan of now (`RoundInv`), hence a quiet judged run is counted, hence
`quietRuns <= total` (`QuietInv`), hence the belt bounds them. `EscalatedInv` (escalated ⊆
attempted, a victim is attempted) gives `EscalatesOnceCorrect` (no story is chosen twice)
for *every* set of faults. `TInv` carries the strict bounds of both counters that type
correctness needs at the belt. `NoBlockCorrect` needs `BlockInv`: while a
write is due and nothing has changed a board since, its victim is not *Done* in the clone, and
origin is ahead only if the scan was misled. The choice establishes it, since a target of a
working-tree scan is unfinished there (`EscalatedIsUnfinished`), and whatever changes a board
voids its premise. No fault is excluded.

The same module proves what `DrainTargets` computes, for any board. `computeAliveStoryIds`
is a recursive function of the pass, so facts about it need induction over passes, and the
library's induction theorems cannot be used here (they take an operator). `LeastNumber` –
from the well-foundedness of `<` on the naturals – and `BoundedInduction`, which states
induction for a *set* of numbers, take their place. With them: the alive stories stay on the
board (`AliveOnBoard`) and below every set that the rule does not leave (`AliveIsLeast`).
After as many passes as stories nothing is added any more (`AliveIsClosed`): a pass that
adds something makes the set bigger, and the board bounds it. So `AliveCorrect`: the code's
loop computes *the* least fixpoint. `StopCorrect` then looks at ideal runs: a run that
finishes makes no other story alive (`FinishAddsNoAlive`), so where nothing is ready and
nothing could become ready, it stays so (`StopIsStable`), whatever the order of the runs.
`WaitingIsNotStuck`: while a story waits and every story is planned, some run can finish;
`WaitingGetsNearer`: each finish leaves fewer stories undone and does not make the waiting
one hopeless. `LongestUnmovedIsUnique`: the choice of a victim by age and number is one
story as long as one is left to try; so a drain that ends as *escalation-ineffective* has
tried all its targets (`IneffectiveIsExhausted`).

**FeatureDrainProofs.** Live runs hold the lock of their feature unless `'error'` events
occur (`HoldsLock`); a failing run exists only where there are such faults. From these:
one script per feature, no lock without a run, a truthful registry.

**HeadlessRunProofs.** `ChildInv` says which process still owes which event to which job;
`TimerInv` that timers belong to running jobs and that a fired one has failed its job.
The refinement theorem `KeepsPromiseCorrect` maps every step to `Begin`, `End` or a stutter
of `HeadlessJob` (safety part; the liveness part is checked by TLC).

There, too, the proofs of `IdeaInbox`. `InboxInv` is what the awaits of its actors have in
their hands. `NumbersInv`: until a race, every number in use lies below the counter, the
number a capture has reserved is free, nothing is retried, and what the board CLI has read
is the counter. `PatchInv`: a text read before belongs to the idea that still has the file,
so writing it back may lose an edit but never the idea. With the two invariants of the run
these are inductive, and give `IdsUniqueCorrect`, `CheckedIdeaCorrect`, `CapturesCorrect`
(an idea keeps its file and a settled one is never an idea again) and `RetriesOnlyAfterRace`
(`EEXIST` cannot come from a write that has failed).

**CommandSessionProofs.** `IInv` is the conjunction of the checked invariants and "the
global session exists"; one lemma per group of actions. The cap needs the cardinality
theorems: adding one session to fewer than `Cap`.

**CredentialKeysProofs.** `LockExcludes`: the call that stands under the lock is the one
`#writeLock` names. From it, what a call read under the lock is still the file when it
writes (`seen[o] = store`), and the tmp file of a rotation is the store under the new key.
That gives `ImplementsVault` (`Spec => Vault!Spec`: each step is a put, a removal, a backup, a
recall or a stutter) and, with what the process, the env file and the call know of keys, the
three key invariants. The history `unsaved` is what connects the process with the next boot.

**NightWatchProofs.** `Types` bounds each deadline by a day and its buffer. `PlanInv` relates
the wait of a tick with the window it has read (the sleep ends at most one buffer after
it), `QuietInv` says that a stopped chain has neither timeout nor tick; with
`PausesStayInNight` they are inductive. `OnlyScansStart` – a step that starts a drain is
`StartDrains` – turns them into the two action properties.

**DeploymentsProofs.** `IInv` is types, "nobody works on a protected hostname and a list
read earlier still has the protected routes", and "the job's choice is empty until it
reads". `ProtectedCorrect` follows: no write of however old a list loses a protected route.
`StopKeepsRouteCorrect` needs `AloneInv`: while the job is alone, a hostname it is about to
unroute has no container. `OkMeansServedCorrect` needs `DeployInv`: who is alone is the only
one at work (`Solo`); no container exists in the name of a request before its `docker run`
(`Fresh`); and a deploy alone and without trouble is at each of its places `OnCourse` –
while it replaces, what is left of its hostname is what it still has to replace; from
`docker run` on, its own container is the only one; the list it has read is the list as it
is; and the route is there before the CNAME. Each of the eleven steps of a request is one
lemma (`CallKeeps`), because only the step that moves has anything to show: `Solo` rules out
every other deploy.

The `TypeCorrect` theorems prove the type invariants; the runs spend their properties on
others. Also proved and not in a run: `AbortedIsTerminal` (an aborted entry stays aborted),
`EscalatesOncePerStory`, `LockBelongsToRun` (no feature lock outlives its run),
the cap on sessions, `OneOrphanPerGroup` (grouping orphans never drops one), the truthful
registry of feature drains, the hold that follows the command, `ProtectedKept`.

`PROJECT.json` lists the theorems with the properties they establish.


## 6 Disagreements between code and documents

One has a run whose counterexample TLC produces:

**A store under two keys** (`credential_mixed`): `set()` takes the master key before it waits
for the write lock (`CredentialStore.js:1035`). If it waits out a rotation it seals its entry
with the old key, into the file under the new one, against "kein Teil-/Misch-Zustand"
(`docs/specs/credential-key-rotation.md:66`). The entry cannot be read again and every later
rotation stops at it.

Met while modelling, admitted by the models as the code has them, without a run:

- *Drains.* Two drains of one project: the engines have separate locks (`server.js:397`,
  `:413`) against "höchstens ein aktiver Drain/flow gleichzeitig"
  (`docs/specs/taktgeber-nachtwaechter.md:59`). The stop answers 202 before the write
  (`DrainJobRegistry.js:397`), so a crash before it has landed brings a stopped drain back,
  against `projectDrainRouter.js:379` and AC4 and AC6 of `docs/specs/drain-stop-control.md`;
  so does a last write that fails. `UndoneStopsWereLost` shows that nothing else does.
  A drain restarted at boot has no abort handle (`BootDrainRecovery.js:287`), so the stop
  route answers 404 and the drain cannot be stopped, against `DrainAbortRegistry.js:5` ("Hält
  je aktivem Drain (manuell UND Nacht)") and AC1 and AC3 of `drain-stop-control.md`. The model
  has this as it is, and `RouterTellsTheTruth` leaves these drains out of what it says of
  handles. Such drains do not occupy a slot
  of `maxParallel` either (`BootDrainRecovery.js:193`).
- *Loop.* A round with an unverified scan counts nowhere (`ProjectDrain.js:1293`), while
  `drain-escalation-effectiveness.md:86` promises termination for every board;
  `QuietRunsBounded` and `DrainEnds` show it for readable ones. `computeAliveStoryIds` (`ProjectDrain.js:518`) counts a *To Do* story as alive even
  if its planning rules keep it from ever being ready; the comment at `:475` says
  otherwise (hence "planned = Stories" in `PlannedWaitingEnds`). The safety belt also
  fires in a round whose escalation succeeded (`:1282`, against
  `drain-escalation-effectiveness.md:56`). Scans of different sources are compared as if
  they were one board: pseudo progress (against `:55` there), and a report from two sources
  (`:1087`, against `drain-origin-progress-sync.md:80`). A git error while the truth
  ref is resolved looks like "not ahead" (`:1674`): a story *Done* at origin can then be written
  *Blocked*, against `drain-origin-progress-sync.md:63`; `NoBlockOverDone` names this case
  (`misled`). A board that cannot be read, in the clone or at the ref, looks like an empty one:
  a broken `board.yaml` is dropped by `!p.error` (`:1646`) with `scanFailed` false, skipped
  story files and git errors at the ref (`:1622`) are no failure either. The drain then ends as
  *no-drain-target* although there is work, against the comment at `:1575`, by which a caller can
  tell "wirklich leer/nicht gefunden" from "Scan fehlgeschlagen"; `scan-failed` (`:1090`) cannot
  occur, since `BoardAggregator.scan` never throws (`BoardAggregator.js:1102`).
- *Feature drains.* `FeatureDrainRegistry.js:71` loads *running* entries of a dead process as
  they are and nothing reconciles them. `'error'` followed by `'close'` releases the lock twice
  (`FeatureDrainRunner.js:82`), the second time maybe that of a later run; a spawn that
  throws leaks lock and entry (`:61`, against `ProjectJobLock.js:23`). Two engines may run two
  features of one project at once (against `feature-aware-drain.md`, AC6). The premises about
  `faults` in the properties are these.
- *Headless runs.* A timed-out process gets one `SIGTERM` and no escalation; its lock is
  free at once, so it may overlap with the next run in the same clone (against
  `headless-reconcile-runner.md:26`, and the "only `close` ends a job" of
  `HeadlessRunnerCore.js:24`). `OneChildUnlessExpired` says that this is the only way.
- *Commands.* `cancel()` disarms the quiet-period timer before an unguarded write
  (`CommandService.js:322–327`). If that throws, the command, the process-wide lock and the
  session's hold stay, and every project is busy for drains, until another cancel succeeds
  (`Stranded`). A command refused as `locked` has already opened a session
  (`CommandService.js:260`), which takes a slot and keeps drains off its project for half an
  hour. Sessions are closed when idle even if a terminal is connected, which
  `PtySessionRegistry.js:4` describes otherwise.
- *Night watch.* `stop()` during a tick does not end the chain: the tick re-arms the timer
  (`NightWatchScheduler.js:506`), and a `start()` then makes two chains; `StoppedStaysQuiet`
  is about a stop that finds no tick. An old limit message read again after its reset names
  the next day (`TokenLimitWatcher.js:395`), which ends the night (against
  `taktgeber-nachtwaechter.md:68`). A newer limit that arrives during the wait is lost by
  `clear()`. A drain may start up to the reset buffer after the window (AC11; stated by
  `StartsInNight`). Slots are counted before the index is awaited and the index order never
  rotates, so later projects may starve (AC9). With the budget used up and a reset noted in
  an earlier night, a drain repeats pauses of length zero (`BudgetGuard.js:219`).
- *Credentials.* Besides the run: a restore or unlock that waits out a rotation; a crash
  between the rename and the save of the new key (`CredentialStore.js:1960`): no boot opens
  the file. The key is archived in Bitwarden only after the rotation
  (against `credential-key-rotation.md:61`). A key set in the environment
  (`docker-compose.yml:186`) shadows the rotated one saved in the file at the next boot.
  These are the five `Causes`.
- *Deployments.* `undeploy` looks for a *running* container (`DeployOrchestrator.js:517`):
  a stopped one stays (against `deploy-lifecycle.md`, AC5), and deleting a stopped container
  through the router (`vpsContainerRouter.js:596`) takes the route and the running container of
  its hostname. The job reads containers before routes (`ReconciliationJob.js:482`, `:554`):
  a deploy in between loses its new route until the next run (`cloudflare-reconciliation.md`,
  "Datenerhalt"). Two overlapping edits of the list of routes: one is lost
  (`CloudflareApi.js:318–336`). A port of a stopped container is given away
  (`DeployOrchestrator.js:671`); its route then serves the other app and its start is refused
  (`cloudflare-reconciliation.md:83`). A missing CNAME, or a route with a wrong port, is never
  healed (`deploy-lifecycle.md:102`: "Rest-Drift fängt der Reconciliation-Cron"). A run that
  fails may leave a created container; a deploy reported as failed may go live at the next
  reconciliation. `addRoute` replaces a custom catch-all rule by the default, whatever its
  comment says (`CloudflareApi.js:324–333`).

- *Ideas.* `createIdea` tries `S-<n>.yaml` only (`BoardWriter.js:1065`), while the board CLI
  writes `S-<n>-<title>.yaml`, the form of every file in `board/stories/`. So if both have read the
  same counter, the exclusive create sees no collision and two files have one id, against the
  retry that `BoardWriter.js:104–117` and `:985` describe; resolving, archiving and blocking that
  id then fail as `ambiguous-story`, and a finalizer run for it stays `done` with its idea in the
  inbox, unreported. This is the premise of `IdsUniqueUnlessRaced` and an exception of
  `CheckedIdeaIsSettled`. `resolveIdea` and `archiveSupersededIdea` write back the text they
  have read: an edit in between is lost, and two resolves at once both write *Done* and answer 200,
  against "KEIN zweites `Done`" (`BoardWriter.js:574`). `getJob` flags a job as checked before it
  awaits the check (`IdeaSpecifyFinalizer.js:431`): a second poll meanwhile is told `done`, a later
  one `no-op`. The snapshot turns a failing `readdir` into an empty set
  (`:197`), so the comparison after it finds everything new and an idle run archives its idea;
  the fail-safe for a failed baseline (`:513`) is never reached (against
  `docs/specs/headless-arg-finalize-safety.md`).


## 7 What is not modelled, and what is only checked

Only checked by TLC, not proved, is liveness: `OrphansAreTreated`, that a stopped drain ends
(`Session!AskedEnd`, the second half of `KeepsSessions`),
`FileConverges`, `DrainEnds`, `PlannedWaitingEnds`, `LockIsReleased`, `CommandEnds`,
`IdleSessionsClose`, `NightWorkStarts`, `CallsEnd`, `DriftIsHealed` and the fair part of
`KeepsPromise`. Fairness and ENABLED are out of the prover's reach. Every other property of a
passing run is a theorem. For `PlannedWaitingEnds` the safety half of the argument is proved
(`WaitingIsNotStuck`, `WaitingGetsNearer`): what is missing is that a fair step is taken.

Not modelled inside the modelled components: `selectDrainMode`; the git steps of
`#syncCloneToOrigin`; the runners' polling loops; server shutdown; terminal contents,
resizing and output forwarding; audit entries, reports, notifications. Board reads take
place at one moment (a scan that races with a write of the same file is not modelled).
Night watch: a changed polling interval, an explicit project list, the throttled audit, a
running command as a busy signal; reads take less than a unit and timers are punctual.
Credentials: reads, key files read late, `discardArchivedKeys`, the deploy login, per-app keys,
retention and upload of backups. Deployments: one VPS and one tunnel; `createDnsRecord` and
`deleteDnsRecord` list and write in one step; unmanaged containers, failing audits, image
updates, stacks, tunnel drift and its notices. Ideas: one resolve at a time, finding and reading
a file as one step, what a single poll answers, the views by idea, the gate of the finalize route
and the restart that forgets all runs; `auth-expired` and `budget-limited` are `failed`, which
the finalizer treats alike.

Components not modelled are listed in 1.9 and with reasons in `PROJECT.json`; external
services, cryptography and the client stay outside, the rest is planned.

Hazards without a property are in `PROJECT.json` under "hazards", each with the reason.


## 8 Plan

Done, in the order of importance: lifecycle, targets and loop of drains; feature drains;
headless runs; commands and sessions; credential store; night watch; deployments; ideas.

Next modules:

1. `BoardEdits`: the other requests of the board write side against flow runs and each other.
2. `RetroQueue`: `RetroAutoQueue` with `AutoRetroTrigger` – every queued retro once, one
   at a time, after a crash too.
3. `DrainMode`: `selectDrainMode` and `FeatureDrainFlowRunner`'s verdicts, so that a drain
   round composes `DrainLoop` with `FeatureDrain` and `HeadlessJob`.
4. Stacks and the tunnel heal service, as sagas beside `Deployments`.
5. Notifications, idea and story chats, `StorySpecifyFinalizer`.

Abstract specifications worth stating: "a lock service" that `ProjectJobLock` with its users
implements; the reasons with which a session of `DrainSession` ends, once `DrainLoop` and
`DrainLifecycle` are composed.

Theorems: for the new modules what they promise. For
the liveness properties, measures that no step raises and each fair step lowers, as
`WaitingGetsNearer` is one, are as far as the prover gets.
