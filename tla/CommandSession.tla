--------------------------- MODULE CommandSession ---------------------------
(***************************************************************************)
(* Commands in interactive sessions: CommandService with the process-wide  *)
(* JobLock, PtySessionRegistry with one session per project, and the       *)
(* PtyManager of each session.                                             *)
(***************************************************************************)
EXTENDS Naturals, FiniteSets

CONSTANTS
  Projects,
  Global,     \* the session without a project
  Cap,        \* SESSION_CAP
  RestartMax  \* RESTART_MAX

ASSUME SessionAssumption ==
  /\ IsFiniteSet(Projects) /\ Global \notin Projects
  /\ Cap \in Nat /\ RestartMax \in Nat

Keys == Projects \cup {Global}

VARIABLES
  session,  \* #sessions: no entry, an entry with a process, or one given up
  recent,   \* restarts of a session within RESTART_WINDOW_MS
  timer,    \* idle timer of a session: off, armed, or its time has come
  holds,    \* #activeJobs
  lock,     \* JobLock
  status,   \* #currentStatus
  current,  \* #currentProjectPath, Global standing for null
  idle      \* quiet-period timer of the running command, as timer

sessionVars == <<session, recent>>
jobVars     == <<holds, lock, status, current, idle>>
vars        == <<session, recent, timer, holds, lock, status, current, idle>>

Timer == {"off", "armed", "due"}

TypeOK ==
  /\ session \in [Keys -> {"none", "live", "failed"}]
  /\ recent \in [Keys -> 0..RestartMax]
  /\ timer \in [Projects -> Timer]
  /\ holds \in SUBSET Keys
  /\ lock \in BOOLEAN
  /\ status \in {"null", "running", "done", "cancelled"}
  /\ current \in Keys
  /\ idle \in Timer

Init ==
  /\ session = [k \in Keys |-> IF k = Global THEN "live" ELSE "none"]
  /\ recent = [k \in Keys |-> 0]
  /\ timer = [p \in Projects |-> "off"]
  /\ holds = {}
  /\ lock = FALSE
  /\ status = "null"
  /\ current = Global
  /\ idle = "off"

Running == status = "running"
Open    == {p \in Projects : session[p] # "none"}

-----------------------------------------------------------------------------
(* PtyManager.                                                             *)

\* a process comes up after some spawns that threw, each of which counts as a
\* restart, or the session is given up
Spawn(k, least) ==
  \/ \E n \in least..RestartMax :
       /\ session' = [session EXCEPT ![k] = "live"]
       /\ recent' = [recent EXCEPT ![k] = n]
  \/ /\ session' = [session EXCEPT ![k] = "failed"]
     /\ recent' = [recent EXCEPT ![k] = RestartMax]

Exit(k) ==
  /\ session[k] = "live"
  /\ Spawn(k, recent[k] + 1)
  /\ UNCHANGED <<timer, jobVars>>

\* the oldest restart leaves the window
WindowPasses(k) ==
  /\ session[k] = "live" /\ recent[k] > 0
  /\ recent' = [recent EXCEPT ![k] = @ - 1]
  /\ UNCHANGED <<session, timer, jobVars>>

-----------------------------------------------------------------------------
(* PtySessionRegistry.                                                     *)

ResetIdleTimer(p) == timer' = [timer EXCEPT ![p] = "armed"]

OpenSession(p) ==
  /\ session[p] = "none" /\ Cardinality(Open) < Cap
  /\ Spawn(p, 0) /\ ResetIdleTimer(p)

\* getOrCreate, where it returns a session; at the cap nothing happens
GetOrCreate(k) ==
  \/ k = Global /\ UNCHANGED <<session, recent, timer>>
  \/ /\ k \in Projects
     /\ \/ session[k] # "none" /\ ResetIdleTimer(k) /\ UNCHANGED sessionVars
        \/ OpenSession(k)

TimeElapses(p) ==
  /\ timer[p] = "armed"
  /\ timer' = [timer EXCEPT ![p] = "due"]
  /\ UNCHANGED <<session, recent, jobVars>>

DestroySession(p) ==
  /\ session' = [session EXCEPT ![p] = "none"]
  /\ recent' = [recent EXCEPT ![p] = 0]
  /\ timer' = [timer EXCEPT ![p] = "off"]

\* mutant: a session is closed although a command runs in it
IdleClosesAlways(p) ==
  timer[p] = "due" /\ DestroySession(p) /\ UNCHANGED jobVars

\* the callback of the idle timer
SessionIdle(p) ==
  /\ timer[p] = "due"
  /\ IF p \in holds
     THEN ResetIdleTimer(p) /\ UNCHANGED sessionVars
     ELSE DestroySession(p)
  /\ UNCHANGED jobVars

\* a terminal connects, or a discussion of an idea is started
Connect(k) == GetOrCreate(k) /\ UNCHANGED jobVars

-----------------------------------------------------------------------------
(* CommandService.                                                         *)

Accept(k) ==
  /\ ~lock
  /\ lock' = TRUE
  /\ status' = "running"
  /\ current' = k
  /\ holds' = holds \cup {k}
  /\ idle' = "armed"

\* mutant: a failing audit or write leaves the lock
TryRunLeaks(k) ==
  /\ GetOrCreate(k)
  /\ \/ Accept(k)
     \/ lock' = TRUE /\ UNCHANGED <<holds, status, current, idle>>

\* tryRun for a valid command: the session comes first, then the lock, the audit
\* and the write, each of which may refuse and give everything back but the
\* session
TryRun(k) == GetOrCreate(k) /\ (Accept(k) \/ UNCHANGED jobVars)

\* releaseJobHold
ReleaseJobHold ==
  /\ holds' = holds \ {current}
  /\ IF current \in Open THEN ResetIdleTimer(current) ELSE UNCHANGED timer

\* mutant: #currentProjectPath is reset before the hold is released
EndForgetsProject(s) ==
  /\ status' = s
  /\ idle' = "off"
  /\ lock' = FALSE
  /\ holds' = holds \ {Global}
  /\ current' = Global
  /\ UNCHANGED <<session, recent, timer>>

End(s) ==
  /\ status' = s
  /\ idle' = "off"
  /\ lock' = FALSE
  /\ ReleaseJobHold
  /\ current' = Global
  /\ UNCHANGED sessionVars

Cancel == Running /\ End("cancelled")

\* the write of Ctrl-C throws: the timer is disarmed, all the rest stays
CancelThrows ==
  /\ Running
  /\ idle' = "off"
  /\ UNCHANGED <<session, recent, timer, holds, lock, status, current>>

\* output after a pause, just before the callback of the timer
Output ==
  /\ Running /\ session[current] = "live"
  /\ idle = "due" /\ idle' = "armed"
  /\ UNCHANGED <<session, recent, timer, holds, lock, status, current>>

QuietPeriod ==
  /\ idle = "armed" /\ idle' = "due"
  /\ UNCHANGED <<session, recent, timer, holds, lock, status, current>>

\* mutant: completion is looked for only while the process is there
IdleExpiredIfLive == idle = "due" /\ session[current] = "live" /\ End("done")

\* the callback of the quiet-period timer
IdleExpired == idle = "due" /\ End("done")

-----------------------------------------------------------------------------
Request == \E k \in Keys : Connect(k) \/ TryRun(k)

Timers ==
  \/ \E p \in Projects : TimeElapses(p) \/ SessionIdle(p)
  \/ QuietPeriod \/ IdleExpired

Next ==
  \/ Request
  \/ Timers
  \/ Output \/ Cancel \/ CancelThrows
  \/ \E k \in Keys : Exit(k) \/ WindowPasses(k)

Spec == Init /\ [][Next]_vars

\* Time passes and timers fire; users and processes need do nothing.
FairSpec ==
  /\ Spec
  /\ \A p \in Projects : WF_vars(TimeElapses(p)) /\ WF_vars(SessionIdle(p))
  /\ WF_vars(QuietPeriod) /\ WF_vars(IdleExpired)

-----------------------------------------------------------------------------
(* Properties.                                                             *)

\* The process-wide lock is held exactly while a command runs: no refusal, failed
\* audit or failed write keeps it, and no second command starts.  The
\* quiet-period timer belongs to a running command.
LockFollowsCommand ==
  /\ lock <=> Running
  /\ idle # "off" => Running

\* The registry holds the session of the running command and no other: a hold
\* that stays would keep its session for ever.
HoldFollowsCommand == holds = IF Running THEN {current} ELSE {}

\* The session of a running command is not closed under it, however long the
\* command runs and whoever watches.
HeldSessionLives == Running => session[current] # "none"

\* Never more project sessions than SESSION_CAP, whoever opens them.
CapHolds == Cardinality(Open) <= Cap

\* The command's timer has been disarmed by a cancel that then failed.
Stranded == Running /\ idle = "off"

\* A command ends once its session falls silent, even if its process has died or
\* has never been there - unless a cancel has failed.
CommandEnds ==
  <>[][~Output]_vars => (Running ~> (~Running \/ Stranded))

\* someone uses a session without a job, or starts one
Use == \E k \in Keys : (k \notin holds /\ Connect(k)) \/ Accept(k)

\* When nobody uses sessions any more and the command falls silent, all project
\* sessions are closed: no hold and no timer is forgotten.
IdleSessionsClose ==
  <>[][~Use]_vars /\ <>[][~Output]_vars => <>[](Open = {}) \/ <>Stranded
=============================================================================
