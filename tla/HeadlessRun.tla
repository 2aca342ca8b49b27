----------------------------- MODULE HeadlessRun -----------------------------
(***************************************************************************)
(* HeadlessRunnerCore, the engine of all runners that spawn `claude -p` in *)
(* a project's clone: lock, job, child process, timer and the three        *)
(* sources that end a job - the 'close' event, the 'error' event and the   *)
(* timeout - in whatever order they come.                                  *)
(***************************************************************************)
EXTENDS Naturals

CONSTANTS
  Projects,
  MaxJobs    \* bound: number of jobs started

ASSUME JobsAssumption == MaxJobs \in Nat

Jobs     == 1..MaxJobs
Terminal == {"done", "failed", "auth-expired", "budget-limited"}

\* what the captured output of a run may show
Signs    == {"auth", "limit"}
Results  == [code : {"zero", "other"}, signs : SUBSET Signs]

VARIABLES
  used,     \* number of jobs so far
  project,  \* project of a job
  job,      \* #jobs: status of a job
  lock,     \* ProjectJobLock of the runner
  timer,    \* jobs whose timeout is armed
  child,    \* the child process and the events it still owes
  result,   \* exit code and output of an ended child
  expired   \* history: jobs whose timeout has fired

vars == <<used, project, job, lock, timer, child, result, expired>>

\* "unborn": spawn has failed and 'error' is due; "exited": 'close' is due, the
\* pipes may still be held by processes the child has left behind
Children == {"none", "unborn", "errored", "alive", "exited", "closed"}

TypeOK ==
  /\ used \in 0..MaxJobs
  /\ project \in [Jobs -> Projects]
  /\ job \in [Jobs -> Terminal \cup {"none", "running"}]
  /\ lock \in SUBSET Projects
  /\ timer \in SUBSET Jobs
  /\ child \in [Jobs -> Children]
  /\ result \in [Jobs -> Results]
  /\ expired \in SUBSET Jobs

NoResult == [code |-> "other", signs |-> {}]   \* code -2, no output

Init ==
  /\ used = 0
  /\ \E p \in Projects : project = [j \in Jobs |-> p]
  /\ job = [j \in Jobs |-> "none"]
  /\ lock = {}
  /\ timer = {}
  /\ child = [j \in Jobs |-> "none"]
  /\ result = [j \in Jobs |-> NoResult]
  /\ expired = {}

-----------------------------------------------------------------------------
\* register the job and spawn; the process may come to life, fail with an
\* 'error' event, or spawn may throw.  (Mutant of Start: the lock is not asked.)
Launch(p, birth) ==
  /\ used < MaxJobs
  /\ used' = used + 1
  /\ project' = [project EXCEPT ![used + 1] = p]
  /\ IF birth = "throws"
     THEN /\ job' = [job EXCEPT ![used + 1] = "failed"]
          /\ UNCHANGED <<lock, timer, child>>
     ELSE /\ job' = [job EXCEPT ![used + 1] = "running"]
          /\ lock' = lock \cup {p}
          /\ timer' = timer \cup {used + 1}
          /\ child' = [child EXCEPT ![used + 1] = birth]
  /\ UNCHANGED <<result, expired>>

\* start: refused with 'locked' while a job of the project runs
Start(p, birth) == p \notin lock /\ Launch(p, birth)

\* mutant: `settled` is not asked, whoever comes later settles again
FinishAgain(j, status) ==
  /\ job' = [job EXCEPT ![j] = status]
  /\ timer' = timer \ {j}
  /\ lock' = lock \ {project[j]}

\* finish() and the finally of #runProcess, in one turn: the first source
\* settles the job, disarms the timer and releases the lock
Finish(j, status) ==
  IF job[j] # "running"
  THEN UNCHANGED <<job, timer, lock>>
  ELSE /\ job' = [job EXCEPT ![j] = status]
       /\ timer' = timer \ {j}
       /\ lock' = lock \ {project[j]}

\* 401 before a limit before the exit code
Verdict(r) ==
  IF "auth" \in r.signs THEN "auth-expired"
  ELSE IF "limit" \in r.signs THEN "budget-limited"
  ELSE IF r.code = "zero" THEN "done"
  ELSE "failed"

Turns(j, from, to) ==
  /\ child[j] = from
  /\ child' = [child EXCEPT ![j] = to]
  /\ UNCHANGED <<used, project>>

\* mutant: the 'exit' event settles the job before all output has been read
ExitSettles(j, r) ==
  /\ Turns(j, "alive", "exited")
  /\ result' = [result EXCEPT ![j] = r]
  /\ Finish(j, Verdict([r EXCEPT !.signs = {}]))
  /\ UNCHANGED expired

\* the process ends, by itself or by SIGTERM; nothing makes it end
Exit(j, r) ==
  /\ Turns(j, "alive", "exited")
  /\ result' = [result EXCEPT ![j] = r]
  /\ UNCHANGED <<job, lock, timer, expired>>

Close(j) ==
  /\ Turns(j, "exited", "closed")
  /\ Finish(j, Verdict(result[j]))
  /\ UNCHANGED <<result, expired>>

Error(j) ==
  /\ Turns(j, "unborn", "errored")
  /\ Finish(j, "failed")
  /\ UNCHANGED <<result, expired>>

CloseAfterError(j) ==
  /\ Turns(j, "errored", "closed")
  /\ Finish(j, Verdict(NoResult))
  /\ UNCHANGED <<result, expired>>

\* mutant: SIGTERM is sent and the end of the job left to the 'close' event
TimeoutWaits(j) ==
  /\ j \in timer
  /\ timer' = timer \ {j}
  /\ expired' = expired \cup {j}
  /\ UNCHANGED <<used, project, job, lock, child, result>>

\* SIGTERM, which the process may ignore, and 'failed' at once
Timeout(j) ==
  /\ j \in timer
  /\ Finish(j, "failed")
  /\ expired' = expired \cup {j}
  /\ UNCHANGED <<used, project, child, result>>

-----------------------------------------------------------------------------
Event(j) == Close(j) \/ Error(j) \/ CloseAfterError(j)

Next ==
  \/ \E p \in Projects, birth \in {"alive", "unborn", "throws"} : Start(p, birth)
  \/ \E j \in Jobs : Event(j) \/ Timeout(j)
  \/ \E j \in Jobs, r \in Results : Exit(j, r)

Spec == Init /\ [][Next]_vars

\* Timers fire.  No child has to end and no event has to come.
FairSpec == Spec /\ \A j \in Jobs : WF_vars(Timeout(j))

-----------------------------------------------------------------------------
(* Properties.                                                             *)

Running(j) == job[j] = "running"

\* The lock of a project is held exactly while one job of it runs: no late
\* event of an earlier job frees the lock of a later one.
LockFollowsJobs ==
  /\ \A p \in Projects : p \in lock <=> \E j \in Jobs : Running(j) /\ project[j] = p
  /\ \A i, j \in Jobs : Running(i) /\ Running(j) /\ project[i] = project[j] => i = j

\* Two processes work in one clone only if the timeout of one has fired.
OneChildUnlessExpired ==
  \A i, j \in Jobs :
    (/\ child[i] = "alive" /\ i \notin expired
     /\ child[j] = "alive" /\ j \notin expired
     /\ project[i] = project[j]) => i = j

\* A job that was not timed out ends with the verdict of its own process.
VerdictIsKept ==
  \A j \in Jobs :
    child[j] = "closed" /\ j \notin expired => job[j] = Verdict(result[j])

\* The runner keeps the promise of HeadlessJob: one running job per project, one
\* final status per job - and every job ends, although no process has to.
Promise == INSTANCE HeadlessJob

KeepsPromise == Promise!FairSpec
=============================================================================
