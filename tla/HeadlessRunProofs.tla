-------------------------- MODULE HeadlessRunProofs --------------------------
(***************************************************************************)
(* What holds of HeadlessRun for every set of projects and any number of   *)
(* jobs; in particular that it keeps the safety part of HeadlessJob. Then  *)
(* what holds of IdeaInbox, which relies on HeadlessJob.                   *)
(***************************************************************************)
EXTENDS HeadlessRun, IdeaInbox, TLAPS

\* nothing is known of a job that has not been started
UnusedInv ==
  \A j \in Jobs :
    j > used => job[j] = "none" /\ child[j] = "none" /\ j \notin expired

\* a process that still owes its first event belongs to a running job, unless
\* the timeout has settled the job before
ChildInv ==
  /\ \A j \in Jobs :
       child[j] \in {"unborn", "alive", "exited"} /\ j \notin expired => Running(j)
  /\ \A j \in Jobs :
       child[j] \in {"none", "unborn", "errored"} => result[j] = NoResult
  /\ \A j \in Jobs :
       child[j] = "errored" => job[j] = "failed"

\* a timer belongs to a running job, and one that has fired has failed it
TimerInv ==
  /\ \A j \in timer : Running(j)
  /\ \A j \in expired : job[j] = "failed"

IInv ==
  /\ TypeOK
  /\ UnusedInv
  /\ ChildInv
  /\ TimerInv
  /\ LockFollowsJobs
  /\ VerdictIsKept

-----------------------------------------------------------------------------
LEMMA VerdictType ==
  ASSUME NEW r \in Results PROVE Verdict(r) \in Terminal
BY DEF Verdict, Terminal

LEMMA NoResultFails == NoResult \in Results /\ Verdict(NoResult) = "failed"
BY DEF NoResult, Results, Verdict

LEMMA InitInv == Init => IInv
<1> SUFFICES ASSUME Init PROVE IInv
  OBVIOUS
<1>1. TypeOK
  BY JobsAssumption, NoResultFails DEF Init, TypeOK, Jobs, Terminal, Children
<1>2. UnusedInv /\ ChildInv /\ TimerInv /\ LockFollowsJobs /\ VerdictIsKept
  BY DEF Init, UnusedInv, ChildInv, TimerInv, LockFollowsJobs, VerdictIsKept, Running
<1>3. QED
  BY <1>1, <1>2 DEF IInv

-----------------------------------------------------------------------------
\* The first source settles a job; every later one changes nothing.
LEMMA FinishSettles ==
  ASSUME IInv, NEW j \in Jobs, NEW status \in Terminal, Finish(j, status),
         project' = project
  PROVE  /\ job' \in [Jobs -> Terminal \cup {"none", "running"}]
         /\ lock' \in SUBSET Projects
         /\ timer' \in SUBSET Jobs
         /\ job'[j] # "running"
         /\ Running(j) => job'[j] = status
         /\ ~Running(j) => job' = job
         /\ \A i \in Jobs : i # j => job'[i] = job[i]
         /\ \A i \in Jobs : i \in timer' => i \in timer /\ i # j
         /\ LockFollowsJobs'
<1>1. CASE ~Running(j)
  <2>1. job' = job /\ lock' = lock /\ timer' = timer
    BY <1>1 DEF Finish, Running
  <2>2. j \notin timer
    BY <1>1 DEF IInv, TimerInv
  <2>3. QED
    BY <1>1, <2>1, <2>2 DEF IInv, TypeOK, LockFollowsJobs, Running
<1>2. CASE Running(j)
  <2>1. /\ job' = [job EXCEPT ![j] = status]
        /\ timer' = timer \ {j}
        /\ lock' = lock \ {project[j]}
    BY <1>2 DEF Finish, Running
  <2>2. /\ job'[j] = status /\ status # "running"
        /\ \A i \in Jobs : i # j => job'[i] = job[i]
        /\ job' \in [Jobs -> Terminal \cup {"none", "running"}]
    BY <2>1 DEF IInv, TypeOK, Terminal
  <2>3. \A i \in Jobs : Running(i)' <=> Running(i) /\ i # j
    BY <2>2 DEF Running
  <2>4. LockFollowsJobs'
    BY <1>2, <2>1, <2>3 DEF IInv, LockFollowsJobs
  <2>5. QED
    BY <1>2, <2>1, <2>2, <2>4 DEF IInv, TypeOK
<1>3. QED
  BY <1>1, <1>2

\* An event that moves a child on and settles its job keeps the invariant.
LEMMA SettleKeepsInv ==
  ASSUME IInv, NEW j \in Jobs, NEW status \in Terminal, Finish(j, status),
         NEW from \in {"unborn", "errored", "exited"}, NEW to \in {"errored", "closed"},
         Turns(j, from, to), UNCHANGED <<result, expired>>,
         to = "errored" => from = "unborn" /\ status = "failed",
         to = "closed" => from # "unborn" /\ status = Verdict(result[j])
  PROVE  IInv'
<1>1. /\ project' = project /\ used' = used /\ child[j] = from /\ child'[j] = to
      /\ \A i \in Jobs : i # j => child'[i] = child[i]
      /\ child' \in [Jobs -> Children]
  BY DEF Turns, IInv, TypeOK, Children
<1>2. /\ job' \in [Jobs -> Terminal \cup {"none", "running"}]
      /\ lock' \in SUBSET Projects /\ timer' \in SUBSET Jobs
      /\ job'[j] # "running"
      /\ Running(j) => job'[j] = status
      /\ ~Running(j) => job' = job
      /\ \A i \in Jobs : i # j => job'[i] = job[i]
      /\ \A i \in Jobs : i \in timer' => i \in timer /\ i # j
      /\ LockFollowsJobs'
  BY <1>1, FinishSettles
<1>3. TypeOK'
  BY <1>1, <1>2 DEF IInv, TypeOK
<1>4. UnusedInv'
  <2>1. ~(j > used)
    BY <1>1 DEF IInv, UnusedInv
  <2>2. QED
    BY <1>1, <1>2, <2>1 DEF IInv, UnusedInv
<1>5. ChildInv'
  <2>1. to = "errored" => job'[j] = "failed" /\ result[j] = NoResult
    <3>1. SUFFICES ASSUME to = "errored"
                   PROVE  job'[j] = "failed" /\ result[j] = NoResult
      OBVIOUS
    <3>2. result[j] = NoResult
      BY <1>1, <3>1 DEF IInv, ChildInv
    <3>3. job'[j] = "failed"
      BY <1>1, <1>2, <3>1 DEF IInv, ChildInv, TimerInv, Running
    <3>4. QED
      BY <3>2, <3>3
  <2>2. result' = result /\ expired' = expired
    OBVIOUS
  <2>3. ASSUME NEW i \in Jobs, child'[i] \in {"unborn", "alive", "exited"}, i \notin expired
        PROVE  Running(i)'
    <3>1. i # j /\ child[i] = child'[i]
      BY <1>1, <2>3
    <3>2. Running(i)
      BY <2>3, <3>1 DEF IInv, ChildInv
    <3>3. QED
      BY <1>2, <3>1, <3>2 DEF Running
  <2>4. ASSUME NEW i \in Jobs, child'[i] \in {"none", "unborn", "errored"}
        PROVE  result[i] = NoResult
    BY <1>1, <2>1, <2>4 DEF IInv, ChildInv
  <2>5. ASSUME NEW i \in Jobs, child'[i] = "errored"
        PROVE  job'[i] = "failed"
    BY <1>1, <1>2, <2>1, <2>5 DEF IInv, ChildInv
  <2>6. QED
    BY <2>2, <2>3, <2>4, <2>5 DEF ChildInv
<1>6. TimerInv'
  BY <1>2 DEF IInv, TimerInv, Running, TypeOK
<1>7. VerdictIsKept'
  <2>1. ASSUME to = "closed", j \notin expired
        PROVE  job'[j] = Verdict(result[j])
    <3>1. CASE from = "exited"
      BY <1>1, <1>2, <2>1, <3>1 DEF IInv, ChildInv
    <3>2. CASE from = "errored"
      BY <1>1, <1>2, <2>1, <3>2, NoResultFails DEF IInv, ChildInv, Running
    <3>3. QED
      BY <2>1, <3>1, <3>2
  <2>2. QED
    BY <1>1, <1>2, <2>1 DEF IInv, VerdictIsKept
<1>8. QED
  BY <1>2, <1>3, <1>4, <1>5, <1>6, <1>7 DEF IInv

-----------------------------------------------------------------------------
\* A job starts only where none is running.
LEMMA StartKeepsInv ==
  ASSUME IInv, NEW p \in Projects, NEW birth \in {"alive", "unborn", "throws"},
         Start(p, birth)
  PROVE  IInv'
<1> DEFINE new == used + 1
<1>1. /\ new \in Jobs /\ used \in Nat /\ used' = new /\ used' \in 0..MaxJobs
      /\ p \notin lock
      /\ project' = [project EXCEPT ![new] = p]
      /\ result' = result /\ expired' = expired
  BY JobsAssumption DEF Start, Launch, IInv, TypeOK, Jobs
<1>2. /\ job[new] = "none" /\ child[new] = "none" /\ new \notin expired
      /\ result[new] = NoResult /\ new \notin timer
  BY <1>1 DEF IInv, UnusedInv, ChildInv, TimerInv, Running
<1>3. /\ \A j \in Jobs : j # new =>
            project'[j] = project[j] /\ job'[j] = job[j] /\ child'[j] = child[j]
      /\ project'[new] = p
      /\ project' \in [Jobs -> Projects]
  BY <1>1 DEF Start, Launch, IInv, TypeOK
<1>4. \A j \in Jobs : j > used' => j > used /\ j # new
  BY <1>1 DEF Jobs
<1>5. CASE birth = "throws"
  <2>1. /\ job'[new] = "failed" /\ child' = child /\ lock' = lock /\ timer' = timer
        /\ job' \in [Jobs -> Terminal \cup {"none", "running"}]
    BY <1>1, <1>5 DEF Start, Launch, IInv, TypeOK, Terminal
  <2>2. TypeOK'
    BY <1>1, <1>3, <2>1 DEF IInv, TypeOK
  <2>3. UnusedInv'
    BY <1>1, <1>3, <1>4, <2>1 DEF IInv, UnusedInv
  <2>4. \A j \in Jobs : Running(j)' <=> Running(j)
    BY <1>2, <1>3, <2>1 DEF Running
  <2>5. ChildInv'
    BY <1>1, <1>2, <1>3, <2>1, <2>4 DEF IInv, ChildInv
  <2>6. TimerInv'
    BY <1>1, <1>2, <1>3, <2>1, <2>4 DEF IInv, TimerInv, TypeOK
  <2>7. \A j \in Jobs : Running(j) => project'[j] = project[j]
    BY <1>2, <1>3 DEF Running
  <2>8. LockFollowsJobs'
    BY <2>1, <2>4, <2>7 DEF IInv, LockFollowsJobs
  <2>9. VerdictIsKept'
    BY <1>1, <1>2, <1>3, <2>1 DEF IInv, VerdictIsKept
  <2>10. QED
    BY <2>2, <2>3, <2>5, <2>6, <2>8, <2>9 DEF IInv
<1>6. CASE birth # "throws"
  <2>1. /\ job'[new] = "running" /\ child'[new] = birth
        /\ birth \in {"alive", "unborn"}
        /\ lock' = lock \cup {p} /\ timer' = timer \cup {new}
        /\ job' \in [Jobs -> Terminal \cup {"none", "running"}]
        /\ child' \in [Jobs -> Children]
    BY <1>1, <1>6 DEF Start, Launch, IInv, TypeOK, Children
  <2>2. TypeOK'
    BY <1>1, <1>3, <2>1 DEF IInv, TypeOK
  <2>3. UnusedInv'
    BY <1>1, <1>3, <1>4, <2>1 DEF IInv, UnusedInv
  <2>4. \A j \in Jobs : Running(j)' <=> Running(j) \/ j = new
    BY <1>2, <1>3, <2>1 DEF Running
  <2>5. ChildInv'
    BY <1>1, <1>2, <1>3, <2>1, <2>4 DEF IInv, ChildInv
  <2>6. TimerInv'
    BY <1>1, <1>2, <1>3, <2>1, <2>4 DEF IInv, TimerInv, TypeOK
  <2>7. \A j \in Jobs : Running(j) => j # new /\ project'[j] = project[j]
    BY <1>2, <1>3 DEF Running
  <2>8. LockFollowsJobs'
    <3>1. ASSUME NEW q \in Projects
          PROVE  q \in lock' <=> \E j \in Jobs : Running(j)' /\ project'[j] = q
      BY <1>1, <1>3, <2>1, <2>4, <2>7 DEF IInv, LockFollowsJobs
    <3>2. ASSUME NEW i \in Jobs, NEW j \in Jobs, Running(i)', Running(j)',
                 project'[i] = project'[j]
          PROVE  i = j
      <4>1. \A k \in Jobs : Running(k) => project'[k] # p
        BY <1>1, <2>7 DEF IInv, LockFollowsJobs
      <4>2. CASE i = new \/ j = new
        BY <1>3, <2>4, <3>2, <4>1, <4>2
      <4>3. CASE i # new /\ j # new
        BY <2>4, <2>7, <3>2, <4>3 DEF IInv, LockFollowsJobs
      <4>4. QED
        BY <4>2, <4>3
    <3>3. QED
      BY <3>1, <3>2 DEF LockFollowsJobs
  <2>9. VerdictIsKept'
    BY <1>1, <1>2, <1>3, <2>1 DEF IInv, VerdictIsKept
  <2>10. QED
    BY <2>2, <2>3, <2>5, <2>6, <2>8, <2>9 DEF IInv
<1>7. QED
  BY <1>5, <1>6

\* A timeout settles the job and may leave its process behind.
LEMMA TimeoutKeepsInv ==
  ASSUME IInv, NEW j \in Jobs, Timeout(j)
  PROVE  IInv'
<1>1. /\ Running(j) /\ Finish(j, "failed") /\ expired' = expired \cup {j}
      /\ used' = used /\ project' = project /\ child' = child /\ result' = result
  BY DEF Timeout, IInv, TimerInv
<1>2. /\ job' \in [Jobs -> Terminal \cup {"none", "running"}]
      /\ lock' \in SUBSET Projects /\ timer' \in SUBSET Jobs
      /\ job'[j] = "failed"
      /\ \A i \in Jobs : i # j => job'[i] = job[i]
      /\ \A i \in Jobs : i \in timer' => i \in timer /\ i # j
      /\ LockFollowsJobs'
  BY <1>1, FinishSettles DEF Terminal
<1>3. TypeOK'
  BY <1>1, <1>2 DEF IInv, TypeOK
<1>4. UnusedInv'
  BY <1>1, <1>2 DEF IInv, UnusedInv, Running
<1>5. ChildInv'
  BY <1>1, <1>2 DEF IInv, ChildInv, Running
<1>6. TimerInv'
  BY <1>1, <1>2 DEF IInv, TimerInv, Running, TypeOK
<1>7. VerdictIsKept'
  BY <1>1, <1>2 DEF IInv, VerdictIsKept
<1>8. QED
  BY <1>2, <1>3, <1>4, <1>5, <1>6, <1>7 DEF IInv

\* The end of a process alone changes nothing but what its events will say.
LEMMA ExitKeepsInv ==
  ASSUME IInv, NEW j \in Jobs, NEW r \in Results, Exit(j, r)
  PROVE  IInv'
<1>1. /\ child[j] = "alive" /\ child' = [child EXCEPT ![j] = "exited"]
      /\ result' = [result EXCEPT ![j] = r]
      /\ UNCHANGED <<used, project, job, lock, timer, expired>>
  BY DEF Exit, Turns
<1>2. TypeOK'
  BY <1>1 DEF IInv, TypeOK, Children
<1>3. UnusedInv' /\ TimerInv' /\ LockFollowsJobs'
  BY <1>1 DEF IInv, TypeOK, UnusedInv, TimerInv, LockFollowsJobs, Running
<1>4. ChildInv'
  BY <1>1 DEF IInv, TypeOK, ChildInv, Running
<1>5. VerdictIsKept'
  BY <1>1 DEF IInv, TypeOK, VerdictIsKept
<1>6. QED
  BY <1>2, <1>3, <1>4, <1>5 DEF IInv

LEMMA StepKeepsInv == IInv /\ [Next]_vars => IInv'
<1> SUFFICES ASSUME IInv, [Next]_vars PROVE IInv'
  OBVIOUS
<1>1. ASSUME NEW j \in Jobs, Close(j)
      PROVE  IInv'
  <2>1. Verdict(result[j]) \in Terminal
    BY VerdictType DEF IInv, TypeOK
  <2>2. QED
    BY <1>1, <2>1, SettleKeepsInv DEF Close
<1>2. ASSUME NEW j \in Jobs, Error(j)
      PROVE  IInv'
  BY <1>2, SettleKeepsInv DEF Error, Terminal
<1>3. ASSUME NEW j \in Jobs, CloseAfterError(j)
      PROVE  IInv'
  <2>1. result[j] = NoResult
    BY <1>3 DEF CloseAfterError, Turns, IInv, ChildInv
  <2>2. QED
    BY <1>3, <2>1, SettleKeepsInv, VerdictType, NoResultFails DEF CloseAfterError
<1>4. CASE UNCHANGED vars
  BY <1>4 DEF vars, IInv, TypeOK, UnusedInv, ChildInv, TimerInv, LockFollowsJobs,
              VerdictIsKept, Running
<1>5. QED
  BY <1>1, <1>2, <1>3, <1>4, StartKeepsInv, TimeoutKeepsInv, ExitKeepsInv
     DEF Next, Event

\* The inductive invariant holds of every behaviour.
THEOREM InvariantHolds == Spec => []IInv
  BY InitInv, StepKeepsInv, PTL DEF Spec

\* The types of all variables are invariant.
THEOREM TypeCorrect == Spec => []TypeOK
<1>1. IInv => TypeOK
  BY DEF IInv
<1>2. QED
  BY <1>1, InvariantHolds, PTL

\* A project's lock is held exactly while one job of it runs.
THEOREM LockCorrect == Spec => []LockFollowsJobs
<1>1. IInv => LockFollowsJobs
  BY DEF IInv
<1>2. QED
  BY <1>1, InvariantHolds, PTL

\* Two processes in one clone need a timeout.
THEOREM OneChildCorrect == Spec => []OneChildUnlessExpired
<1>1. IInv => OneChildUnlessExpired
  BY DEF IInv, ChildInv, LockFollowsJobs, OneChildUnlessExpired
<1>2. QED
  BY <1>1, InvariantHolds, PTL

\* A job that was not timed out ends with the verdict of its own process.
THEOREM VerdictCorrect == Spec => []VerdictIsKept
<1>1. IInv => VerdictIsKept
  BY DEF IInv
<1>2. QED
  BY <1>1, InvariantHolds, PTL

-----------------------------------------------------------------------------
(* The safety part of the promise.                                         *)

\* Settling a job is an End of the promise, settling it again a stutter.
LEMMA FinishKeepsPromise ==
  ASSUME IInv, NEW j \in Jobs, NEW status \in Terminal, Finish(j, status),
         project' = project
  PROVE  [Promise!Next]_(Promise!vars)
<1>1. CASE Running(j)
  <2>1. Promise!End(j, status)
    BY <1>1 DEF Finish, Running, Promise!End, Promise!Terminal, Terminal
  <2>2. QED
    BY <2>1 DEF Promise!Next, Promise!Ends, Promise!Terminal, Terminal
<1>2. CASE ~Running(j)
  BY <1>2 DEF Finish, Running, Promise!vars
<1>3. QED
  BY <1>1, <1>2

LEMMA StartKeepsPromise ==
  ASSUME IInv, NEW p \in Projects, NEW birth \in {"alive", "unborn", "throws"},
         Start(p, birth)
  PROVE  Promise!Next
<1> DEFINE new == used + 1
           status == IF birth = "throws" THEN "failed" ELSE "running"
<1>1. new \in Jobs /\ job[new] = "none"
  BY JobsAssumption DEF Start, Launch, IInv, TypeOK, Jobs, UnusedInv
<1>2. Promise!RunningIn(p) = {}
  BY DEF Start, IInv, LockFollowsJobs, Running, Promise!RunningIn
<1>3. Promise!Begin(new, p, status)
  BY <1>1, <1>2 DEF Start, Launch, Promise!Begin
<1>4. status \in {"running", "failed"}
  OBVIOUS
<1>5. QED
  BY <1>1, <1>3, <1>4 DEF Promise!Next

LEMMA StepKeepsPromise ==
  IInv /\ [Next]_vars => [Promise!Next]_(Promise!vars)
<1> SUFFICES ASSUME IInv, [Next]_vars PROVE [Promise!Next]_(Promise!vars)
  OBVIOUS
<1>1. ASSUME NEW j \in Jobs, Close(j) \/ Error(j) \/ CloseAfterError(j) \/ Timeout(j)
      PROVE  [Promise!Next]_(Promise!vars)
  <2>1. \E status \in Terminal : Finish(j, status)
    BY <1>1, VerdictType, NoResultFails
       DEF Close, Error, CloseAfterError, Timeout, IInv, TypeOK, Terminal
  <2>2. project' = project
    BY <1>1 DEF Close, Error, CloseAfterError, Timeout, Turns
  <2>3. QED
    BY <2>1, <2>2, FinishKeepsPromise
<1>2. ASSUME NEW j \in Jobs, NEW r \in Results, Exit(j, r)
      PROVE  [Promise!Next]_(Promise!vars)
  BY <1>2 DEF Exit, Turns, Promise!vars
<1>3. CASE UNCHANGED vars
  BY <1>3 DEF vars, Promise!vars
<1>4. QED
  BY <1>1, <1>2, <1>3, StartKeepsPromise DEF Next, Event

\* HeadlessRunnerCore implements what HeadlessJob promises its callers, apart
\* from liveness.
THEOREM KeepsPromiseCorrect == Spec => Promise!Spec
<1>1. Init => Promise!Init
  BY DEF Init, Promise!Init
<1>2. QED
  BY <1>1, InvariantHolds, StepKeepsPromise, PTL DEF Spec, Promise!Spec

-----------------------------------------------------------------------------
(* IdeaInbox: a client of the runner, which relies on its promise.         *)

\* a capture holds a number of the board while it reserves or creates
CaptureInv ==
  /\ capture.stage \in {"reserve", "create"} => capture.number \in Numbers
  /\ capture.stage # "idle" => captures \in 1..MaxCaptures
  /\ capture.stage = "retry" => capture.attempt < Attempts

\* until the first race every number in use has been taken from the counter, so
\* that the number of a capture is free and nothing is tried again
NumbersInv ==
  ~raced =>
    /\ \A n \in Numbers : Exists(n) => n < counter
    /\ \A n \in titled : n < counter
    /\ capture.stage = "reserve" => capture.number = counter /\ add = 0
    /\ capture.stage = "create"  => /\ capture.number < counter
                                    /\ ~Exists(capture.number)
                                    /\ capture.number \notin titled
    /\ capture.stage # "retry"
    /\ add # 0 => add = counter

\* a text read before is one of the idea that still has that file
Stale(t, n) == n \in Numbers /\ Exists(n) /\ t \in Texts /\ t.by = story[n].by

PatchInv ==
  /\ resolve # None => Stale(resolve.text, resolve.number)
  /\ \A j \in Runs : net[j] # "idle" => idea[j] \in Numbers /\ Exists(idea[j])
  /\ \A j \in Runs : net[j] = "write" => Stale(text[j], idea[j])

InboxInv ==
  /\ InboxTypeOK
  /\ CaptureInv
  /\ NumbersInv
  /\ PatchInv
  /\ IdsUniqueUnlessRaced
  /\ CheckedIdeaIsSettled

\* what a step leaves of the ideas
Keeps ==
  \A n \in Numbers :
    Exists(n) => /\ story'[n] # NoFile
                 /\ story'[n].by = story[n].by
                 /\ story[n].status # "Idee" => story'[n].status # "Idee"

\* The bounds are numbers.
LEMMA InboxBounds ==
  /\ Max \in Nat /\ MaxCaptures \in Nat /\ MaxAdds \in Nat /\ MaxRuns \in Nat
  /\ MaxFaults \in Nat /\ Attempts \in Nat \ {0}
BY InboxAssumption

\* A missing file has neither a capture nor a status.
LEMMA NoFileIsNoText ==
  NoFile \notin Texts /\ NoFile.status = "none" /\ NoFile.by = 0
BY DEF NoFile, Texts

\* A changed status leaves the rest of a text alone.
LEMMA ChangedTexts ==
  ASSUME NEW t \in Texts, NEW status \in {"To Do", "Done"}
  PROVE  /\ [t EXCEPT !.status = status] \in Texts
         /\ [t EXCEPT !.status = status].by = t.by
         /\ [t EXCEPT !.status = status].status = status
BY DEF Texts

\* An empty inbox satisfies the invariant.
LEMMA InboxInitInv == InboxInit => InboxInv
<1> SUFFICES ASSUME InboxInit PROVE InboxInv
  OBVIOUS
<1> USE InboxBounds DEF InboxInit
<1>1. InboxTypeOK
  <2>1. capture \in [stage : {"idle", "retry", "reserve", "create"},
                    number : 0..Max, attempt : 0..Attempts]
    BY DEF Idle
  <2>2. resolve \in [number : 0..Max, text : Texts \cup {NoFile}]
    BY DEF None
  <2>3. run \in [Runs -> Runner!Terminal \cup {"none", "running"}]
    OBVIOUS
  <2>4. /\ story \in [Numbers -> Texts \cup {NoFile}]
        /\ net \in [Runs -> {"idle", "baseline", "started", "status", "archive",
                            "write", "over"}]
        /\ idea \in [Runs -> 0..Max]
        /\ baseline \in [Runs -> SUBSET Names]
        /\ text \in [Runs -> Texts \cup {NoFile}]
    OBVIOUS
  <2>5. counter \in 1..(Max + 1) /\ captures \in 0..MaxCaptures /\ add \in 0..Max
          /\ adds \in 0..MaxAdds /\ faults \in 0..MaxFaults
    OBVIOUS
  <2>6. titled \subseteq Numbers /\ noop \subseteq Runs /\ trouble \subseteq Runs
    OBVIOUS
  <2>7. raced \in BOOLEAN
    OBVIOUS
  <2> HIDE DEF InboxInit
  <2> QED
    BY <2>1, <2>2, <2>3, <2>4, <2>5, <2>6, <2>7 DEF InboxTypeOK
<1>2. CaptureInv
  BY DEF CaptureInv, Idle
<1>3. \A n \in Numbers : ~Exists(n)
  BY DEF Exists
<1>4. NumbersInv /\ IdsUniqueUnlessRaced
  BY <1>3 DEF NumbersInv, Idle, IdsUniqueUnlessRaced, Ambiguous
<1>5. PatchInv /\ CheckedIdeaIsSettled
  BY DEF PatchInv, CheckedIdeaIsSettled
<1> QED
  BY <1>1, <1>2, <1>4, <1>5 DEF InboxInv

-----------------------------------------------------------------------------
\* A capture makes a file only where there is none, and a resolve writes back
\* the text of the same idea, settled.
LEMMA StepKeeps == InboxInv /\ [InboxNext]_inboxVars => Keeps
<1> SUFFICES ASSUME InboxInv, [InboxNext]_inboxVars PROVE Keeps
  OBVIOUS
<1> USE DEF InboxInv
<1>1. CASE story' = story
  BY <1>1 DEF Keeps, Exists
<1>2. CASE ExclusiveCreate
  <2>1. CASE Exists(capture.number)
    BY <1>2, <1>1, <2>1 DEF ExclusiveCreate
  <2>2. CASE ~Exists(capture.number)
    <3>1. story' = [story EXCEPT ![capture.number] = NewIdea]
      BY <1>2, <2>2 DEF ExclusiveCreate
    <3>2. \A n \in Numbers : Exists(n) => story'[n] = story[n]
      BY <2>2, <3>1 DEF InboxTypeOK
    <3> QED
      BY <3>2 DEF Keeps, Exists
  <2> QED
    BY <2>1, <2>2
<1>3. ASSUME NEW n \in Numbers, TakeOver(n)
      PROVE  Keeps
  <2>1. story' = [story EXCEPT ![n].status = "To Do"] /\ story[n].status = "Idee"
    BY <1>3 DEF TakeOver
  <2>2. story \in [Numbers -> Texts \cup {NoFile}]
    BY DEF InboxTypeOK
  <2>3. story[n] \in Texts
    <3>1. story[n] # NoFile
      BY <2>1, NoFileIsNoText
    <3> QED
      BY <2>2, <3>1
  <2>4. story'[n] = [story[n] EXCEPT !.status = "To Do"]
    BY <2>1, <2>2
  <2>5. \A m \in Numbers \ {n} : story'[m] = story[m]
    BY <2>1, <2>2
  <2>6. story'[n].by = story[n].by /\ story'[n].status = "To Do"
    BY <2>3, <2>4, ChangedTexts
  <2>7. story'[n] # NoFile
    BY <2>6, NoFileIsNoText
  <2> QED
    BY <2>1, <2>5, <2>6, <2>7 DEF Keeps, Exists
<1>4. ASSUME NEW t, NEW n, Stale(t, n), story' = [story EXCEPT ![n] = Resolved(t)]
      PROVE  Keeps
  <2>1. story \in [Numbers -> Texts \cup {NoFile}]
    BY DEF InboxTypeOK
  <2>2. story'[n] = Resolved(t) /\ Resolved(t) # NoFile /\ Resolved(t).by = story[n].by
          /\ Resolved(t).status # "Idee"
    BY <1>4, <2>1, ChangedTexts, NoFileIsNoText DEF Stale, Resolved
  <2>3. \A m \in Numbers \ {n} : story'[m] = story[m]
    BY <1>4, <2>1
  <2> QED
    BY <2>2, <2>3 DEF Keeps, Exists
<1>5. CASE ResolveWrite
  <2>1. resolve # None
          /\ \/ story' = story
             \/ story' = [story EXCEPT ![resolve.number] = Resolved(resolve.text)]
    BY <1>5 DEF ResolveWrite
  <2>2. Stale(resolve.text, resolve.number)
    BY <2>1 DEF PatchInv
  <2> QED
    BY <1>1, <1>4, <2>1, <2>2
<1>6. ASSUME NEW j \in Runs, ArchiveWrite(j)
      PROVE  Keeps
  <2>1. net[j] = "write"
          /\ (story' = story \/ story' = [story EXCEPT ![idea[j]] = Resolved(text[j])])
    BY <1>6 DEF ArchiveWrite
  <2>2. Stale(text[j], idea[j])
    BY <2>1 DEF PatchInv
  <2> QED
    BY <1>1, <1>4, <2>1, <2>2
<1>7. CASE UNCHANGED inboxVars
  BY <1>1, <1>7 DEF inboxVars, boardVars
<1>8. CASE ReadCounter \/ Reserve \/ CreateFails \/ AddRead \/ AddWrite
             \/ \E n \in Numbers : ResolveRead(n)
  BY <1>1, <1>8 DEF ReadCounter, Reserve, CreateFails, AddRead, AddWrite, ResolveRead,
       boardVars
<1>9. ASSUME NEW j \in Runs,
             Finalize(j) \/ GetJob(j) \/ ReadIdeaStatus(j) \/ ArchiveRead(j)
      PROVE  Keeps
  BY <1>1, <1>9 DEF Finalize, StartRun, Begin, Refused, RunEnds, GetJob, ReadIdeaStatus,
                    ArchiveRead, boardVars
<1> QED
  BY <1>2, <1>3, <1>5, <1>6, <1>7, <1>8, <1>9
     DEF InboxNext, Capture, Outside, Resolve, SafetyNet

-----------------------------------------------------------------------------
(* Types.                                                                  *)

CaptureTypes ==
  /\ counter \in 1..(Max + 1)
  /\ capture \in [stage : {"idle", "retry", "reserve", "create"},
                  number : 0..Max, attempt : 0..Attempts]
  /\ captures \in 0..MaxCaptures
  /\ add \in 0..Max /\ adds \in 0..MaxAdds
  /\ titled \subseteq Numbers
  /\ faults \in 0..MaxFaults
  /\ raced \in BOOLEAN

StoryTypes ==
  /\ story \in [Numbers -> Texts \cup {NoFile}]
  /\ resolve \in [number : 0..Max, text : Texts \cup {NoFile}]

NetTypes ==
  /\ run \in [Runs -> Runner!Terminal \cup {"none", "running"}]
  /\ net \in [Runs -> {"idle", "baseline", "started", "status", "archive",
                      "write", "over"}]
  /\ idea \in [Runs -> 0..Max]
  /\ baseline \in [Runs -> SUBSET Names]
  /\ text \in [Runs -> Texts \cup {NoFile}]
  /\ noop \subseteq Runs /\ trouble \subseteq Runs

\* The types of the counter, of the captures and of the board CLI.
LEMMA CaptureTypesStep == InboxInv /\ [InboxNext]_inboxVars => CaptureTypes'
<1> SUFFICES ASSUME InboxInv, [InboxNext]_inboxVars PROVE CaptureTypes'
  OBVIOUS
<1> USE InboxBounds
<1>0. CaptureTypes /\ CaptureInv
  BY DEF InboxInv, InboxTypeOK, CaptureTypes
<1>1. CASE UNCHANGED <<boardVars, captureVars, addVars, faults, raced>>
  BY <1>0, <1>1 DEF CaptureTypes, boardVars, captureVars, addVars
<1>2. CASE ReadCounter
  <2>1. capture' \in [stage : {"idle", "retry", "reserve", "create"},
                      number : 0..Max, attempt : 0..Attempts]
    BY <1>0, <1>2 DEF CaptureTypes, CaptureInv, ReadCounter
  <2>2. captures' \in 0..MaxCaptures
    BY <1>0, <1>2 DEF CaptureTypes, ReadCounter
  <2>3. raced' \in BOOLEAN
    BY <1>2 DEF ReadCounter
  <2>4. UNCHANGED <<counter, add, adds, titled, faults>>
    BY <1>2 DEF ReadCounter, boardVars, addVars
  <2> QED
    BY <1>0, <2>1, <2>2, <2>3, <2>4 DEF CaptureTypes
<1>3. CASE Reserve
  <2>1. counter' \in 1..(Max + 1) /\ capture' = [capture EXCEPT !.stage = "create"]
    BY <1>0, <1>3 DEF CaptureTypes, Reserve
  <2>2. capture' \in [stage : {"idle", "retry", "reserve", "create"},
                      number : 0..Max, attempt : 0..Attempts]
    BY <1>0, <2>1 DEF CaptureTypes
  <2>3. UNCHANGED <<captures, add, adds, titled, faults, raced>>
    BY <1>3 DEF Reserve, addVars
  <2> QED
    BY <1>0, <2>1, <2>2, <2>3 DEF CaptureTypes
<1>4. CASE CreateFails \/ ExclusiveCreate
  <2>1. capture' = Idle \/ capture' = [capture EXCEPT !.stage = "retry"]
    BY <1>4 DEF CreateFails, ExclusiveCreate
  <2>2. capture' \in [stage : {"idle", "retry", "reserve", "create"},
                      number : 0..Max, attempt : 0..Attempts]
    BY <1>0, <2>1 DEF CaptureTypes, Idle
  <2>3. UNCHANGED <<counter, captures, add, adds, titled, raced>>
          /\ faults' \in 0..MaxFaults
    BY <1>0, <1>4 DEF CreateFails, ExclusiveCreate, addVars, boardVars, Fault,
         CaptureTypes
  <2> QED
    BY <1>0, <2>2, <2>3 DEF CaptureTypes
<1>5. CASE AddRead
  <2>1. UNCHANGED <<counter, capture, captures, titled, faults>> /\ raced' \in BOOLEAN
    BY <1>5 DEF AddRead, boardVars, captureVars
  <2>2. add' \in 0..Max /\ adds' \in 0..MaxAdds
    BY <1>0, <1>5 DEF AddRead, CaptureTypes
  <2> QED
    BY <1>0, <2>1, <2>2 DEF CaptureTypes
<1>6. CASE AddWrite
  <2>1. UNCHANGED <<capture, captures, adds, faults, raced>>
    BY <1>6 DEF AddWrite, captureVars
  <2>2. counter' \in 1..(Max + 1) /\ add' \in 0..Max /\ titled' \subseteq Numbers
    BY <1>0, <1>6 DEF AddWrite, CaptureTypes, Numbers
  <2> QED
    BY <1>0, <2>1, <2>2 DEF CaptureTypes
<1>7. CASE UNCHANGED <<counter, titled, captureVars, addVars, raced>>
        /\ (Fault \/ UNCHANGED faults)
  <2>1. faults' \in 0..MaxFaults
    BY <1>0, <1>7 DEF Fault, CaptureTypes
  <2> QED
    BY <1>0, <1>7, <2>1 DEF CaptureTypes, captureVars, addVars
<1>8. CASE \/ ResolveWrite \/ \E n \in Numbers : TakeOver(n) \/ ResolveRead(n)
           \/ \E j \in Runs : Finalize(j) \/ SafetyNet(j)
  BY <1>7, <1>8 DEF ResolveWrite, TakeOver, ResolveRead, Finalize, StartRun, Begin,
       Refused, RunEnds, SafetyNet, GetJob, ReadIdeaStatus, ArchiveRead,
       ArchiveWrite, Listing, boardVars
<1>9. CASE UNCHANGED inboxVars
  BY <1>1, <1>9 DEF inboxVars
<1> QED
  BY <1>2, <1>3, <1>4, <1>5, <1>6, <1>8, <1>9 DEF InboxNext, Capture, Outside, Resolve

\* The types of the story files and of a resolve under way.
LEMMA StoryTypesStep == InboxInv /\ [InboxNext]_inboxVars => StoryTypes'
<1> SUFFICES ASSUME InboxInv, [InboxNext]_inboxVars PROVE StoryTypes'
  OBVIOUS
<1>0. StoryTypes /\ PatchInv /\ CaptureInv
  BY DEF InboxInv, InboxTypeOK, StoryTypes
<1>1. CASE UNCHANGED <<story, resolve>>
  BY <1>0, <1>1 DEF StoryTypes
<1>2. CASE ExclusiveCreate
  <2>1. captures \in 1..MaxCaptures /\ UNCHANGED resolve
    BY <1>0, <1>2 DEF ExclusiveCreate, CaptureInv
  <2>2. NewIdea \in Texts
    BY <2>1 DEF NewIdea, Texts
  <2>3. story' = story \/ story' = [story EXCEPT ![capture.number] = NewIdea]
    BY <1>2 DEF ExclusiveCreate
  <2> QED
    BY <1>0, <2>1, <2>2, <2>3 DEF StoryTypes
<1>3. ASSUME NEW n \in Numbers, TakeOver(n)
      PROVE  StoryTypes'
  <2>1. story[n] \in Texts
    BY <1>0, <1>3, NoFileIsNoText DEF StoryTypes, TakeOver
  <2>2. story' = [story EXCEPT ![n] = [story[n] EXCEPT !.status = "To Do"]]
          /\ UNCHANGED resolve
    BY <1>3 DEF TakeOver
  <2> QED
    BY <1>0, <2>1, <2>2, ChangedTexts DEF StoryTypes
<1>4. CASE ResolveWrite
  <2>1. resolve # None /\ resolve' = None
          /\ \/ story' = story
             \/ story' = [story EXCEPT ![resolve.number] = Resolved(resolve.text)]
    BY <1>4 DEF ResolveWrite
  <2>2. Resolved(resolve.text) \in Texts
    BY <1>0, <2>1, ChangedTexts DEF PatchInv, Stale, Resolved
  <2>3. None \in [number : 0..Max, text : Texts \cup {NoFile}]
    BY InboxBounds DEF None
  <2> QED
    BY <1>0, <2>1, <2>2, <2>3 DEF StoryTypes
<1>5. ASSUME NEW j \in Runs, ArchiveWrite(j)
      PROVE  StoryTypes'
  <2>1. net[j] = "write" /\ UNCHANGED resolve
          /\ (story' = story \/ story' = [story EXCEPT ![idea[j]] = Resolved(text[j])])
    BY <1>5 DEF ArchiveWrite
  <2>2. Resolved(text[j]) \in Texts
    BY <1>0, <2>1, ChangedTexts DEF PatchInv, Stale, Resolved
  <2> QED
    BY <1>0, <2>1, <2>2 DEF StoryTypes
<1>6. ASSUME NEW n \in Numbers, ResolveRead(n)
      PROVE  StoryTypes'
  <2>1. story' = story /\ resolve' = [number |-> n, text |-> story[n]] /\ n \in 0..Max
    BY <1>6, InboxBounds DEF ResolveRead, boardVars, Numbers
  <2> QED
    BY <1>0, <2>1 DEF StoryTypes
<1>7. CASE ReadCounter \/ Reserve \/ CreateFails \/ AddRead \/ AddWrite \/ UNCHANGED inboxVars
  BY <1>1, <1>7 DEF ReadCounter, Reserve, CreateFails, AddRead, AddWrite, inboxVars,
       boardVars
<1>8. ASSUME NEW j \in Runs,
             Finalize(j) \/ GetJob(j) \/ ReadIdeaStatus(j) \/ ArchiveRead(j)
      PROVE  StoryTypes'
  BY <1>1, <1>8 DEF Finalize, StartRun, Begin, Refused, RunEnds, GetJob, ReadIdeaStatus,
                    ArchiveRead, boardVars
<1> QED
  BY <1>2, <1>3, <1>4, <1>5, <1>6, <1>7, <1>8
     DEF InboxNext, Capture, Outside, Resolve, SafetyNet

\* The types of the finalizer's runs.
LEMMA NetTypesStep == InboxInv /\ [InboxNext]_inboxVars => NetTypes'
<1> SUFFICES ASSUME InboxInv, [InboxNext]_inboxVars PROVE NetTypes'
  OBVIOUS
<1>0. NetTypes /\ story \in [Numbers -> Texts \cup {NoFile}] /\ Numbers \subseteq 0..Max
        /\ titled \subseteq Numbers
  BY InboxBounds DEF InboxInv, InboxTypeOK, NetTypes, Numbers
<1>1. CASE UNCHANGED netVars /\ UNCHANGED trouble
  BY <1>0, <1>1 DEF NetTypes, netVars
<1>2. Files \subseteq Names
  BY <1>0 DEF Files, Names
<1>3. ASSUME NEW j \in Runs, NEW n \in Numbers, StartRun(j, n)
      PROVE  NetTypes'
  BY <1>0, <1>3 DEF StartRun, Go, NetTypes
<1>4. ASSUME NEW j \in Runs, Begin(j)
      PROVE  NetTypes'
  <2>1. PICK files \in {Files, {}}, status \in {"running", "failed"} :
          run' = [run EXCEPT ![j] = status]
            /\ baseline' = [baseline EXCEPT ![j] = files]
    BY <1>4 DEF Begin, Runner!Begin
  <2>2. net' = [net EXCEPT ![j] = "started"] /\ UNCHANGED <<idea, text, noop, trouble>>
    BY <1>4 DEF Begin, Go
  <2>3. run' \in [Runs -> Runner!Terminal \cup {"none", "running"}]
    BY <1>0, <2>1 DEF NetTypes, Runner!Terminal
  <2>4. baseline' \in [Runs -> SUBSET Names]
    BY <1>0, <1>2, <2>1 DEF NetTypes
  <2> QED
    BY <1>0, <2>2, <2>3, <2>4 DEF NetTypes
<1>5. ASSUME NEW j \in Runs, Refused(j)
      PROVE  NetTypes'
  BY <1>0, <1>5, InboxBounds DEF Refused, Go, NetTypes
<1>6. ASSUME NEW j \in Runs, RunEnds(j)
      PROVE  NetTypes'
  <2>1. UNCHANGED <<net, idea, baseline, text, noop, trouble>>
    BY <1>6 DEF RunEnds
  <2>2. PICK status \in {"done", "failed"} : run' = [run EXCEPT ![j] = status]
    BY <1>6 DEF RunEnds, Runner!End
  <2> QED
    BY <1>0, <2>1, <2>2 DEF NetTypes, Runner!Terminal
<1>7. ASSUME NEW j \in Runs, GetJob(j)
      PROVE  NetTypes'
  BY <1>0, <1>7 DEF GetJob, Go, NetTypes
<1>8. ASSUME NEW j \in Runs, ReadIdeaStatus(j) \/ ArchiveRead(j) \/ ArchiveWrite(j)
      PROVE  NetTypes'
  <2>1. UNCHANGED <<run, idea, baseline>>
    BY <1>8 DEF ReadIdeaStatus, ArchiveRead, ArchiveWrite
  <2>2. net' = [net EXCEPT ![j] = "over"] \/ net' = [net EXCEPT ![j] = "write"]
    BY <1>8 DEF ReadIdeaStatus, ArchiveRead, ArchiveWrite, Go
  <2>3. noop' \subseteq Runs /\ trouble' \subseteq Runs
    BY <1>0, <1>8 DEF ReadIdeaStatus, ArchiveRead, ArchiveWrite, NetTypes
  <2>4. text' \in [Runs -> Texts \cup {NoFile}]
    <3>1. text' = text \/ text' = [text EXCEPT ![j] = NoFile]
            \/ (Resolvable(idea[j]) /\ text' = [text EXCEPT ![j] = story[idea[j]]])
      BY <1>8 DEF ReadIdeaStatus, ArchiveRead, ArchiveWrite
    <3>2. net[j] # "idle"
      BY <1>8 DEF ReadIdeaStatus, ArchiveRead, ArchiveWrite
    <3>3. idea[j] \in Numbers
      BY <3>2 DEF InboxInv, PatchInv
    <3> QED
      BY <1>0, <3>1, <3>3 DEF NetTypes
  <2> QED
    BY <1>0, <2>1, <2>2, <2>3, <2>4 DEF NetTypes
<1>9. CASE Capture \/ Outside \/ Resolve \/ UNCHANGED inboxVars
  BY <1>1, <1>9 DEF Capture, ReadCounter, Reserve, CreateFails, ExclusiveCreate,
       Outside, AddRead, AddWrite, TakeOver, Resolve, ResolveWrite, ResolveRead,
       inboxVars
<1> QED
  BY <1>3, <1>4, <1>5, <1>6, <1>7, <1>8, <1>9 DEF InboxNext, Finalize, SafetyNet

-----------------------------------------------------------------------------
(* Numbers.                                                                *)

\* A capture goes through its stages with a number of the board.
LEMMA CaptureStep == InboxInv /\ [InboxNext]_inboxVars => CaptureInv'
<1> SUFFICES ASSUME InboxInv, [InboxNext]_inboxVars PROVE CaptureInv'
  OBVIOUS
<1>0. CaptureInv /\ captures \in 0..MaxCaptures /\ MaxCaptures \in Nat
        /\ Attempts \in Nat \ {0} /\ counter \in 1..(Max + 1) /\ Max \in Nat
        /\ capture \in [stage : {"idle", "retry", "reserve", "create"},
                        number : 0..Max, attempt : 0..Attempts]
  BY InboxBounds DEF InboxInv, InboxTypeOK
<1>1. CASE UNCHANGED captureVars
  BY <1>0, <1>1 DEF CaptureInv, captureVars
<1>2. CASE ReadCounter
  <2>1. capture'.stage = "reserve" /\ capture'.number = counter
          /\ captures' \in 1..MaxCaptures
    BY <1>0, <1>2 DEF ReadCounter, CaptureInv, Idle
  <2> QED
    BY <1>0, <1>2, <2>1 DEF CaptureInv, ReadCounter, Numbers
<1>3. CASE Reserve
  <2>1. capture'.stage = "create" /\ capture'.number = capture.number
    BY <1>0, <1>3 DEF Reserve
  <2> QED
    BY <1>0, <1>3, <2>1 DEF CaptureInv, Reserve
<1>4. CASE CreateFails \/ ExclusiveCreate
  <2>1. \/ capture'.stage = "idle"
        \/ capture'.stage = "retry" /\ capture.attempt < Attempts
             /\ capture'.attempt = capture.attempt
    BY <1>0, <1>4 DEF CreateFails, ExclusiveCreate, Idle
  <2>2. captures' = captures /\ capture.stage # "idle"
    BY <1>4 DEF CreateFails, ExclusiveCreate
  <2> QED
    BY <1>0, <2>1, <2>2 DEF CaptureInv
<1>5. CASE Outside \/ Resolve \/ UNCHANGED inboxVars
  BY <1>1, <1>5 DEF Outside, AddRead, AddWrite, TakeOver, Resolve, ResolveWrite,
     ResolveRead, inboxVars
<1>6. ASSUME NEW j \in Runs, Finalize(j) \/ SafetyNet(j)
      PROVE  CaptureInv'
  BY <1>1, <1>6 DEF Finalize, StartRun, Begin, Refused, RunEnds, SafetyNet, GetJob,
     ReadIdeaStatus, ArchiveRead, ArchiveWrite
<1> QED
  BY <1>2, <1>3, <1>4, <1>5, <1>6 DEF InboxNext, Capture

\* A step that neither takes a number nor makes a file keeps the numbers.
LEMMA NumbersKept ==
  ASSUME InboxInv, UNCHANGED <<counter, titled, captureVars, add, raced>>,
         \A n \in Numbers : Exists(n)' => Exists(n)
  PROVE  NumbersInv' /\ IdsUniqueUnlessRaced'
<1>1. NumbersInv /\ IdsUniqueUnlessRaced /\ CaptureInv
  BY DEF InboxInv
<1>2. capture' = capture
  BY DEF captureVars
<1>3. NumbersInv'
  BY <1>1, <1>2 DEF NumbersInv, CaptureInv
<1>4. IdsUniqueUnlessRaced'
  BY <1>1 DEF IdsUniqueUnlessRaced, Ambiguous
<1> QED
  BY <1>3, <1>4

\* Only a capture or the board CLI takes a number or makes a file.
LEMMA NumbersStep ==
  InboxInv /\ [InboxNext]_inboxVars => NumbersInv' /\ IdsUniqueUnlessRaced'
<1> SUFFICES ASSUME InboxInv, [InboxNext]_inboxVars
             PROVE  NumbersInv' /\ IdsUniqueUnlessRaced'
  OBVIOUS
<1>0. /\ NumbersInv /\ IdsUniqueUnlessRaced /\ CaptureInv
      /\ Max \in Nat /\ Numbers \subseteq Nat
      /\ counter \in 1..(Max + 1) /\ titled \subseteq Numbers
      /\ add \in 0..Max
      /\ capture \in [stage : {"idle", "retry", "reserve", "create"},
                      number : 0..Max, attempt : 0..Attempts]
      /\ story \in [Numbers -> Texts \cup {NoFile}]
  BY InboxBounds DEF InboxInv, InboxTypeOK, Numbers
<1>1. CASE UNCHANGED <<story, counter, titled, captureVars, add, raced>>
  BY <1>1, NumbersKept DEF Exists
<1>2. ASSUME NEW n \in Numbers, Exists(n), NEW t, story' = [story EXCEPT ![n] = t],
             UNCHANGED <<counter, titled, captureVars, add, raced>>
      PROVE  NumbersInv' /\ IdsUniqueUnlessRaced'
  <2>1. \A m \in Numbers : Exists(m)' => Exists(m)
    BY <1>0, <1>2 DEF Exists
  <2> QED
    BY <1>2, <2>1, NumbersKept
<1>3. CASE ReadCounter
  <2>1. capture'.stage = "reserve" /\ capture'.number = counter
          /\ UNCHANGED <<story, counter, titled, add>> /\ raced' = (raced \/ add # 0)
    BY <1>3 DEF ReadCounter, boardVars, addVars
  <2>2. ~raced' => ~raced /\ add = 0
    BY <2>1
  <2>3. NumbersInv'
    BY <1>0, <2>1, <2>2 DEF NumbersInv, Exists
  <2>4. IdsUniqueUnlessRaced'
    BY <1>0, <2>1, <2>2 DEF IdsUniqueUnlessRaced, Ambiguous, Exists
  <2> QED
    BY <2>3, <2>4
<1>4. CASE Reserve
  <2>1. /\ capture.stage = "reserve" /\ counter' = capture.number + 1
        /\ capture'.stage = "create" /\ capture'.number = capture.number
        /\ UNCHANGED <<story, titled, add, raced>>
    BY <1>0, <1>4 DEF Reserve, addVars
  <2>2. ~raced => capture.number = counter /\ add = 0
    BY <1>0, <2>1 DEF NumbersInv
  <2>3. ~raced => ~Exists(counter) /\ counter \notin titled /\ counter \in Numbers
    BY <1>0, <2>1, <2>2 DEF NumbersInv, CaptureInv
  <2>4. NumbersInv'
    BY <1>0, <2>1, <2>2, <2>3 DEF NumbersInv, Exists
  <2>5. IdsUniqueUnlessRaced'
    BY <1>0, <2>1 DEF IdsUniqueUnlessRaced, Ambiguous, Exists
  <2> QED
    BY <2>4, <2>5
<1>5. CASE CreateFails
  <2>1. capture' = Idle /\ UNCHANGED <<story, counter, titled, add, raced>>
    BY <1>5 DEF CreateFails, boardVars, addVars
  <2>2. NumbersInv'
    BY <1>0, <2>1 DEF NumbersInv, Exists, Idle
  <2>3. IdsUniqueUnlessRaced'
    BY <1>0, <2>1 DEF IdsUniqueUnlessRaced, Ambiguous, Exists
  <2> QED
    BY <2>2, <2>3
<1>6. CASE ExclusiveCreate
  <2> DEFINE k == capture.number
  <2>1. capture.stage = "create" /\ k \in Numbers
          /\ UNCHANGED <<counter, titled, add, raced>>
    BY <1>0, <1>6 DEF ExclusiveCreate, CaptureInv, addVars
  <2>2. ~raced => ~Exists(k) /\ k < counter /\ k \notin titled
    BY <1>0, <2>1 DEF NumbersInv
  <2>3. ~raced => story' = [story EXCEPT ![k] = NewIdea] /\ capture' = Idle
    BY <1>6, <2>2 DEF ExclusiveCreate
  <2>4. ~raced => \A n \in Numbers : Exists(n)' => n = k \/ Exists(n)
    BY <1>0, <2>3 DEF Exists
  <2>5. NumbersInv'
    BY <1>0, <2>1, <2>2, <2>3, <2>4 DEF NumbersInv, Idle
  <2>6. IdsUniqueUnlessRaced'
    BY <1>0, <2>1, <2>2, <2>4 DEF IdsUniqueUnlessRaced, Ambiguous
  <2> QED
    BY <2>5, <2>6
<1>7. CASE AddRead
  <2>1. add' = counter /\ UNCHANGED <<story, counter, titled, capture>>
          /\ raced' = (raced \/ capture.stage = "reserve")
    BY <1>7 DEF AddRead, boardVars, captureVars
  <2>2. ~raced' => ~raced /\ capture.stage # "reserve"
    BY <2>1
  <2>3. NumbersInv'
    BY <1>0, <2>1, <2>2 DEF NumbersInv, Exists
  <2>4. IdsUniqueUnlessRaced'
    BY <1>0, <2>1, <2>2 DEF IdsUniqueUnlessRaced, Ambiguous, Exists
  <2> QED
    BY <2>3, <2>4
<1>8. CASE AddWrite
  <2>1. /\ add # 0 /\ counter' = add + 1 /\ titled' = titled \cup {add} /\ add' = 0
        /\ UNCHANGED <<story, capture, raced>>
    BY <1>8 DEF AddWrite, captureVars
  <2>2. ~raced => add = counter /\ capture.stage # "reserve"
    BY <1>0, <2>1 DEF NumbersInv
  <2>3. ~raced => ~Exists(add)
    BY <1>0, <2>1, <2>2 DEF NumbersInv, Numbers
  <2>4. NumbersInv'
    BY <1>0, <2>1, <2>2 DEF NumbersInv, Exists, CaptureInv
  <2>5. IdsUniqueUnlessRaced'
    BY <1>0, <2>1, <2>3 DEF IdsUniqueUnlessRaced, Ambiguous, Exists
  <2> QED
    BY <2>4, <2>5
<1>9. ASSUME NEW n \in Numbers, TakeOver(n)
      PROVE  NumbersInv' /\ IdsUniqueUnlessRaced'
  <2>1. Exists(n) /\ story' = [story EXCEPT ![n] = [story[n] EXCEPT !.status = "To Do"]]
    BY <1>9, NoFileIsNoText DEF TakeOver, Exists
  <2>2. UNCHANGED <<counter, titled, captureVars, add, raced>>
    BY <1>9 DEF TakeOver, addVars
  <2> QED
    BY <1>2, <2>1, <2>2
<1>10. CASE ResolveWrite
  <2>1. UNCHANGED <<counter, titled, captureVars, add, raced>> /\ resolve # None
          /\ \/ story' = story
             \/ story' = [story EXCEPT ![resolve.number] = Resolved(resolve.text)]
    BY <1>10 DEF ResolveWrite, addVars
  <2>2. resolve.number \in Numbers /\ Exists(resolve.number)
    BY <2>1 DEF InboxInv, PatchInv, Stale
  <2> QED
    BY <1>1, <1>2, <2>1, <2>2
<1>11. ASSUME NEW j \in Runs, ArchiveWrite(j)
       PROVE  NumbersInv' /\ IdsUniqueUnlessRaced'
  <2>1. UNCHANGED <<counter, titled, captureVars, add, raced>> /\ net[j] = "write"
          /\ (story' = story \/ story' = [story EXCEPT ![idea[j]] = Resolved(text[j])])
    BY <1>11 DEF ArchiveWrite, addVars
  <2>2. idea[j] \in Numbers /\ Exists(idea[j])
    BY <2>1 DEF InboxInv, PatchInv, Stale
  <2> QED
    BY <1>1, <1>2, <2>1, <2>2
<1>12. ASSUME NEW n \in Numbers, ResolveRead(n)
       PROVE  NumbersInv' /\ IdsUniqueUnlessRaced'
  BY <1>1, <1>12 DEF ResolveRead, boardVars, addVars
<1>13. CASE UNCHANGED inboxVars
  BY <1>1, <1>13 DEF inboxVars, boardVars, addVars
<1>14. ASSUME NEW j \in Runs,
              Finalize(j) \/ GetJob(j) \/ ReadIdeaStatus(j) \/ ArchiveRead(j)
       PROVE  NumbersInv' /\ IdsUniqueUnlessRaced'
  BY <1>1, <1>14 DEF Finalize, StartRun, Begin, Refused, RunEnds, GetJob,
       ReadIdeaStatus, ArchiveRead, boardVars, addVars
<1> QED
  BY <1>3, <1>4, <1>5, <1>6, <1>7, <1>8, <1>9, <1>10, <1>11, <1>12, <1>13, <1>14
     DEF InboxNext, Capture, Outside, Resolve, SafetyNet

-----------------------------------------------------------------------------
(* Texts read before, and what the safety net reports.                     *)

\* A file once there stays there, for the same idea.
LEMMA StaleStays ==
  ASSUME Keeps, NEW t, NEW n, Stale(t, n)
  PROVE  Stale(t, n)'
BY DEF Keeps, Stale, Exists

\* What was read before a write stays the text of an idea that has its file.
LEMMA PatchStep == InboxInv /\ [InboxNext]_inboxVars => PatchInv'
<1> SUFFICES ASSUME InboxInv, [InboxNext]_inboxVars PROVE PatchInv'
  OBVIOUS
<1>0. /\ PatchInv /\ Keeps
      /\ story \in [Numbers -> Texts \cup {NoFile}]
      /\ net \in [Runs -> {"idle", "baseline", "started", "status", "archive",
                          "write", "over"}]
      /\ idea \in [Runs -> 0..Max] /\ text \in [Runs -> Texts \cup {NoFile}]
  BY StepKeeps DEF InboxInv, InboxTypeOK
<1>1. ASSUME NEW n \in Numbers, Resolvable(n)
      PROVE  Stale(story[n], n)
  BY <1>0, <1>1, NoFileIsNoText DEF Resolvable, Stale, Exists
<1> DEFINE Read == resolve # None => Stale(resolve.text, resolve.number)
<1>2. Read'
  <2>1. CASE UNCHANGED resolve
    BY <1>0, <2>1, StaleStays DEF PatchInv
  <2>2. CASE ResolveWrite
    BY <2>2 DEF ResolveWrite
  <2>3. ASSUME NEW n \in Numbers, ResolveRead(n)
        PROVE  Read'
    <3>1. resolve' = [number |-> n, text |-> story[n]] /\ Stale(story[n], n)
      BY <1>1, <2>3 DEF ResolveRead
    <3>2. resolve'.number = n /\ resolve'.text = story[n]
      BY <3>1
    <3>3. story' = story
      BY <2>3 DEF ResolveRead, boardVars
    <3> QED
      BY <3>1, <3>2, <3>3 DEF Stale, Exists
  <2>4. CASE Capture \/ Outside \/ UNCHANGED inboxVars
    BY <2>1, <2>4 DEF Capture, ReadCounter, Reserve, CreateFails, ExclusiveCreate,
         Outside, AddRead, AddWrite, TakeOver, inboxVars
  <2>5. ASSUME NEW j \in Runs, Finalize(j) \/ SafetyNet(j)
        PROVE  UNCHANGED resolve
    BY <2>5 DEF Finalize, StartRun, Begin, Refused, RunEnds, SafetyNet, GetJob,
       ReadIdeaStatus, ArchiveRead, ArchiveWrite
  <2> QED
    BY <2>1, <2>2, <2>3, <2>4, <2>5 DEF InboxNext, Resolve
<1> DEFINE Active(j) ==
             /\ net[j] # "idle" => idea[j] \in Numbers /\ Exists(idea[j])
             /\ net[j] = "write" => Stale(text[j], idea[j])
<1>3. \A j \in Runs : Active(j)
  BY <1>0 DEF PatchInv
<1>4. ASSUME NEW i \in Runs, UNCHANGED <<net[i], idea[i], text[i]>>
      PROVE  Active(i)'
  BY <1>0, <1>3, <1>4, StaleStays DEF Keeps, Exists
<1>5. ASSUME NEW j \in Runs, NEW i \in Runs, Finalize(j) \/ SafetyNet(j)
      PROVE  Active(i)'
  <2>1. CASE i # j
    BY <1>0, <1>4, <1>5, <2>1 DEF Finalize, StartRun, Begin, Refused, RunEnds,
         SafetyNet, GetJob, ReadIdeaStatus, ArchiveRead, ArchiveWrite, Go
  <2>2. CASE i = j /\ \E n \in Numbers : StartRun(j, n)
    <3>1. PICK n \in Numbers : StartRun(j, n)
      BY <2>2
    <3>2. net'[j] = "baseline" /\ idea'[j] = n /\ Exists(n)
      BY <1>0, <3>1 DEF StartRun, Go
    <3> QED
      BY <1>0, <2>2, <3>2 DEF Keeps, Exists
  <2>3. CASE i = j /\ Refused(j)
    <3>1. net'[j] = "idle"
      BY <1>0, <2>3 DEF Refused, Go
    <3> QED
      BY <2>3, <3>1
  <2>4. CASE i = j /\ RunEnds(j)
    BY <1>4, <2>4 DEF RunEnds
  <2>5. CASE i = j /\ (Begin(j) \/ SafetyNet(j))
    <3>1. net[j] # "idle" /\ idea' = idea
      BY <2>5 DEF Begin, SafetyNet, GetJob, ReadIdeaStatus, ArchiveRead, ArchiveWrite
    <3>2. idea[j] \in Numbers /\ Exists(idea[j]) /\ Exists(idea[j])'
      BY <1>0, <1>3, <3>1 DEF Keeps, Exists
    <3>3. \/ net'[j] # "write"
          \/ Resolvable(idea[j]) /\ text'[j] = story[idea[j]] /\ story' = story
      BY <1>0, <2>5 DEF Begin, SafetyNet, GetJob, ReadIdeaStatus, ArchiveRead,
           ArchiveWrite, Go, boardVars
    <3>4. (net[j] = "write" => Stale(text[j], idea[j]))'
      <4>1. Resolvable(idea[j]) => Stale(story[idea[j]], idea[j])
        BY <1>1, <3>2
      <4> QED
        BY <3>1, <3>3, <4>1 DEF Stale, Exists
    <3> QED
      BY <2>5, <3>1, <3>2, <3>4
  <2> QED
    BY <2>1, <2>2, <2>3, <2>4, <2>5, <1>5 DEF Finalize
<1>6. ASSUME NEW i \in Runs, Capture \/ Outside \/ Resolve \/ UNCHANGED inboxVars
      PROVE  Active(i)'
  BY <1>4, <1>6 DEF Capture, ReadCounter, Reserve, CreateFails, ExclusiveCreate,
       Outside, AddRead, AddWrite, TakeOver, Resolve, ResolveWrite, ResolveRead,
       inboxVars, netVars
<1>7. \A i \in Runs : Active(i)'
  BY <1>5, <1>6 DEF InboxNext
<1> QED
  BY <1>2, <1>7 DEF PatchInv

\* A run that is over has settled its idea, or was reported.
LEMMA CheckedStep == InboxInv /\ [InboxNext]_inboxVars => CheckedIdeaIsSettled'
<1> SUFFICES ASSUME InboxInv, [InboxNext]_inboxVars, NEW i \in Runs,
                    net'[i] = "over", i \notin trouble', ~Ambiguous(idea[i])'
             PROVE  i \in noop' \/ story'[idea'[i]].status # "Idee"
  BY DEF CheckedIdeaIsSettled
<1>0. /\ CheckedIdeaIsSettled /\ PatchInv /\ PatchInv' /\ Keeps
      /\ story \in [Numbers -> Texts \cup {NoFile}]
      /\ net \in [Runs -> {"idle", "baseline", "started", "status", "archive",
                          "write", "over"}]
      /\ idea \in [Runs -> 0..Max]
  BY StepKeeps, PatchStep DEF InboxInv, InboxTypeOK
<1>1. titled \subseteq titled'
  BY DEF InboxNext, Capture, ReadCounter, Reserve, CreateFails, ExclusiveCreate,
       Outside, AddRead, AddWrite, TakeOver, Resolve, ResolveWrite, ResolveRead,
       Finalize, StartRun, Begin, Refused, RunEnds, SafetyNet, GetJob,
       ReadIdeaStatus, ArchiveRead, ArchiveWrite, inboxVars, boardVars
<1>2. CASE net[i] = "over" /\ idea'[i] = idea[i] /\ i \notin trouble
        /\ (i \in noop => i \in noop')
  <2>1. idea[i] \in Numbers /\ Exists(idea[i])
    BY <1>0, <1>2 DEF PatchInv
  <2>2. ~Ambiguous(idea[i])
    BY <1>0, <1>1, <1>2, <2>1 DEF Ambiguous, Keeps, Exists
  <2>3. i \in noop \/ story[idea[i]].status # "Idee"
    BY <1>0, <1>2, <2>2 DEF CheckedIdeaIsSettled
  <2> QED
    BY <1>0, <1>2, <2>1, <2>3 DEF Keeps
<1>3. CASE Capture \/ Outside \/ Resolve \/ UNCHANGED inboxVars
  <2>1. UNCHANGED netVars /\ trouble' = trouble
    BY <1>3 DEF Capture, ReadCounter, Reserve, CreateFails, ExclusiveCreate, Outside,
       AddRead, AddWrite, TakeOver, Resolve, ResolveWrite, ResolveRead, inboxVars
  <2> QED
    BY <1>2, <2>1 DEF netVars
<1>4. ASSUME NEW j \in Runs, Finalize(j) \/ SafetyNet(j), i # j
      PROVE  i \in noop' \/ story'[idea'[i]].status # "Idee"
  <2>1. net'[i] = net[i] /\ idea'[i] = idea[i] /\ trouble \subseteq trouble'
          /\ noop \subseteq noop'
    BY <1>0, <1>4 DEF Finalize, StartRun, Begin, Refused, RunEnds, SafetyNet, GetJob,
       ReadIdeaStatus, ArchiveRead, ArchiveWrite, Go
  <2> QED
    BY <1>2, <2>1
<1>5. CASE Finalize(i)
  <2>1. RunEnds(i)
    BY <1>0, <1>5 DEF Finalize, StartRun, Begin, Refused, Go
  <2> QED
    BY <1>2, <2>1 DEF RunEnds
<1>6. CASE SafetyNet(i)
  <2>1. idea'[i] = idea[i]
    BY <1>6 DEF SafetyNet, GetJob, ReadIdeaStatus, ArchiveRead, ArchiveWrite
  <2>2. ~GetJob(i)
    BY <1>0 DEF GetJob, Go
  <2>3. CASE ReadIdeaStatus(i)
    <3>1. UNCHANGED <<story, titled>>
      BY <2>3 DEF ReadIdeaStatus, boardVars
    <3>2. ~Ambiguous(idea[i])
      BY <2>1, <3>1 DEF Ambiguous, Exists
    <3> QED
      BY <2>1, <2>3, <3>1, <3>2 DEF ReadIdeaStatus
  <2>4. CASE ArchiveRead(i)
    <3>1. UNCHANGED <<story, titled>>
      BY <2>4 DEF ArchiveRead, boardVars
    <3>2. ~Ambiguous(idea[i])
      BY <2>1, <3>1 DEF Ambiguous, Exists
    <3>3. ~Resolvable(idea[i])
      BY <1>0, <2>4 DEF ArchiveRead, Go
    <3> QED
      BY <2>1, <3>1, <3>2, <3>3 DEF Resolvable
  <2>5. CASE ArchiveWrite(i)
    <3>1. story' = [story EXCEPT ![idea[i]] = Resolved(text[i])] /\ net[i] = "write"
      BY <2>5 DEF ArchiveWrite
    <3>2. idea[i] \in Numbers /\ text[i] \in Texts
      BY <1>0, <3>1 DEF PatchInv, Stale
    <3>3. story'[idea[i]].status = "Done"
      BY <1>0, <3>1, <3>2, ChangedTexts DEF Resolved
    <3> QED
      BY <2>1, <3>3
  <2> QED
    BY <1>6, <2>2, <2>3, <2>4, <2>5 DEF SafetyNet
<1> QED
  BY <1>3, <1>4, <1>5, <1>6 DEF InboxNext

-----------------------------------------------------------------------------
\* The invariant holds for any number of numbers, captures, stories, runs and
\* faults.
THEOREM InboxInvariant == InboxSpec => []InboxInv
<1>1. InboxInv /\ [InboxNext]_inboxVars => InboxTypeOK'
  BY CaptureTypesStep, StoryTypesStep, NetTypesStep
     DEF InboxTypeOK, CaptureTypes, StoryTypes, NetTypes
<1>2. InboxInv /\ [InboxNext]_inboxVars => InboxInv'
  BY <1>1, CaptureStep, NumbersStep, PatchStep, CheckedStep DEF InboxInv
<1> QED
  BY InboxInitInv, <1>2, PTL DEF InboxSpec

\* All variables keep their types.
THEOREM InboxTypeCorrect == InboxSpec => []InboxTypeOK
BY InboxInvariant, PTL DEF InboxInv

\* Two story files share an id only if the board CLI and a capture have had the
\* same counter: no failing write of a capture is enough.
THEOREM IdsUniqueCorrect == InboxSpec => []IdsUniqueUnlessRaced
BY InboxInvariant, PTL DEF InboxInv

\* No run ends as `done` with its idea still in the inbox, unless the idea's id
\* is ambiguous or a read or write of it has failed.
THEOREM CheckedIdeaCorrect == InboxSpec => []CheckedIdeaIsSettled
BY InboxInvariant, PTL DEF InboxInv

\* The number of a capture is tried again only after a race: EEXIST cannot come
\* from a write that has failed.
THEOREM RetriesOnlyAfterRace == InboxSpec => [](capture.stage = "retry" => raced)
<1>1. InboxInv => (capture.stage = "retry" => raced)
  BY DEF InboxInv, NumbersInv
<1> QED
  BY <1>1, InboxInvariant, PTL

\* An idea keeps its file, and a settled one is never an idea again.
THEOREM CapturesCorrect == InboxSpec => CapturesAreKept
<1>1. InboxInv /\ [InboxNext]_inboxVars
        => [\A n \in Numbers :
              Exists(n) => /\ story'[n].by = story[n].by
                           /\ story[n].status # "Idee"
                             => story'[n].status # "Idee"]_inboxVars
  BY StepKeeps DEF Keeps
<1> QED
  BY <1>1, InboxInvariant, PTL DEF InboxSpec, CapturesAreKept
=============================================================================
