----------------------------- MODULE HeadlessJob -----------------------------
(***************************************************************************)
(* What a headless runner promises its callers: start(projectPath) begins  *)
(* a job unless one is running for that project, and every job ends in     *)
(* exactly one terminal status, which getJob(jobId) answers from then on.  *)
(***************************************************************************)
CONSTANTS
  Projects,
  Jobs

Terminal == {"done", "failed", "auth-expired", "budget-limited"}

VARIABLES
  project,  \* project of a job
  job       \* its status, "none" before it is started

vars == <<project, job>>

Init ==
  /\ \E p \in Projects : project = [j \in Jobs |-> p]
  /\ job = [j \in Jobs |-> "none"]

RunningIn(p) == {j \in Jobs : job[j] = "running" /\ project[j] = p}

\* a job begins; if its process cannot even be created it has failed already
Begin(j, p, status) ==
  /\ job[j] = "none"
  /\ RunningIn(p) = {}
  /\ status \in {"running", "failed"}
  /\ job' = [job EXCEPT ![j] = status]
  /\ project' = [project EXCEPT ![j] = p]

End(j, status) ==
  /\ job[j] = "running"
  /\ status \in Terminal
  /\ job' = [job EXCEPT ![j] = status]
  /\ UNCHANGED project

Ends(j) == \E status \in Terminal : End(j, status)

Next ==
  \E j \in Jobs :
    \/ \E p \in Projects, status \in {"running", "failed"} : Begin(j, p, status)
    \/ Ends(j)

Spec == Init /\ [][Next]_vars

FairSpec == Spec /\ \A j \in Jobs : WF_vars(Ends(j))
=============================================================================
