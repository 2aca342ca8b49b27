--------------------------- MODULE DrainLoopProofs ---------------------------
(***************************************************************************)
(* What holds of DrainLoop and of the judgements of DrainTargets for every *)
(* number of stories, every dependency relation, every setting and every   *)
(* set of faults.                                                          *)
(***************************************************************************)
EXTENDS DrainLoop, IdealRuns, FiniteSetTheorems, WellFoundedInduction, TLAPS

\* the faults under which every scan of an unchanged board is the same
Readable == Faults \subseteq {"limit", "write"}

\* the counters while the loop runs
CountersInv ==
  /\ consecutive \in Nat
  /\ total \in Nat
  /\ quietRuns \in Nat
  /\ pc \in {"top", "run", "write", "end"}
  /\ calm \in BOOLEAN
  /\ total <= SafetyMax
  /\ pc \in {"top", "run"} => total < SafetyMax

\* during a quiet round the scan it started from is still the scan of now
RoundInv ==
  pc = "run" /\ calm /\ Readable => before \in FindProject

QuietInv == Readable => quietRuns <= total

IInv == CountersInv /\ RoundInv /\ QuietInv

\* A reading has the tags asked for and some part of the board.
LEMMA ReadingForm ==
  ASSUME NEW src, NEW v, NEW m, NEW scan \in Readings(src, v, m)
  PROVE  \E found \in SUBSET Stories, known \in SUBSET Planned :
           /\ scan = Reading(src, v, m, found, known)
           /\ "read" \notin Faults => found = Stories /\ known = Planned
<1>1. PICK found \in Found, known \in Judgeable :
        scan = Reading(src, v, m, found, known)
  BY DEF Readings
<1>2. /\ found \in SUBSET Stories /\ known \in SUBSET Planned
      /\ "read" \notin Faults => found = Stories /\ known = Planned
  BY DEF Found, Judgeable
<1> QED
  BY <1>1, <1>2

\* A readable board is scanned in exactly one way.
LEMMA OneScan ==
  ASSUME Readable, NEW scan1 \in FindProject, NEW scan2 \in FindProject
  PROVE  scan1 = scan2 /\ scan1.verified
<1>1. "fetch" \notin Faults /\ "ref" \notin Faults /\ "read" \notin Faults
  BY DEF Readable
<1>2. \A src, v, m, scan : scan \in Readings(src, v, m)
                              => scan = Reading(src, v, m, Stories, Planned)
  BY <1>1, ReadingForm
<1>3. CASE ahead
  <2>1. FindProject = Readings("origin-ref", TRUE, FALSE)
    BY <1>1, <1>3 DEF FindProject, OriginScans
  <2>2. scan1 = scan2 /\ scan1 = Reading("origin-ref", TRUE, FALSE, Stories, Planned)
    BY <1>2, <2>1, Zenon
  <2> QED
    BY <2>2 DEF Reading, Scan
<1>4. CASE ~ahead
  <2>1. FindProject = WorkingTreeScans(TRUE)
    BY <1>1, <1>4 DEF FindProject
  <2>2. WorkingTreeScans(TRUE) = Readings("working-tree", TRUE, FALSE)
    BY <1>4 DEF WorkingTreeScans
  <2>3. scan1 = scan2 /\ scan1 = Reading("working-tree", TRUE, FALSE, Stories, Planned)
    BY <1>2, <2>1, <2>2, Zenon
  <2> QED
    BY <2>3 DEF Reading, Scan
<1> QED
  BY <1>3, <1>4

\* The loop starts with all counters at zero.
LEMMA InitInv == Init => IInv
BY LoopAssumption DEF Init, IInv, CountersInv, RoundInv, QuietInv

\* Nobody but the drain touches counters and scans; a change ends the calm.
LEMMA EnvironmentKeepsInv == IInv /\ Environment => IInv'
<1> SUFFICES ASSUME IInv, Environment PROVE IInv'
  OBVIOUS
<1>1. CASE \E s \in Stories : Age(s)
  <2>1. UNCHANGED <<boards, ahead, pc, before, counters, calm, quietRuns>>
    BY <1>1 DEF Age
  <2>2. FindProject' = FindProject
    BY <2>1 DEF FindProject, OriginScans, WorkingTreeScans, Readings, Reading
  <2>3. QED
    BY <2>1, <2>2 DEF IInv, CountersInv, RoundInv, QuietInv, counters, Readable
<1>2. CASE Others
  BY <1>2 DEF Others, IInv, CountersInv, RoundInv, QuietInv, counters, Readable
<1>3. QED
  BY <1>1, <1>2 DEF Environment, WorkInClone, LandAtOrigin, Synchronise

\* At the top of the loop a step keeps the counters or starts a round.
LEMMA TopKeepsInv ==
  ASSUME IInv, NEW scan \in FindProject, AtTop(scan) \/ Decide(scan)
  PROVE  IInv'
<1>1. CASE StartRun(scan)
  <2>1. before' = scan /\ FindProject' = FindProject
    BY <1>1 DEF StartRun, boardVars, FindProject, OriginScans, WorkingTreeScans, Readings, Reading, Scan
  <2>2. QED
    BY <1>1, <2>1 DEF StartRun, IInv, CountersInv, RoundInv, QuietInv, counters,
                      Readable
<1>2. CASE Abort(scan) \/ StopWithoutWork(scan) \/ ChannelBusy(scan)
  BY <1>2 DEF Abort, StopWithoutWork, ChannelBusy, End, IInv, CountersInv,
              RoundInv, QuietInv, counters, Readable
<1>3. CASE \E resumed \in BOOLEAN : ProactivePause(scan, resumed)
  BY <1>3 DEF ProactivePause, End, IInv, CountersInv, RoundInv, QuietInv,
              counters, Readable
<1>4. QED
  BY <1>1, <1>2, <1>3 DEF AtTop, Decide

\* A quiet, readable round is never taken for progress.
LEMMA QuietIsNoProgress ==
  ASSUME IInv, NEW scan \in FindProject, pc = "run", calm, Readable
  PROVE  ~Progressed(before, scan) /\ scan.verified
<1>1. before \in FindProject
  BY DEF IInv, RoundInv
<1>2. before = scan /\ scan.verified
  BY <1>1, OneScan
<1>3. QED
  BY <1>2 DEF Progressed, Moved

\* Every judged run that changes nothing raises the belt counter.
LEMMA JudgedKeepsQuiet ==
  ASSUME IInv, NEW scan \in FindProject, Judged(scan), pc' # "run",
         \/ total' = total + 1
         \/ total' = 0 /\ Progressed(before, scan)
         \/ total' = total /\ ~scan.verified
  PROVE  RoundInv' /\ QuietInv' /\ quietRuns' \in Nat /\ calm' \in BOOLEAN
<1>1. pc = "run" /\ calm' = TRUE
  BY DEF Judged
<1>2. quietRuns' = IF calm THEN quietRuns + 1 ELSE 0
  BY DEF Judged
<1>3. quietRuns' \in Nat /\ calm' \in BOOLEAN
  BY <1>1, <1>2 DEF IInv, CountersInv
<1>4. ASSUME Readable PROVE quietRuns' <= total'
  <2>1. CASE calm
    <3>1. ~Progressed(before, scan) /\ scan.verified
      BY <1>1, <1>4, <2>1, QuietIsNoProgress
    <3>2. total' = total + 1
      BY <3>1
    <3>3. QED
      BY <1>2, <1>4, <2>1, <3>2 DEF IInv, CountersInv, QuietInv
  <2>2. CASE ~calm
    BY <1>2, <2>2 DEF IInv, CountersInv
  <2>3. QED
    BY <2>1, <2>2
<1>5. QED
  BY <1>3, <1>4 DEF RoundInv, QuietInv, Readable

\* A judged run either resets the belt counter or stays within its limit.
LEMMA RunKeepsInv ==
  ASSUME IInv, NEW scan \in FindProject, AfterRun(scan)
  PROVE  IInv'
<1> USE LoopAssumption
<1>1. CASE \E resumed \in BOOLEAN : LimitedRun(scan, resumed)
  BY <1>1 DEF LimitedRun, End, IInv, CountersInv, RoundInv, QuietInv, counters,
              Readable
<1>2. CASE Progress(scan)
  <2>1. RoundInv' /\ QuietInv' /\ quietRuns' \in Nat /\ calm' \in BOOLEAN
    BY <1>2, JudgedKeepsQuiet DEF Progress
  <2>2. QED
    BY <1>2, <2>1 DEF Progress, IInv, CountersInv
<1>3. CASE Unverified(scan)
  <2>1. RoundInv' /\ QuietInv' /\ quietRuns' \in Nat /\ calm' \in BOOLEAN
    BY <1>3, JudgedKeepsQuiet DEF Unverified, counters
  <2>2. QED
    BY <1>3, <2>1 DEF Unverified, Judged, counters, IInv, CountersInv
<1>4. CASE NoEscalation(scan)
  <2>1. RoundInv' /\ QuietInv' /\ quietRuns' \in Nat /\ calm' \in BOOLEAN
    BY <1>4, JudgedKeepsQuiet DEF NoEscalation, NoProgress, Belt, End
  <2>2. QED
    BY <1>4, <2>1 DEF NoEscalation, NoProgress, Judged, Belt, End, IInv, CountersInv
<1>5. CASE Escalate(scan)
  <2>1. RoundInv' /\ QuietInv' /\ quietRuns' \in Nat /\ calm' \in BOOLEAN
    BY <1>5, JudgedKeepsQuiet DEF Escalate, NoProgress, Belt, End
  <2>2. QED
    BY <1>5, <2>1 DEF Escalate, NoProgress, Judged, Belt, End, IInv, CountersInv
<1>6. CASE EscalationIneffective(scan)
  <2>1. RoundInv' /\ QuietInv' /\ quietRuns' \in Nat /\ calm' \in BOOLEAN
    BY <1>6, JudgedKeepsQuiet DEF EscalationIneffective, NoProgress, End
  <2>2. QED
    BY <1>6, <2>1 DEF EscalationIneffective, NoProgress, Judged, End, IInv,
                      CountersInv
<1>7. QED
  BY <1>1, <1>2, <1>3, <1>4, <1>5, <1>6 DEF AfterRun

\* The write of an escalation leaves the counts of the round alone.
LEMMA WriteKeepsInv == IInv /\ Write => IInv'
<1> SUFFICES ASSUME IInv, NEW ok \in BOOLEAN, WriteBlocked(ok) PROVE IInv'
  BY DEF Write
<1>1. total' = total /\ consecutive' = 0 /\ quietRuns' = quietRuns /\ calm' = calm
  BY DEF WriteBlocked
<1>2. \/ total' >= SafetyMax /\ pc' = "end"
      \/ ~(total' >= SafetyMax) /\ pc' = "top"
  BY DEF WriteBlocked, Belt, End
<1>3. QED
  BY <1>1, <1>2, LoopAssumption DEF IInv, CountersInv, RoundInv, QuietInv, Readable

\* The inductive invariant: a quiet round is always counted, and no round is
\* started or judged with the belt counter at its limit.
THEOREM InvariantHolds == Spec => []IInv
<1>1. Init => IInv
  BY InitInv
<1>2. IInv /\ [Next]_vars => IInv'
  <2> SUFFICES ASSUME IInv, [Next]_vars PROVE IInv'
    OBVIOUS
  <2>1. CASE UNCHANGED vars
    BY <2>1 DEF vars, boardVars, counters, IInv, CountersInv, RoundInv, QuietInv,
                FindProject, OriginScans, WorkingTreeScans, Readings, Reading, Scan, Readable
  <2>2. CASE Next
    BY <2>2, EnvironmentKeepsInv, TopKeepsInv, RunKeepsInv, WriteKeepsInv
       DEF Next, LoopStep
  <2>3. QED
    BY <2>1, <2>2
<1>3. QED
  BY <1>1, <1>2, PTL DEF Spec

\* While boards can be read, no drain outlives SafetyMax runs that change
\* nothing, whatever is changed between and during the other runs.
THEOREM QuietRunsCorrect == Spec => []QuietRunsBounded
<1>1. IInv => QuietRunsBounded
  BY LoopAssumption DEF IInv, CountersInv, QuietInv, Readable, QuietRunsBounded
<1>2. QED
  BY <1>1, InvariantHolds, PTL

-----------------------------------------------------------------------------
\* what is written, or was written, has been marked as attempted before
EscalatedInv ==
  /\ escalated \subseteq attempted
  /\ pc = "write" => victim \in attempted

\* pickLongestUnmovedTarget skips what has been attempted.
LEMMA CandidatesAreFresh ==
  ASSUME NEW scan, NEW s \in Candidates(scan)
  PROVE  s \notin attempted
BY DEF Candidates, LongestUnmoved

\* attempted and escalated grow together: by the choice of a victim and by
\* the write of it.
LEMMA EscalatedStep == EscalatedInv /\ [Next]_vars => EscalatedInv'
<1> SUFFICES ASSUME EscalatedInv, [Next]_vars PROVE EscalatedInv'
  OBVIOUS
<1> USE DEF EscalatedInv
<1>1. CASE UNCHANGED vars
  BY <1>1 DEF vars
<1>2. CASE Environment
  BY <1>2 DEF Environment, WorkInClone, LandAtOrigin, Synchronise, Others, Age
<1>3. ASSUME NEW scan \in FindProject, AtTop(scan) \/ Decide(scan)
      PROVE  EscalatedInv'
  BY <1>3 DEF AtTop, Decide, Abort, ChannelBusy, ProactivePause, StopWithoutWork,
              StartRun, End
<1>4. ASSUME NEW scan \in FindProject, AfterRun(scan)
      PROVE  EscalatedInv'
  <2>1. CASE Escalate(scan)
    <3>1. UNCHANGED escalated
      BY <2>1 DEF Escalate, NoProgress, Judged
    <3>2. PICK s \in Candidates(scan) :
            /\ attempted' = attempted \cup {s}
            /\ IF scan.source = "origin-ref"
               THEN consecutive' = 0 /\ Belt(scan) /\ UNCHANGED <<after, victim>>
               ELSE pc' = "write" /\ victim' = s
      BY <2>1 DEF Escalate
    <3>3. pc' = "write" => victim' = s
      BY <3>2 DEF Belt, End
    <3>4. QED
      BY <3>1, <3>2, <3>3
  <2>2. CASE ~Escalate(scan)
    <3>1. UNCHANGED <<attempted, escalated>> /\ pc' # "write"
      BY <1>4, <2>2 DEF AfterRun, LimitedRun, Progress, Unverified, NoEscalation,
         EscalationIneffective, NoProgress, Judged, Belt, End
    <3>2. QED
      BY <3>1
  <2>3. QED
    BY <2>1, <2>2
<1>5. CASE Write
  BY <1>5 DEF Write, WriteBlocked, Belt, End
<1>6. QED
  BY <1>1, <1>2, <1>3, <1>4, <1>5 DEF Next, LoopStep

\* Whatever fails and whoever unblocks a story meanwhile, one session never
\* chooses the same story twice.
THEOREM EscalatesOnceCorrect == Spec => EscalatesOncePerStory
<1>1. Init => EscalatedInv
  BY DEF Init, EscalatedInv
<1>2. EscalatedInv /\ [Next]_vars
        => [pc = "run" /\ pc' = "write" => victim' \notin attempted \cup escalated]_vars
  <2> SUFFICES ASSUME EscalatedInv, Next, pc = "run", pc' = "write"
               PROVE  victim' \notin attempted \cup escalated
    BY DEF vars
  <2>1. PICK scan \in FindProject : Escalate(scan)
    BY DEF Next, LoopStep, Environment, WorkInClone, LandAtOrigin, Synchronise,
           Others, Age, AtTop, Decide, Abort, ChannelBusy, ProactivePause,
           StopWithoutWork, StartRun, AfterRun, LimitedRun, Progress, Unverified,
           NoEscalation, EscalationIneffective, Belt, End, Write, WriteBlocked
  <2>2. PICK s \in Candidates(scan) : victim' = s
    BY <2>1 DEF Escalate, Belt, End
  <2>3. QED
    BY <2>2, CandidatesAreFresh DEF EscalatedInv
<1>3. QED
  BY <1>1, <1>2, EscalatedStep, PTL DEF Spec, EscalatesOncePerStory

\* While an escalation waits to be written and nothing has changed, the story is
\* still the unfinished one that was chosen, and origin is ahead only if a git
\* error has hidden it.
BlockInv ==
  /\ ahead \in BOOLEAN
  /\ pc = "write" /\ calm
       => /\ boards["working-tree"][victim] # "Done"
          /\ ahead => after.misled

\* No target of a working-tree scan is Done in the clone, and a verified scan of
\* the working tree, with origin ahead, is a misled one.
LEMMA EscalatedIsUnfinished ==
  ASSUME ahead \in BOOLEAN,
         NEW scan \in FindProject, scan.verified, scan.source # "origin-ref",
         NEW s \in TargetsOf(scan)
  PROVE  /\ boards["working-tree"][s] # "Done"
         /\ ahead => scan.misled
<1>1. ASSUME NEW src, NEW v, NEW m, scan \in Readings(src, v, m)
      PROVE  /\ scan.source = src /\ scan.verified = v /\ scan.misled = m
             /\ \A t \in DOMAIN scan.board : scan.board[t] = boards[src][t]
  <2>1. PICK found, known : scan = Reading(src, v, m, found, known)
    BY <1>1, ReadingForm
  <2> QED
    BY <2>1 DEF Reading, Scan
<1>2. s \in DOMAIN scan.board /\ scan.board[s] \in {"To Do", "In Progress"}
  BY DEF TargetsOf, Targets, Ready, IsStaleInProgress
<1>3. CASE scan \in OriginScans
  BY <1>1, <1>3 DEF OriginScans
<1>4. CASE scan \in WorkingTreeScans(FALSE)
  <2>1. WorkingTreeScans(FALSE) = Readings("working-tree", FALSE, FALSE)
    BY DEF WorkingTreeScans
  <2>2. scan \in Readings("working-tree", FALSE, FALSE)
    BY <1>4, <2>1
  <2>3. scan.verified = FALSE
    BY <1>1, <2>2
  <2> QED
    BY <2>3
<1>5. CASE scan \in WorkingTreeScans(TRUE)
  <2>1. ASSUME ahead = TRUE
        PROVE  WorkingTreeScans(TRUE) = Readings("working-tree", TRUE, TRUE)
    BY <2>1 DEF WorkingTreeScans
  <2>2. ASSUME ahead = FALSE
        PROVE  WorkingTreeScans(TRUE) = Readings("working-tree", TRUE, FALSE)
    BY <2>2 DEF WorkingTreeScans
  <2>3. CASE ahead = TRUE
    <3>1. scan \in Readings("working-tree", TRUE, TRUE)
      BY <1>5, <2>1, <2>3
    <3> QED
      BY <1>1, <1>2, <3>1
  <2>4. CASE ahead = FALSE
    <3>1. scan \in Readings("working-tree", TRUE, FALSE)
      BY <1>5, <2>2, <2>4
    <3> QED
      BY <1>1, <1>2, <2>4, <3>1
  <2> QED
    BY <2>3, <2>4
<1> QED
  BY <1>3, <1>4, <1>5 DEF FindProject

\* The choice of a victim establishes BlockInv; any change by others voids its
\* premise, and time alone changes no board.
LEMMA BlockStep == BlockInv /\ [Next]_vars => BlockInv'
<1> SUFFICES ASSUME BlockInv, [Next]_vars PROVE BlockInv'
  OBVIOUS
<1> USE DEF BlockInv
<1>1. CASE UNCHANGED vars
  BY <1>1 DEF vars, boardVars
<1>2. CASE Environment
  <2>1. CASE Others
    <3>1. ~calm'
      BY <2>1 DEF Others
    <3>2. ahead' \in BOOLEAN
      BY <1>2, Zenon DEF Environment, WorkInClone, LandAtOrigin, Synchronise, Age
    <3> QED
      BY <3>1, <3>2
  <2>2. CASE \E s \in Stories : Age(s)
    <3>1. UNCHANGED <<boards, ahead, pc, after, victim, calm>>
      BY <2>2 DEF Age
    <3> QED
      BY <3>1
  <2> QED
    BY <1>2, <2>1, <2>2 DEF Environment, WorkInClone, LandAtOrigin, Synchronise
<1>3. ASSUME NEW scan \in FindProject, AtTop(scan) \/ Decide(scan)
      PROVE  BlockInv'
  <2>1. pc' # "write" /\ ahead' = ahead
    BY <1>3 DEF AtTop, Decide, Abort, ChannelBusy, ProactivePause, StopWithoutWork,
                StartRun, End, boardVars
  <2> QED
    BY <2>1
<1>4. ASSUME NEW scan \in FindProject, AfterRun(scan)
      PROVE  BlockInv'
  <2>1. CASE Escalate(scan)
    <3>1. PICK s \in Candidates(scan) :
            /\ attempted' = attempted \cup {s}
            /\ IF scan.source = "origin-ref"
               THEN consecutive' = 0 /\ Belt(scan) /\ UNCHANGED <<after, victim>>
               ELSE /\ pc' = "write"
                    /\ after' = scan
                    /\ victim' = s
                    /\ UNCHANGED <<consecutive, result>>
      BY <2>1 DEF Escalate
    <3>2. scan.verified /\ UNCHANGED <<boards, ahead>>
      BY <2>1 DEF Escalate, NoProgress, Judged, boardVars
    <3>3. CASE scan.source = "origin-ref"
      <4>1. pc' # "write" /\ ahead' = ahead
        BY <3>1, <3>2, <3>3 DEF Belt, End
      <4> QED
        BY <4>1
    <3>4. CASE scan.source # "origin-ref"
      <4>1. s \in TargetsOf(scan)
        BY <3>1 DEF Candidates, LongestUnmoved
      <4>2. boards["working-tree"][s] # "Done" /\ (ahead => scan.misled)
        BY <3>2, <3>4, <4>1, EscalatedIsUnfinished
      <4> QED
        BY <3>1, <3>2, <3>4, <4>2
    <3> QED
      BY <3>3, <3>4
  <2>2. CASE ~Escalate(scan)
    <3>1. pc' # "write" /\ ahead' = ahead
      BY <1>4, <2>2 DEF AfterRun, LimitedRun, Progress, Unverified, NoEscalation,
         EscalationIneffective, NoProgress, Judged, Belt, End, boardVars
    <3> QED
      BY <3>1
  <2> QED
    BY <2>1, <2>2
<1>5. CASE Write
  BY <1>5 DEF Write, WriteBlocked, Belt, End
<1> QED
  BY <1>1, <1>2, <1>3, <1>4, <1>5 DEF Next, LoopStep

\* Whatever fails - fetches, git reads, files below the board, earlier writes -
\* "Blocked" is about to be written over a story that is Done in the clone or at
\* an origin ahead of it only after a change since the scan, or where the scan was
\* misled about origin.
THEOREM NoBlockCorrect == Spec => []NoBlockOverDone
<1>1. Init => BlockInv
  BY DEF Init, BlockInv
<1>2. BlockInv => NoBlockOverDone
  BY DEF BlockInv, NoBlockOverDone
<1> QED
  BY <1>1, <1>2, BlockStep, PTL DEF Spec

-----------------------------------------------------------------------------
(* Types.  The counters stay below their limits except where the loop ends. *)

TInv ==
  /\ TypeOK
  /\ consecutive < EscalationAttempts
  /\ pc \in {"top", "run"} => total < SafetyMax
  /\ pc = "write" => victim \in Stories

\* What is read of a board has statuses, for stories only.
LEMMA StatusesType ==
  /\ NoBoard \in Statuses
  /\ \A b \in Statuses \cup {NoStatuses} : DOMAIN b \subseteq Stories \cup {Missing}
  /\ \A b \in Statuses : DOMAIN b \subseteq Stories
<1>1. NoBoard \in [{} -> StoryStatuses]
  BY DEF NoBoard
<1>2. NoBoard \in Statuses
  BY <1>1 DEF Statuses
<1>3. \A b \in Statuses : DOMAIN b \subseteq Stories
  BY DEF Statuses
<1>4. DOMAIN NoStatuses = {Missing}
  BY DEF NoStatuses
<1> QED
  BY <1>2, <1>3, <1>4

\* #findProject returns scans of boards, or of parts of them.
LEMMA ScanType == TypeOK => FindProject \subseteq Scans
<1> SUFFICES ASSUME TypeOK PROVE FindProject \subseteq Scans
  OBVIOUS
<1>1. ASSUME NEW src \in Sources, NEW v \in BOOLEAN, NEW m \in BOOLEAN,
             NEW found \in SUBSET Stories, NEW known \in SUBSET Planned
      PROVE  Reading(src, v, m, found, known) \in Scans
  <2>1. boards[src] \in [Stories -> StoryStatuses]
    BY DEF TypeOK, Boards
  <2>2. [s \in found |-> boards[src][s]] \in [found -> StoryStatuses]
    BY <2>1
  <2>3. [s \in found |-> boards[src][s]] \in Statuses
    BY <2>2 DEF Statuses
  <2>4. known \cap found \in SUBSET Stories
    OBVIOUS
  <2> QED
    BY <2>3, <2>4 DEF Reading, Scan, Scans
<1>2. ASSUME NEW src \in Sources, NEW v \in BOOLEAN, NEW m \in BOOLEAN
      PROVE  Readings(src, v, m) \subseteq Scans
  BY <1>1, ReadingForm
<1>3. OriginScans \subseteq Scans
  BY <1>2 DEF OriginScans, Sources
<1>4. ASSUME NEW v \in BOOLEAN
      PROVE  WorkingTreeScans(v) \subseteq Scans
  <2>1. (v /\ ahead) \in BOOLEAN
    BY Zenon DEF TypeOK
  <2> QED
    BY <1>2, <2>1 DEF WorkingTreeScans, Sources
<1> QED
  BY <1>3, <1>4 DEF FindProject

\* A new status keeps a board a board.
LEMMA BoardEdit ==
  ASSUME TypeOK, NEW src \in Sources, NEW s \in Stories, NEW status \in StoryStatuses
  PROVE  [boards EXCEPT ![src][s] = status] \in [Sources -> Boards]
<1>1. [boards[src] EXCEPT ![s] = status] \in Boards
  BY DEF TypeOK, Boards
<1>2. QED
  BY <1>1 DEF TypeOK

\* Only stories of the scanned board are reported or chosen.
LEMMA ResultTypes ==
  ASSUME TypeOK, NEW from \in Statuses \cup {NoStatuses}, NEW to \in Scans
  PROVE  /\ Report(from, to) \in [completed : SUBSET Stories, blocked : SUBSET Stories]
         /\ Candidates(to) \subseteq Stories
         /\ MoveRounds(to) \in [Stories -> 0..MaxRounds]
<1>1. DOMAIN to.board \subseteq Stories
  BY StatusesType DEF Scans
<1>2. Report(from, to) \in [completed : SUBSET Stories, blocked : SUBSET Stories]
  BY <1>1 DEF Report
<1>3. Candidates(to) \subseteq Stories
  BY <1>1 DEF Candidates, LongestUnmoved, TargetsOf, Targets
<1>4. MoveRounds(to) \in [Stories -> 0..MaxRounds]
  BY DEF MoveRounds, TypeOK
<1>5. QED
  BY <1>2, <1>3, <1>4

\* A step at the top of the loop.
LEMMA TopTypes ==
  ASSUME TInv, NEW scan \in FindProject, AtTop(scan) \/ Decide(scan)
  PROVE  TInv'
<1> USE LoopAssumption DEF TInv
<1>1. scan \in Scans
  BY ScanType
<1>2. Begun(scan) \in Statuses \cup {NoStatuses}
  BY <1>1 DEF Begun, TypeOK, Scans
<1>3. /\ Report(initial, scan) \in [completed : SUBSET Stories, blocked : SUBSET Stories]
      /\ Report(Begun(scan), scan) \in [completed : SUBSET Stories, blocked : SUBSET Stories]
      /\ NoReport \in [completed : SUBSET Stories, blocked : SUBSET Stories]
  BY <1>1, <1>2, ResultTypes DEF TypeOK, NoReport
<1>4. NoScan \in Scans
  BY StatusesType DEF NoScan, Scan, Scans, Sources
<1>5. CASE Abort(scan) \/ ChannelBusy(scan)
  BY <1>1, <1>2, <1>3, <1>5 DEF Abort, ChannelBusy, End, TypeOK, boardVars, counters,
                                Reasons
<1>6. CASE \E resumed \in BOOLEAN : ProactivePause(scan, resumed)
  BY <1>1, <1>2, <1>3, <1>6 DEF ProactivePause, End, TypeOK, boardVars, counters,
                                Reasons
<1>7. CASE StopWithoutWork(scan)
  BY <1>1, <1>2, <1>3, <1>7 DEF StopWithoutWork, End, TypeOK, boardVars, counters,
                                Reasons
<1>8. CASE StartRun(scan)
  <2>1. round' \in 0..MaxRounds
    BY <1>8 DEF StartRun, TypeOK
  <2>2. lastChange' \in [Stories -> 0..MaxRounds]
    BY <1>8, <2>1 DEF StartRun, TypeOK
  <2>3. QED
    BY <1>1, <1>2, <1>4, <1>8, <2>1, <2>2 DEF StartRun, TypeOK, boardVars, counters,
                                              result
<1>9. QED
  BY <1>5, <1>6, <1>7, <1>8 DEF AtTop, Decide

\* A step after a flow run.
LEMMA RunTypes ==
  ASSUME TInv, NEW scan \in FindProject, AfterRun(scan)
  PROVE  TInv'
<1> USE LoopAssumption DEF TInv
<1>1. scan \in Scans
  BY ScanType
<1>2. /\ Report(initial, scan) \in [completed : SUBSET Stories, blocked : SUBSET Stories]
      /\ Candidates(scan) \subseteq Stories
      /\ MoveRounds(scan) \in [Stories -> 0..MaxRounds]
  BY <1>1, ResultTypes DEF TypeOK
<1>3. NoScan \in Scans
  BY StatusesType DEF NoScan, Scan, Scans, Sources
<1>4. CASE \E resumed \in BOOLEAN : LimitedRun(scan, resumed)
  BY <1>1, <1>2, <1>3, <1>4 DEF LimitedRun, End, TypeOK, boardVars, counters, Reasons,
                                result
<1>5. ASSUME Judged(scan)
      PROVE  /\ UNCHANGED <<boardVars, initial, round, escalated>>
             /\ lastChange' \in [Stories -> 0..MaxRounds]
             /\ before' \in Scans
             /\ quietRuns' \in Nat /\ calm' = TRUE
             /\ pc = "run"
  BY <1>1, <1>2, <1>3, <1>5 DEF Judged, TypeOK
<1>6. CASE Progress(scan)
  BY <1>5, <1>6 DEF Progress, TypeOK, boardVars, result
<1>7. CASE Unverified(scan)
  BY <1>5, <1>7 DEF Unverified, TypeOK, boardVars, result, counters
<1>8. ASSUME NoProgress(scan) PROVE total' \in 0..SafetyMax /\ Judged(scan)
  BY <1>8, <1>5 DEF NoProgress, TypeOK
<1>9. CASE NoEscalation(scan)
  BY <1>2, <1>5, <1>8, <1>9 DEF NoEscalation, Belt, End, TypeOK, boardVars, result,
                                Reasons
<1>10. CASE Escalate(scan)
  <2>1. PICK s \in Candidates(scan) :
          /\ attempted' = attempted \cup {s}
          /\ IF scan.source = "origin-ref"
             THEN consecutive' = 0 /\ Belt(scan) /\ UNCHANGED <<after, victim>>
             ELSE /\ pc' = "write"
                  /\ after' = scan
                  /\ victim' = s
                  /\ UNCHANGED <<consecutive, result>>
    BY <1>10 DEF Escalate
  <2>2. NoProgress(scan) /\ s \in Stories
    BY <1>2, <1>10 DEF Escalate
  <2>3. CASE scan.source = "origin-ref"
    BY <1>2, <1>5, <1>8, <2>1, <2>2, <2>3 DEF Belt, End, TypeOK, boardVars, result,
                                              Reasons
  <2>4. CASE scan.source # "origin-ref"
    BY <1>1, <1>5, <1>8, <2>1, <2>2, <2>4 DEF TypeOK, boardVars, result
  <2>5. QED
    BY <2>3, <2>4
<1>11. CASE EscalationIneffective(scan)
  BY <1>2, <1>5, <1>8, <1>11 DEF EscalationIneffective, End, TypeOK, boardVars, Reasons
<1>12. QED
  BY <1>4, <1>6, <1>7, <1>9, <1>10, <1>11 DEF AfterRun

\* Type correctness for every board, setting and set of faults.
THEOREM TypeCorrect == Spec => []TypeOK
<1> USE LoopAssumption
<1>1. Init => TInv
  <2>1. NoScan \in Scans
    BY StatusesType DEF NoScan, Scan, Scans, Sources
  <2> QED
    BY <2>1, StoriesAssumption DEF Init, TInv, TypeOK, Sources, Stories, Reasons, Missing
<1>2. TInv /\ [Next]_vars => TInv'
  <2> SUFFICES ASSUME TInv, [Next]_vars PROVE TInv'
    OBVIOUS
  <2>1. CASE UNCHANGED vars
    BY <2>1 DEF vars, boardVars, counters, result, TInv, TypeOK
  <2>2. CASE Environment
    <3>1. /\ boards' \in [Sources -> Boards]
          /\ ahead' \in BOOLEAN
          /\ aged' \in SUBSET Stories
          /\ changes' \in 0..MaxChanges
          /\ calm' \in BOOLEAN
      <4>1. ASSUME Others PROVE changes' \in 0..MaxChanges /\ calm' \in BOOLEAN
        <5>1. changes' = changes + 1 /\ changes < MaxChanges /\ calm' = FALSE
          BY <4>1 DEF Others
        <5>2. changes \in 0..MaxChanges
          BY DEF TInv, TypeOK
        <5>3. changes' \in 0..MaxChanges
          BY <5>1, <5>2
        <5>4. calm' \in BOOLEAN
          BY <5>1, Zenon
        <5>5. QED
          BY <5>3, <5>4
      <4>2. ASSUME NEW s \in Stories, NEW status \in StoryStatuses,
                   WorkInClone(s, status)
            PROVE  /\ boards' \in [Sources -> Boards] /\ ahead' \in BOOLEAN
                   /\ aged' \in SUBSET Stories /\ Others
        BY <4>2, BoardEdit DEF WorkInClone, TInv, TypeOK, Sources
      <4>3. ASSUME NEW s \in Stories, NEW status \in StoryStatuses,
                   LandAtOrigin(s, status)
            PROVE  /\ boards' \in [Sources -> Boards] /\ ahead' \in BOOLEAN
                   /\ aged' \in SUBSET Stories /\ Others
        <5>1. [boards EXCEPT !["origin-ref"][s] = status] \in [Sources -> Boards]
          BY BoardEdit DEF TInv, Sources
        <5>2. QED
          BY <4>3, <5>1 DEF LandAtOrigin, TInv, TypeOK
      <4>4. ASSUME NEW src \in Sources, Synchronise(src)
            PROVE  /\ boards' \in [Sources -> Boards] /\ ahead' \in BOOLEAN
                   /\ aged' \in SUBSET Stories /\ Others
        BY <4>4 DEF Synchronise, TInv, TypeOK
      <4>5. CASE \E s \in Stories : Age(s)
        BY <4>5 DEF Age, TInv, TypeOK
      <4>6. QED
        BY <2>2, <4>1, <4>2, <4>3, <4>5, <4>4 DEF Environment
    <3>2. UNCHANGED <<pc, result, before, after, initial, round, lastChange, counters,
                      attempted, escalated, victim, quietRuns>>
      BY <2>2 DEF Environment, WorkInClone, LandAtOrigin, Synchronise, Others, Age,
                  result, counters
    <3>3. QED
      BY <3>1, <3>2 DEF TInv, TypeOK, result, counters
  <2>3. CASE Write
    <3>1. PICK ok \in BOOLEAN : WriteBlocked(ok)
      BY <2>3 DEF Write
    <3>2. /\ boards' \in [Sources -> Boards]
          /\ aged' \in SUBSET Stories
          /\ escalated' \in SUBSET Stories
          /\ lastChange' \in [Stories -> 0..MaxRounds]
      <4>1. "working-tree" \in Sources /\ "Blocked" \in StoryStatuses
              /\ victim \in Stories
        BY <3>1 DEF WriteBlocked, TInv, Sources, StoryStatuses
      <4>2. [boards EXCEPT !["working-tree"][victim] = "Blocked"] \in [Sources -> Boards]
        BY <4>1, BoardEdit DEF TInv
      <4>3. QED
        BY <3>1, <4>1, <4>2 DEF WriteBlocked, TInv, TypeOK
    <3>3. Report(initial, after) \in [completed : SUBSET Stories, blocked : SUBSET Stories]
      BY ResultTypes DEF TInv, TypeOK
    <3>4. NoScan \in Scans
      BY StatusesType DEF NoScan, Scan, Scans, Sources
    <3>5. QED
      BY <3>1, <3>2, <3>3, <3>4 DEF WriteBlocked, Belt, End, TInv, TypeOK, result, Reasons
  <2>4. QED
    BY <2>1, <2>2, <2>3, TopTypes, RunTypes DEF Next, LoopStep
<1>3. TInv => TypeOK
  BY DEF TInv
<1>4. QED
  BY <1>1, <1>2, <1>3, PTL DEF Spec

-----------------------------------------------------------------------------
(* The judgements of DrainTargets.  Induction over the passes of their loop is *)
(* the least number for which a fact would fail.                             *)

\* Every set of numbers that is not empty has a least element.
LEMMA LeastNumber ==
  ASSUME NEW T, T \subseteq Nat, T # {}
  PROVE  \E x \in T : \A y \in T : x <= y
<1> DEFINE R == OpToRel(<, Nat)
<1>1. IsWellFoundedOn(R, Nat)
  BY NatLessThanWellFounded
<1>2. \A x, y \in Nat : y < x => <<y, x>> \in R
  BY DEF OpToRel
<1> HIDE DEF R
<1>3. \E x \in T : \A y \in T : ~(<<y, x>> \in R)
  BY <1>1, WFMin
<1>4. PICK x \in T : \A y \in T : ~(<<y, x>> \in R)
  BY <1>3
<1>5. \A y \in T : ~(y < x)
  BY <1>2, <1>4
<1> QED
  BY <1>5

\* Induction up to a bound, over the set of numbers for which a fact holds.
LEMMA BoundedInduction ==
  ASSUME NEW N \in Nat, NEW S, 0 \in S,
         \A n \in 1..N : n - 1 \in S => n \in S
  PROVE  \A n \in 0..N : n \in S
<1> SUFFICES ASSUME (0..N) \ S # {} PROVE FALSE
  OBVIOUS
<1>1. PICK n \in (0..N) \ S : \A m \in (0..N) \ S : n <= m
  <2> DEFINE T == (0..N) \ S
  <2>1. T \subseteq Nat /\ T # {}
    OBVIOUS
  <2> HIDE DEF T
  <2>2. \E n \in T : \A m \in T : n <= m
    BY <2>1, LeastNumber
  <2> QED
    BY <2>2 DEF T
<1>2. n # 0 /\ n \in 1..N /\ n - 1 \in 0..N
  OBVIOUS
<1>3. n - 1 \in S
  BY <1>1, <1>2
<1> QED
  BY <1>1, <1>2, <1>3

\* The passes of computeAliveStoryIds.
LEMMA AlivePasses ==
  ASSUME NEW b, NEW d
  PROVE  \E P : /\ P[0] = {}
                /\ \A n \in 1..NStories : P[n] = AliveNext(b, d, P[n - 1])
                /\ Alive(b, d) = P[NStories]
<1> DEFINE Passes(f, m) ==
             f = [n \in 0..m |-> IF n = 0 THEN {} ELSE AliveNext(b, d, f[n - 1])]
           S == {m \in Nat : \E f : Passes(f, m)}
<1>1. 0 \in S
  <2>1. Passes([n \in 0..0 |-> {}], 0)
    OBVIOUS
  <2> QED
    BY <2>1
<1>2. ASSUME NEW m \in 1..NStories, m - 1 \in S
      PROVE  m \in S
  <2>1. PICK f : Passes(f, m - 1)
    BY <1>2
  <2> DEFINE g == [n \in 0..m |-> IF n = m THEN AliveNext(b, d, f[m - 1]) ELSE f[n]]
  <2>2. m - 1 \in Nat /\ m \in Nat /\ m # 0
    BY StoriesAssumption
  <2>3. ASSUME NEW n \in 0..m
        PROVE  g[n] = IF n = 0 THEN {} ELSE AliveNext(b, d, g[n - 1])
    <3>1. CASE n = m
      BY <2>2, <3>1
    <3>2. CASE n # m
      <4>1. n \in 0..(m - 1)
        BY <2>2, <3>2
      <4>2. f[n] = IF n = 0 THEN {} ELSE AliveNext(b, d, f[n - 1])
        BY <2>1, <4>1
      <4>3. n # 0 => n - 1 \in 0..m /\ n - 1 # m
        BY <2>2
      <4> QED
        BY <3>2, <4>2, <4>3
    <3> QED
      BY <3>1, <3>2
  <2>4. Passes(g, m)
    <3> HIDE DEF g
    <3>1. g = [n \in 0..m |-> g[n]]
      BY DEF g
    <3> QED
      BY <2>3, <3>1
  <2> QED
    BY <2>2, <2>4
<1>3. \E f : Passes(f, NStories)
  <2> HIDE DEF S
  <2>1. NStories \in S
    BY <1>1, <1>2, StoriesAssumption, BoundedInduction
  <2> QED
    BY <2>1 DEF S
<1> DEFINE P == CHOOSE f : Passes(f, NStories)
<1>4. Passes(P, NStories)
  BY <1>3
<1>5. Alive(b, d) = P[NStories]
  BY DEF Alive
<1> HIDE DEF P
<1>6. \A n \in 0..NStories : P[n] = IF n = 0 THEN {} ELSE AliveNext(b, d, P[n - 1])
  BY <1>4
<1>7. P[0] = {} /\ \A n \in 1..NStories : P[n] = AliveNext(b, d, P[n - 1])
  BY <1>6, StoriesAssumption
<1> QED
  BY <1>5, <1>7

\* Only stories of the board are alive.
LEMMA AliveOnBoard ==
  ASSUME NEW b, NEW d
  PROVE  Alive(b, d) \subseteq DOMAIN b
<1>1. PICK P : /\ P[0] = {}
               /\ \A n \in 1..NStories : P[n] = AliveNext(b, d, P[n - 1])
               /\ Alive(b, d) = P[NStories]
  BY AlivePasses
<1> DEFINE S == {n \in Nat : P[n] \subseteq DOMAIN b}
<1>2. 0 \in S
  BY <1>1
<1>3. ASSUME NEW n \in 1..NStories, n - 1 \in S
      PROVE  n \in S
  <2>1. P[n] = AliveNext(b, d, P[n - 1]) /\ P[n - 1] \subseteq DOMAIN b
    BY <1>1, <1>3
  <2>2. P[n] \subseteq DOMAIN b
    BY <2>1 DEF AliveNext
  <2> QED
    BY <2>2, StoriesAssumption
<1> HIDE DEF S
<1>4. NStories \in S
  BY <1>2, <1>3, StoriesAssumption, BoundedInduction
<1> QED
  BY <1>1, <1>4 DEF S

\* Whatever a pass adds nothing to contains all stories that are alive.
LEMMA AliveIsLeast ==
  ASSUME NEW b, NEW d, NEW A, AliveNext(b, d, A) \subseteq A
  PROVE  Alive(b, d) \subseteq A
<1>1. PICK P : /\ P[0] = {}
               /\ \A n \in 1..NStories : P[n] = AliveNext(b, d, P[n - 1])
               /\ Alive(b, d) = P[NStories]
  BY AlivePasses
<1> DEFINE S == {n \in Nat : P[n] \subseteq A}
<1>2. 0 \in S
  BY <1>1
<1>3. ASSUME NEW n \in 1..NStories, n - 1 \in S
      PROVE  n \in S
  <2>1. P[n] = AliveNext(b, d, P[n - 1]) /\ P[n - 1] \subseteq A
    BY <1>1, <1>3
  <2>2. P[n] \subseteq AliveNext(b, d, A)
    BY <2>1 DEF AliveNext
  <2> QED
    BY <2>2, StoriesAssumption
<1> HIDE DEF S
<1>4. NStories \in S
  BY <1>2, <1>3, StoriesAssumption, BoundedInduction
<1> QED
  BY <1>1, <1>4 DEF S

\* A board has NStories stories.
LEMMA StoriesAreFinite == IsFiniteSet(Stories) /\ Cardinality(Stories) = NStories
BY FS_Interval, StoriesAssumption DEF Stories

\* As many passes as there are stories are enough: each but the last adds one.
LEMMA AliveIsClosed ==
  ASSUME NEW b \in Boards, NEW d
  PROVE  AliveNext(b, d, Alive(b, d)) = Alive(b, d)
<1>1. PICK P : /\ P[0] = {}
               /\ \A n \in 1..NStories : P[n] = AliveNext(b, d, P[n - 1])
               /\ Alive(b, d) = P[NStories]
  BY AlivePasses
<1> DEFINE Settled(A) == AliveNext(b, d, A) = A
           Grown(n) == /\ IsFiniteSet(P[n]) /\ P[n] \subseteq Stories
                       /\ Settled(P[n]) \/ Cardinality(P[n]) >= n
           S == {n \in Nat : Grown(n)}
<1>2. \A A : A \subseteq Stories => AliveNext(b, d, A) \subseteq Stories
  BY DEF AliveNext, Boards
<1>3. 0 \in S
  BY <1>1, FS_EmptySet
<1>4. ASSUME NEW n \in 1..NStories, n - 1 \in S
      PROVE  n \in S
  <2>1. P[n] = AliveNext(b, d, P[n - 1]) /\ P[n - 1] \subseteq Stories
    BY <1>1, <1>4
  <2>2. P[n] \subseteq Stories /\ IsFiniteSet(P[n])
    BY <2>1, <1>2, StoriesAreFinite, FS_Subset
  <2>3. CASE Settled(P[n - 1])
    <3>1. P[n] = P[n - 1]
      BY <2>1, <2>3
    <3>2. Settled(P[n])
      BY <2>3, <3>1
    <3> QED
      BY <2>2, <3>2
  <2>4. CASE ~Settled(P[n - 1])
    <3>1. P[n - 1] \subseteq P[n] /\ P[n - 1] # P[n]
      BY <2>1, <2>4 DEF AliveNext
    <3>2. Cardinality(P[n - 1]) >= n - 1
      BY <1>4, <2>4
    <3>3. Cardinality(P[n - 1]) <= Cardinality(P[n])
            /\ Cardinality(P[n - 1]) # Cardinality(P[n])
      BY <3>1, <2>2, FS_Subset
    <3>4. Cardinality(P[n]) \in Nat /\ Cardinality(P[n - 1]) \in Nat
      BY <1>4, <2>2, FS_CardinalityType
    <3>5. Cardinality(P[n]) >= n
      BY <3>2, <3>3, <3>4, StoriesAssumption
    <3> QED
      BY <2>2, <3>5
  <2> QED
    BY <2>3, <2>4
<1>5. Grown(NStories)
  <2> HIDE DEF Grown
  <2>1. \A n \in 1..NStories : n - 1 \in S => n \in S
    BY <1>4
  <2>2. 0 \in S
    BY <1>3
  <2> HIDE DEF S
  <2>3. NStories \in S
    BY <2>1, <2>2, StoriesAssumption, BoundedInduction
  <2> QED
    BY <2>3 DEF S
<1>6. CASE Settled(P[NStories])
  BY <1>1, <1>6
<1>7. CASE ~Settled(P[NStories])
  <2>1. Cardinality(P[NStories]) >= NStories
    BY <1>5, <1>7
  <2>2. P[NStories] = Stories
    <3>1. /\ Cardinality(P[NStories]) <= NStories
          /\ Cardinality(P[NStories]) = NStories => P[NStories] = Stories
      BY <1>5, StoriesAreFinite, FS_Subset
    <3>2. Cardinality(P[NStories]) \in Nat
      BY <1>5, FS_CardinalityType
    <3> QED
      BY <2>1, <3>1, <3>2, StoriesAssumption
  <2>3. AliveNext(b, d, P[NStories]) \subseteq P[NStories]
    BY <1>2, <2>2
  <2>4. P[NStories] \subseteq AliveNext(b, d, P[NStories])
    BY DEF AliveNext
  <2> QED
    BY <1>7, <2>3, <2>4
<1> QED
  BY <1>6, <1>7

\* The rules of the ideal runs and a pass of the code mean the same.
LEMMA ClosedMeansSettled ==
  ASSUME board \in Boards, NEW A \in SUBSET Stories
  PROVE  ClosedUnderAlive(A) <=> AliveNext(board, deps, A) \subseteq A
<1>1. \A s \in Stories : board[s] \in {"To Do", "In Progress", "Blocked", "Done"}
  BY DEF Boards, StoryStatuses
<1>2. DOMAIN board = Stories
  BY DEF Boards
<1>3. ASSUME ClosedUnderAlive(A) PROVE AliveNext(board, deps, A) \subseteq A
  BY <1>1, <1>2, <1>3 DEF ClosedUnderAlive, AliveNext
<1>4. ASSUME AliveNext(board, deps, A) \subseteq A PROVE ClosedUnderAlive(A)
  BY <1>1, <1>2, <1>4 DEF ClosedUnderAlive, AliveNext
<1> QED
  BY <1>3, <1>4

\* Of the targets not tried yet exactly one is the next to be escalated.
THEOREM LongestUnmovedIsUnique ==
  ASSUME NEW targets \in SUBSET Stories, NEW rounds \in [Stories -> Nat],
         NEW tried, targets \ tried # {}
  PROVE  \E s \in targets \ tried : LongestUnmoved(targets, rounds, tried) = {s}
<1> DEFINE C == targets \ tried
           Times == {rounds[s] : s \in C}
<1>1. PICK n \in Times : \A m \in Times : n <= m
  <2>1. Times \subseteq Nat /\ Times # {}
    OBVIOUS
  <2> HIDE DEF Times
  <2> QED
    BY <2>1, LeastNumber
<1> DEFINE Oldest == {s \in C : rounds[s] = n}
<1>2. PICK s \in Oldest : \A t \in Oldest : s <= t
  <2>1. Oldest \subseteq Nat
    <3>1. Stories \subseteq Nat
      BY StoriesAssumption DEF Stories
    <3>2. Oldest \subseteq Stories
      OBVIOUS
    <3> QED
      BY <3>1, <3>2
  <2>2. PICK s \in C : n = rounds[s]
    BY <1>1
  <2>3. Oldest # {}
    BY <2>2
  <2> HIDE DEF Oldest
  <2> QED
    BY <2>1, <2>3, LeastNumber
<1>3. s \in C /\ rounds[s] = n /\ \A t \in C : rounds[t] \in Nat /\ t \in Nat
  BY <1>2, StoriesAssumption DEF Stories
<1>4. s \in LongestUnmoved(targets, rounds, tried)
  <2>1. ASSUME NEW t \in C
        PROVE  rounds[s] < rounds[t] \/ (rounds[s] = rounds[t] /\ s <= t)
    <3>1. n <= rounds[t]
      BY <1>1
    <3>2. rounds[t] = n => s <= t
      BY <1>2
    <3> QED
      BY <1>3, <3>1, <3>2
  <2> QED
    BY <1>3, <2>1 DEF LongestUnmoved
<1>5. ASSUME NEW t \in LongestUnmoved(targets, rounds, tried)
      PROVE  t = s
  <2>1. t \in C /\ (rounds[t] < rounds[s] \/ (rounds[t] = rounds[s] /\ t <= s))
    BY <1>3 DEF LongestUnmoved
  <2>2. n <= rounds[t]
    BY <2>1, <1>1
  <2>3. rounds[t] = n
    BY <2>1, <2>2, <1>3
  <2>4. s <= t /\ t <= s
    BY <2>1, <2>3, <1>2, <1>3
  <2> QED
    BY <2>1, <2>4, <1>3
<1> QED
  BY <1>3, <1>4, <1>5

\* A drain that gives up its escalation has targets and has tried them all.
THEOREM IneffectiveIsExhausted ==
  Spec => [][reason = "none" /\ reason' = "escalation-ineffective"
               => \E scan \in FindProject :
                    /\ TargetsOf(scan) # {}
                    /\ TargetsOf(scan) \subseteq attempted]_vars
<1>1. TypeOK /\ [Next]_vars
        => [reason = "none" /\ reason' = "escalation-ineffective"
              => \E scan \in FindProject :
                   /\ TargetsOf(scan) # {}
                   /\ TargetsOf(scan) \subseteq attempted]_vars
  <2> SUFFICES ASSUME TypeOK, Next, reason = "none", reason' = "escalation-ineffective"
               PROVE  \E scan \in FindProject :
                        /\ TargetsOf(scan) # {}
                        /\ TargetsOf(scan) \subseteq attempted
    BY DEF vars, result
  <2>1. PICK scan \in FindProject : EscalationIneffective(scan)
    BY DEF Next, LoopStep, Environment, WorkInClone, LandAtOrigin, Synchronise,
           Others, Age, AtTop, Decide, Abort, ChannelBusy, ProactivePause,
           StopWithoutWork, StartRun, AfterRun, LimitedRun, Progress, Unverified,
           NoEscalation, Escalate, Belt, End, Write, WriteBlocked, result
  <2>2. TargetsOf(scan) # {} /\ Candidates(scan) = {}
    BY <2>1 DEF EscalationIneffective
  <2>3. MoveRounds(scan) \in [Stories -> Nat]
    BY LoopAssumption DEF MoveRounds, TypeOK
  <2>4. TargetsOf(scan) \in SUBSET Stories
    <3>1. scan.board \in Statuses
      BY ScanType DEF Scans
    <3>2. DOMAIN scan.board \subseteq Stories
      BY <3>1, StatusesType
    <3> QED
      BY <3>2 DEF TargetsOf, Targets
  <2>5. TargetsOf(scan) \ attempted = {}
    BY <2>2, <2>3, <2>4, LongestUnmovedIsUnique DEF Candidates
  <2> QED
    BY <2>2, <2>5
<1> QED
  BY <1>1, TypeCorrect, PTL DEF Spec


-----------------------------------------------------------------------------
(* Ideal runs: what can really become of a board.                            *)

\* The board, its dependencies and its planning have their types throughout.
IdealTypeOK ==
  /\ board \in Boards
  /\ deps \in Dependencies
  /\ planned \in SUBSET Stories

\* Ideal runs only change statuses.
LEMMA IdealTypeCorrect == IdealSpec => []IdealTypeOK
<1>1. IdealInit => IdealTypeOK
  BY DEF IdealInit, IdealTypeOK
<1>2. IdealTypeOK /\ [IdealNext]_idealVars => IdealTypeOK'
  <2> SUFFICES ASSUME IdealTypeOK, [IdealNext]_idealVars PROVE IdealTypeOK'
    OBVIOUS
  <2>1. CASE \E s \in Stories : Finish(s)
    BY <2>1 DEF Finish, IdealTypeOK, Boards, StoryStatuses
  <2>2. CASE UNCHANGED idealVars
    BY <2>2 DEF idealVars, IdealTypeOK
  <2> QED
    BY <2>1, <2>2 DEF IdealNext
<1> QED
  BY <1>1, <1>2, PTL DEF IdealSpec

\* computeAliveStoryIds reaches the fixpoint of its rules in as many passes as
\* there are stories, and it is the least one: no cycle keeps itself alive.
THEOREM AliveCorrect == IdealSpec => []AliveIsLeastFixpoint
<1>1. IdealTypeOK => AliveIsLeastFixpoint
  <2> SUFFICES ASSUME IdealTypeOK PROVE AliveIsLeastFixpoint
    OBVIOUS
  <2> DEFINE alive == Alive(board, deps)
  <2>1. board \in Boards /\ alive \in SUBSET Stories
    BY AliveOnBoard DEF IdealTypeOK, Boards
  <2>2. AliveNext(board, deps, alive) \subseteq alive
    BY <2>1, AliveIsClosed
  <2>3. ASSUME NEW A \in SUBSET Stories, ClosedUnderAlive(A)
        PROVE  alive \subseteq A
    BY <2>1, <2>3, ClosedMeansSettled, AliveIsLeast
  <2>4. ClosedUnderAlive(alive)
    <3> HIDE DEF alive
    <3> QED
      BY <2>1, <2>2, ClosedMeansSettled
  <2> QED
    BY <2>3, <2>4 DEF AliveIsLeastFixpoint
<1> QED
  BY <1>1, IdealTypeCorrect, PTL

\* A successful run of a story already in progress makes no other story alive.
LEMMA FinishAddsNoAlive ==
  ASSUME IdealTypeOK, NEW s \in Stories,
         board[s] = "In Progress", DependsDone(board, deps, s), Finish(s)
  PROVE  /\ s \in Alive(board, deps)
         /\ Alive(board', deps) \subseteq Alive(board, deps)
<1> DEFINE A == Alive(board, deps)
<1>1. AliveNext(board, deps, A) = A
  BY AliveIsClosed DEF IdealTypeOK
<1>2. board' = [board EXCEPT ![s] = "Done"] /\ DOMAIN board = Stories
        /\ DOMAIN board' = Stories
  BY DEF Finish, IdealTypeOK, Boards
<1> HIDE DEF A
<1>3. s \in A
  <2>1. s \in AliveNext(board, deps, A)
    BY <1>2 DEF AliveNext, DependsDone
  <2> QED
    BY <1>1, <2>1
<1>4. AliveNext(board', deps, A) \subseteq A
  <2> SUFFICES ASSUME NEW t \in Stories, t \notin A,
                      \/ board'[t] = "Done"
                      \/ /\ board'[t] \in {"To Do", "In Progress"}
                         /\ \A d \in deps[t] : IsDone(board', d) \/ d \in A
               PROVE  FALSE
    BY <1>2 DEF AliveNext
  <2>1. t # s /\ board'[t] = board[t]
    BY <1>2, <1>3
  <2>2. \A d : IsDone(board', d) => IsDone(board, d) \/ d \in A
    BY <1>2, <1>3 DEF IsDone
  <2>3. t \in AliveNext(board, deps, A)
    BY <1>2, <2>1, <2>2 DEF AliveNext
  <2> QED
    BY <1>1, <2>3
<1>5. Alive(board', deps) \subseteq A
  BY <1>4, AliveIsLeast
<1> QED
  BY <1>3, <1>5 DEF A

\* Where no story is ready and none could become ready, that stays so.
LEMMA StopIsStable ==
  ASSUME IdealTypeOK, ~HasWork(board, deps, planned, {}), [IdealNext]_idealVars
  PROVE  ~HasWork(board, deps, planned, {})'
<1> DEFINE A == Alive(board, deps)
<1>1. \A t \in Stories : /\ ~Ready(board, deps, planned, t)
                         /\ ~CouldBecomeReadyViaDepends(board, deps, planned, t)
  BY DEF HasWork, Targets, CouldBecomeReady, IdealTypeOK, Boards
<1>2. CASE UNCHANGED idealVars
  <2>1. board' = board /\ deps' = deps /\ planned' = planned
    BY <1>2 DEF idealVars
  <2> QED
    BY <2>1
<1>3. ASSUME NEW s \in Stories, Finish(s)
      PROVE  ~HasWork(board, deps, planned, {})'
  <2>1. board[s] = "In Progress" /\ DependsDone(board, deps, s)
    BY <1>1, <1>3 DEF Finish
  <2>2. board' = [board EXCEPT ![s] = "Done"] /\ deps' = deps /\ planned' = planned
    BY <1>3 DEF Finish
  <2>3. DOMAIN board = Stories /\ DOMAIN board' = Stories
    BY <2>2 DEF IdealTypeOK, Boards
  <2>4. s \in A /\ Alive(board', deps) \subseteq A
    BY <1>3, <2>1, FinishAddsNoAlive
  <2>5. \A d : IsDone(board, d) => IsDone(board', d)
    BY <2>2, <2>3 DEF IsDone
  <2>6. \A d : IsDone(board', d) => IsDone(board, d) \/ d \in A
    BY <2>2, <2>3, <2>4 DEF IsDone
  <2>7. \A t \in Stories : board'[t] = "To Do" => board[t] = "To Do"
    BY <2>2, <2>3
  <2>8. ASSUME NEW t \in Stories, board'[t] = "To Do", t \in planned,
               \A d \in deps[t] : IsDone(board', d) \/ d \in Alive(board', deps)
        PROVE  FALSE
    <3>1. \A d \in deps[t] : IsDone(board, d) \/ d \in A
      BY <2>4, <2>6, <2>8
    <3>2. Ready(board, deps, planned, t)
            \/ CouldBecomeReadyViaDepends(board, deps, planned, t)
      BY <2>7, <2>8, <3>1 DEF Ready, CouldBecomeReadyViaDepends
    <3> QED
      BY <1>1, <3>2
  <2>9. \A t \in Stories : /\ ~Ready(board', deps, planned, t)
                           /\ ~CouldBecomeReadyViaDepends(board', deps, planned, t)
    BY <2>8 DEF Ready, CouldBecomeReadyViaDepends, DependsDone
  <2>10. ~HasWork(board', deps, planned, {})
    BY <2>3, <2>9 DEF HasWork, Targets, CouldBecomeReady, IsStaleInProgress
  <2> QED
    BY <2>2, <2>10
<1> QED
  BY <1>2, <1>3 DEF IdealNext

\* When the stop rule of #runLoop fires, no sequence of successful flow runs
\* would ever have made a story ready.
THEOREM StopCorrect == IdealSpec => StopIsFinal
<1> DEFINE Stopped  == ~HasWork(board, deps, planned, {})
           NoneReady == \A s \in Stories : ~Ready(board, deps, planned, s)
<1>1. IdealTypeOK /\ Stopped => NoneReady
  BY DEF HasWork, Targets, IdealTypeOK, Boards
<1>2. IdealTypeOK /\ Stopped /\ [IdealNext]_idealVars => Stopped'
  BY StopIsStable
<1> HIDE DEF Stopped, NoneReady
<1>3. IdealSpec => [](Stopped => []NoneReady)
  BY <1>1, <1>2, IdealTypeCorrect, PTL DEF IdealSpec
<1> QED
  BY <1>3 DEF StopIsFinal, Stopped, NoneReady

\* Where every story is planned properly and one waits for others that could
\* still be done, a flow run can finish some story: no cycle of waiting stories
\* is taken for work.
THEOREM WaitingIsNotStuck ==
  ASSUME IdealTypeOK, planned = Stories,
         NEW s \in Stories, CouldBecomeReadyViaDepends(board, deps, planned, s)
  PROVE  \E t \in Stories :
           \/ Ready(board, deps, planned, t)
           \/ board[t] = "In Progress" /\ DependsDone(board, deps, t)
<1> SUFFICES ASSUME \A t \in Stories :
                      /\ ~Ready(board, deps, planned, t)
                      /\ ~(board[t] = "In Progress" /\ DependsDone(board, deps, t))
             PROVE  FALSE
  OBVIOUS
<1> DEFINE D == {t \in Stories : board[t] = "Done"}
<1>1. DOMAIN board = Stories
  BY DEF IdealTypeOK, Boards
<1>2. \A d : d \in D <=> IsDone(board, d)
  BY <1>1 DEF IsDone
<1>3. AliveNext(board, deps, D) \subseteq D
  BY <1>1, <1>2 DEF AliveNext, Ready, DependsDone
<1>4. Alive(board, deps) \subseteq D
  BY <1>3, AliveIsLeast
<1> QED
  BY <1>2, <1>4 DEF CouldBecomeReadyViaDepends, DependsDone

\* A flow run that finishes a story leaves fewer stories open, and a story that
\* waited for others still waits for stories that can be done, or is ready.
THEOREM WaitingGetsNearer ==
  ASSUME IdealTypeOK, IdealNext,
         NEW s \in Stories, CouldBecomeReadyViaDepends(board, deps, planned, s)
  PROVE  /\ Cardinality({t \in Stories : board'[t] # "Done"})
              < Cardinality({t \in Stories : board[t] # "Done"})
         /\ \/ CouldBecomeReadyViaDepends(board', deps', planned', s)
            \/ Ready(board', deps', planned', s)
<1> DEFINE A == Alive(board', deps)
           Open == {t \in Stories : board[t] # "Done"}
           OpenThen == {t \in Stories : board'[t] # "Done"}
<1>1. PICK f \in Stories : Finish(f)
  BY DEF IdealNext
<1>2. board' = [board EXCEPT ![f] = "Done"] /\ deps' = deps /\ planned' = planned
  BY <1>1 DEF Finish
<1>3. DOMAIN board = Stories /\ DOMAIN board' = Stories /\ board' \in Boards
  BY <1>2 DEF IdealTypeOK, Boards, StoryStatuses
<1>4. board[f] \in {"To Do", "In Progress"} /\ DependsDone(board, deps, f)
  BY <1>1 DEF Finish, Ready
<1>5. Cardinality(OpenThen) < Cardinality(Open)
  <2>1. OpenThen = Open \ {f} /\ f \in Open
    BY <1>2, <1>3, <1>4
  <2>2. IsFiniteSet(Open)
    BY StoriesAreFinite, FS_Subset
  <2>3. Cardinality(Open) \in Nat /\ Cardinality(Open \ {f}) = Cardinality(Open) - 1
    BY <2>1, <2>2, FS_RemoveElement, FS_CardinalityType
  <2> QED
    BY <2>1, <2>3
<1>6. \A d : IsDone(board, d) => IsDone(board', d)
  BY <1>2, <1>3 DEF IsDone
<1>7. Alive(board, deps) \subseteq A
  <2>1. AliveNext(board', deps, A) = A
    BY <1>3, AliveIsClosed
  <2> HIDE DEF A
  <2>2. ASSUME NEW t \in AliveNext(board, deps, A)
        PROVE  t \in AliveNext(board', deps, A)
    <3>1. CASE t = f
      BY <1>2, <1>3, <3>1 DEF AliveNext
    <3>2. CASE t # f
      BY <1>2, <1>3, <1>6, <3>2 DEF AliveNext
    <3> QED
      BY <3>1, <3>2
  <2> QED
    BY <2>1, <2>2, AliveIsLeast
<1>8. s # f
  BY <1>1, <1>4 DEF CouldBecomeReadyViaDepends
<1>9. board'[s] = "To Do" /\ s \in planned
        /\ \A d \in deps[s] : IsDone(board', d) \/ d \in A
  BY <1>2, <1>3, <1>6, <1>7, <1>8 DEF CouldBecomeReadyViaDepends
<1>10. \/ CouldBecomeReadyViaDepends(board', deps, planned, s)
       \/ Ready(board', deps, planned, s)
  BY <1>9 DEF CouldBecomeReadyViaDepends, Ready
<1> QED
  BY <1>2, <1>5, <1>10
=============================================================================
