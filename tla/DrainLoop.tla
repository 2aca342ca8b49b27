------------------------------ MODULE DrainLoop ------------------------------
(***************************************************************************)
(* ProjectDrain.#runLoop: one drain session works through one board by     *)
(* repeated flow runs, judges every run by the change between two scans,   *)
(* escalates targets that do not move to "Blocked" and stops for one of    *)
(* several reasons.                                                        *)
(*                                                                         *)
(* A scan reads the working tree of the clone or, if the fetched origin is *)
(* strictly ahead, the remote-tracking ref.  Flow runs, users and other    *)
(* sessions change both boards at any time.                                *)
(***************************************************************************)
EXTENDS DrainTargets

CONSTANTS
  Depends,             \* dependencies of the stories
  Planned,             \* stories that meet the planning rules of ready
  EscalationAttempts,  \* setting escalationAttempts
  SafetyMax,           \* safetyMaxNoProgressRounds
  Faults,              \* what may fail: "fetch", "ref", "read", "limit", "write"
  MaxRounds,           \* bound: rounds of the session
  MaxChanges           \* bound: changes of the boards by others

ASSUME LoopAssumption ==
  /\ Depends \in Dependencies
  /\ Planned \subseteq Stories
  /\ EscalationAttempts \in Nat \ {0}
  /\ SafetyMax \in Nat \ {0}
  /\ Faults \subseteq {"fetch", "ref", "read", "limit", "write"}
  /\ MaxRounds \in Nat
  /\ MaxChanges \in Nat

Sources == {"working-tree", "origin-ref"}

\* "scan-failed" is missing: it needs an aggregator that throws or returns no
\* array, and BoardAggregator does neither
Reasons ==
  {"none", "aborted", "no-drain-target", "command-channel-busy", "budget-stop",
   "budget-window-end", "escalation-ineffective", "safety-stop-no-progress"}

VARIABLES
  boards,       \* the board in the working tree and at origin
  ahead,        \* origin is strictly ahead of the clone's HEAD
  aged,         \* stories whose updated_at is old
  changes,      \* number of changes by others so far
  pc,           \* "top" of the loop, "run", "write" of an escalation, "end"
  reason,       \* result.reason
  before,       \* the scan at the start of the round
  after,        \* the scan after its flow run, on which a write rests
  initial,      \* initialStatuses, which the report starts from
  round,
  lastChange,   \* lastChangeRound, 0 where the map has no entry
  consecutive,  \* consecutiveNoProgress
  total,        \* totalNoProgressRounds
  attempted,    \* escalationAttempted
  escalated,    \* result.escalated
  victim,       \* the story about to be written "Blocked"
  report,       \* result.completed and result.blocked
  calm,         \* history: nothing has changed the boards since the last scan
                \* of a round: `before` its run, and `after` once it is judged
  quietRuns     \* history: judged runs since the boards last changed in a run

boardVars == <<boards, ahead, aged, changes>>
counters  == <<consecutive, total>>
result    == <<reason, report>>
vars == <<boardVars, pc, result, before, after, initial, round, lastChange,
          counters, attempted, escalated, victim, calm, quietRuns>>

\* the statuses of the stories that a scan has read
Statuses == UNION {[read -> StoryStatuses] : read \in SUBSET Stories}

NoStatuses == [s \in {Missing} |-> "Done"]     \* null

\* A scan.  `misled` is history: a git error hid that origin is ahead.
Scans == [source   : Sources,
          verified : BOOLEAN,
          misled   : BOOLEAN,
          board    : Statuses,
          planned  : SUBSET Stories]

TypeOK ==
  /\ boards \in [Sources -> Boards]
  /\ ahead \in BOOLEAN
  /\ aged \in SUBSET Stories
  /\ changes \in 0..MaxChanges
  /\ pc \in {"top", "run", "write", "end"}
  /\ reason \in Reasons
  /\ before \in Scans
  /\ after \in Scans
  /\ initial \in Statuses \cup {NoStatuses}
  /\ round \in 0..MaxRounds
  /\ lastChange \in [Stories -> 0..MaxRounds]
  /\ consecutive \in 0..EscalationAttempts
  /\ total \in 0..SafetyMax
  /\ attempted \in SUBSET Stories
  /\ escalated \in SUBSET Stories
  /\ victim \in Stories \cup {Missing}
  /\ report \in [completed : SUBSET Stories, blocked : SUBSET Stories]
  /\ calm \in BOOLEAN
  /\ quietRuns \in Nat

Scan(source, verified, misled, board, planned) ==
  [source |-> source, verified |-> verified, misled |-> misled,
   board |-> board, planned |-> planned]

NoScan == Scan("origin-ref", FALSE, FALSE, NoBoard, {})

\* #syncCloneToOrigin has fast-forwarded the clone, or was skipped because the
\* origin could not be fetched
Init ==
  /\ boards \in [Sources -> Boards]
  /\ ahead \in BOOLEAN
  /\ \/ "fetch" \in Faults
     \/ ~ahead /\ boards["working-tree"] = boards["origin-ref"]
  /\ aged = {}
  /\ changes = 0
  /\ pc = "top"
  /\ reason = "none"
  /\ before = NoScan
  /\ after = NoScan
  /\ initial = NoStatuses
  /\ round = 0
  /\ lastChange = [s \in Stories |-> 0]
  /\ consecutive = 0
  /\ total = 0
  /\ attempted = {}
  /\ escalated = {}
  /\ victim = Missing
  /\ report = [completed |-> {}, blocked |-> {}]
  /\ calm = TRUE
  /\ quietRuns = 0

-----------------------------------------------------------------------------
(* Scans: #findProject.                                                    *)

\* The stories that a scan finds and, of the planned ones, those it can judge.  No
\* error here is an error of the scan: a board.yaml that is missing or does not
\* parse leaves a project without stories, files and directories that cannot be
\* read are skipped, and a story whose spec cannot be read is not ready.
Found     == IF "read" \in Faults THEN SUBSET Stories ELSE {Stories}
Judgeable == IF "read" \in Faults THEN SUBSET Planned ELSE {Planned}

Reading(source, verified, misled, found, known) ==
  Scan(source, verified, misled, [s \in found |-> boards[source][s]], known \cap found)

Readings(source, verified, misled) ==
  {Reading(source, verified, misled, found, known) :
     found \in Found, known \in Judgeable}

WorkingTreeScans(verified) == Readings("working-tree", verified, verified /\ ahead)

\* through readFileAtRef and listFilesAtRef, which answer a git error with
\* "no such file" and "no files"
OriginScans == Readings("origin-ref", TRUE, FALSE)

\* every scan that #findProject may return now; a git error while the truth ref
\* is resolved counts as "not ahead"
FindProject ==
  (IF ahead THEN OriginScans ELSE {})
    \cup (IF ~ahead \/ "ref" \in Faults THEN WorkingTreeScans(TRUE) ELSE {})
    \cup (IF "fetch" \in Faults THEN WorkingTreeScans(FALSE) ELSE {})

TargetsOf(scan) == Targets(scan.board, Depends, scan.planned, aged)

HasWorkIn(scan) == HasWork(scan.board, Depends, scan.planned, aged)

\* what a snapshot holds of a story: status and readiness
Entry(scan, s) ==
  IF s \in DOMAIN scan.board
  THEN <<scan.board[s], Ready(scan.board, Depends, scan.planned, s)>>
  ELSE <<>>

Moved(s, scan1, scan2) == Entry(scan1, s) # Entry(scan2, s)

Progressed(scan1, scan2) == \E s \in Stories : Moved(s, scan1, scan2)

\* the initial statuses are those of the first scan of the session
Begun(scan) == IF initial = NoStatuses THEN scan.board ELSE initial

\* computeCompletedBlocked
Report(from, to) ==
  LET known == DOMAIN to.board \cap DOMAIN from
      Became(status) == {s \in known : from[s] # status /\ to.board[s] = status}
  IN  [completed |-> Became("Done"), blocked |-> Became("Blocked")]

NoReport == [completed |-> {}, blocked |-> {}]

-----------------------------------------------------------------------------
(* The loop.  Between `top` and the start of a flow run the code awaits    *)
(* nothing that uses the boards again, so scan and decision are one step.  *)

End(why, what) ==
  /\ pc' = "end"
  /\ reason' = why
  /\ report' = what

Abort(scan) ==
  /\ pc = "top"
  /\ End("aborted", Report(initial, scan))
  /\ UNCHANGED <<boardVars, before, after, initial, round, lastChange, counters,
                 attempted, escalated, victim, calm, quietRuns>>

StopWithoutWork(scan) ==
  /\ pc = "top"
  /\ ~HasWorkIn(scan)
  /\ initial' = Begun(scan)
  /\ End("no-drain-target", Report(initial', scan))
  /\ UNCHANGED <<boardVars, before, after, round, lastChange, counters,
                 attempted, escalated, victim, calm, quietRuns>>

\* checkProactive asks for a pause; it ends by itself or with the window
ProactivePause(scan, resumed) ==
  /\ pc = "top"
  /\ "limit" \in Faults
  /\ HasWorkIn(scan)
  /\ initial' = Begun(scan)
  /\ IF resumed
     THEN UNCHANGED <<pc, reason, report>>
     ELSE \E why \in {"budget-stop", "budget-window-end"} :
            End(why, Report(initial', scan))
  /\ UNCHANGED <<boardVars, before, after, round, lastChange, counters,
                 attempted, escalated, victim, calm, quietRuns>>

\* another project or the feature button holds the channel: no run took place
ChannelBusy(scan) ==
  /\ pc = "top"
  /\ HasWorkIn(scan)
  /\ initial' = Begun(scan)
  /\ End("command-channel-busy", NoReport)
  /\ UNCHANGED <<boardVars, before, after, round, lastChange, counters,
                 attempted, escalated, victim, calm, quietRuns>>

StartRun(scan) ==
  /\ pc = "top"
  /\ HasWorkIn(scan)
  /\ round < MaxRounds
  /\ pc' = "run"
  /\ initial' = Begun(scan)
  /\ before' = scan
  /\ round' = round + 1
  /\ lastChange' = [s \in Stories |->
       IF lastChange[s] = 0 /\ s \in TargetsOf(scan) THEN round' ELSE lastChange[s]]
  /\ calm' = TRUE
  /\ UNCHANGED <<boardVars, result, after, counters, attempted, escalated,
                 victim, quietRuns>>

\* the flow run ends 'budget-limited': wait for the reset (or not, without a
\* reset time) and scan afresh, or end with the night window
LimitedRun(scan, resumed) ==
  /\ pc = "run"
  /\ "limit" \in Faults
  /\ IF resumed
     THEN pc' = "top" /\ UNCHANGED result
     ELSE End("budget-window-end", Report(initial, scan))
  /\ before' = NoScan
  /\ UNCHANGED <<boardVars, after, initial, round, lastChange, counters,
                 attempted, escalated, victim, calm, quietRuns>>

\* lastChangeRound after a run that ended with this scan
MoveRounds(scan) ==
  [s \in Stories |->
     IF s \in DOMAIN scan.board /\ Moved(s, before, scan) THEN round
                                                          ELSE lastChange[s]]

\* a judged run, seen by the scan after it
Judged(scan) ==
  /\ pc = "run"
  /\ lastChange' = MoveRounds(scan)
  /\ before' = NoScan
  /\ quietRuns' = IF calm THEN quietRuns + 1 ELSE 0
  /\ calm' = TRUE
  /\ UNCHANGED <<boardVars, initial, round, escalated>>

Progress(scan) ==
  /\ Judged(scan)
  /\ Progressed(before, scan)
  /\ consecutive' = 0
  /\ total' = 0
  /\ pc' = "top"
  /\ UNCHANGED <<result, after, attempted, victim>>

\* no change seen, but the origin could not be fetched: nothing is counted
Unverified(scan) ==
  /\ Judged(scan)
  /\ ~Progressed(before, scan)
  /\ ~scan.verified
  /\ pc' = "top"
  /\ UNCHANGED <<counters, result, after, attempted, victim>>

\* mutant: the loop relies on the escalation alone to end it
BeltMissing(scan) == pc' = "top" /\ UNCHANGED result

\* the safety belt, at the end of a round without progress
Belt(scan) ==
  IF total' >= SafetyMax
  THEN End("safety-stop-no-progress", Report(initial, scan))
  ELSE pc' = "top" /\ UNCHANGED result

\* mutant: runs seen only by an unverified scan are counted too
NoProgressUnverified(scan) ==
  /\ Judged(scan)
  /\ ~Progressed(before, scan)
  /\ total' = total + 1

\* mutant: the belt counter forgets its rounds when the escalation counter does
NoProgressResets(scan) ==
  /\ Judged(scan)
  /\ ~Progressed(before, scan)
  /\ scan.verified
  /\ total' = IF consecutive = 0 THEN 1 ELSE total + 1

NoProgress(scan) ==
  /\ Judged(scan)
  /\ ~Progressed(before, scan)
  /\ scan.verified
  /\ total' = total + 1

\* fewer than escalationAttempts runs in a row, or nothing to escalate
NoEscalation(scan) ==
  /\ NoProgress(scan)
  /\ \/ /\ consecutive + 1 < EscalationAttempts
        /\ consecutive' = consecutive + 1
     \/ /\ consecutive + 1 >= EscalationAttempts
        /\ TargetsOf(scan) = {}
        /\ consecutive' = 0
  /\ Belt(scan)
  /\ UNCHANGED <<after, attempted, victim>>

Candidates(scan) == LongestUnmoved(TargetsOf(scan), MoveRounds(scan), attempted)

\* a victim is chosen; in origin-ref mode nothing is written
Escalate(scan) ==
  /\ NoProgress(scan)
  /\ consecutive + 1 >= EscalationAttempts
  /\ \E s \in Candidates(scan) :
       /\ attempted' = attempted \cup {s}
       /\ IF scan.source = "origin-ref"
          THEN consecutive' = 0 /\ Belt(scan) /\ UNCHANGED <<after, victim>>
          ELSE /\ pc' = "write"
               /\ after' = scan
               /\ victim' = s
               /\ UNCHANGED <<consecutive, result>>

EscalationIneffective(scan) ==
  /\ NoProgress(scan)
  /\ consecutive + 1 >= EscalationAttempts
  /\ TargetsOf(scan) # {}
  /\ Candidates(scan) = {}
  /\ End("escalation-ineffective", Report(initial, scan))
  /\ UNCHANGED <<consecutive, after, attempted, victim>>

\* BoardWriter.setBlocked overwrites whatever status the file has by now
WriteBlocked(ok) ==
  /\ pc = "write"
  /\ ok \/ "write" \in Faults
  /\ IF ok
     THEN /\ boards' = [boards EXCEPT !["working-tree"][victim] = "Blocked"]
          /\ aged' = aged \ {victim}
          /\ escalated' = escalated \cup {victim}
          /\ lastChange' = [lastChange EXCEPT ![victim] = 0]
     ELSE UNCHANGED <<boards, aged, escalated, lastChange>>
  /\ victim' = Missing
  /\ consecutive' = 0
  /\ UNCHANGED total
  /\ Belt(after)
  /\ after' = NoScan
  /\ UNCHANGED <<ahead, changes, before, initial, round, attempted,
                 calm, quietRuns>>

-----------------------------------------------------------------------------
(* Everybody else: the flow runs themselves, users, other sessions.        *)

Others ==
  /\ pc # "end"
  /\ changes < MaxChanges
  /\ changes' = changes + 1
  /\ calm' = FALSE
  /\ UNCHANGED <<pc, result, before, after, initial, round, lastChange, counters,
                 attempted, escalated, victim, quietRuns>>

\* a story changes in the working tree
WorkInClone(s, status) ==
  /\ Others
  /\ boards["working-tree"][s] # status
  /\ boards' = [boards EXCEPT !["working-tree"][s] = status]
  /\ aged' = aged \ {s}
  /\ UNCHANGED ahead

\* a pull request lands at origin; unless the clone has commits of its own,
\* origin is now strictly ahead
LandAtOrigin(s, status) ==
  /\ Others
  /\ boards["origin-ref"][s] # status
  /\ boards' = [boards EXCEPT !["origin-ref"][s] = status]
  /\ aged' = aged \ {s}
  /\ ahead' \in BOOLEAN

\* fast-forward or push: clone and origin agree
Synchronise(src) ==
  /\ Others
  /\ boards["working-tree"] # boards["origin-ref"]
  /\ boards' = [other \in Sources |-> boards[src]]
  /\ ahead' = FALSE
  /\ UNCHANGED aged

\* four hours pass without an update of the story
Age(s) ==
  /\ pc # "end"
  /\ s \notin aged
  /\ \E src \in Sources : boards[src][s] = "In Progress"
  /\ aged' = aged \cup {s}
  /\ UNCHANGED <<boards, ahead, changes, pc, result, before, after, initial, round,
                 lastChange, counters, attempted, escalated, victim, calm, quietRuns>>

-----------------------------------------------------------------------------
AtTop(scan) ==
  \/ Abort(scan)
  \/ ChannelBusy(scan)
  \/ \E resumed \in BOOLEAN : ProactivePause(scan, resumed)

Decide(scan) == StopWithoutWork(scan) \/ StartRun(scan)

AfterRun(scan) ==
  \/ \E resumed \in BOOLEAN : LimitedRun(scan, resumed)
  \/ Progress(scan)
  \/ Unverified(scan)
  \/ NoEscalation(scan)
  \/ Escalate(scan)
  \/ EscalationIneffective(scan)

Write == \E ok \in BOOLEAN : WriteBlocked(ok)

LoopStep ==
  \/ \E scan \in FindProject : AtTop(scan) \/ Decide(scan) \/ AfterRun(scan)
  \/ Write

Environment ==
  \/ \E s \in Stories, status \in StoryStatuses :
       WorkInClone(s, status) \/ LandAtOrigin(s, status)
  \/ \E src \in Sources : Synchronise(src)
  \/ \E s \in Stories : Age(s)

Next == LoopStep \/ Environment

Spec == Init /\ [][Next]_vars

\* The event loop continues the drain and every flow run ends (its child is
\* killed at a timeout).  Nobody has to abort, to occupy the channel or to
\* change a board.
Fairness ==
  /\ WF_vars(\E scan \in FindProject : Decide(scan))
  /\ WF_vars(\E scan \in FindProject : AfterRun(scan))
  /\ WF_vars(Write)

FairSpec == Spec /\ Fairness

-----------------------------------------------------------------------------
(* Properties.                                                             *)

\* "Blocked" is never about to be written over a story that is Done in the clone
\* or at an origin ahead of it, whatever else fails - unless a board has changed
\* since the scan that the choice rests on, or a git error has hidden from that
\* scan that origin is ahead.
NoBlockOverDone ==
  pc = "write" /\ calm /\ ~after.misled
    => /\ boards["working-tree"][victim] # "Done"
       /\ ~(ahead /\ boards["origin-ref"][victim] = "Done")

\* A session writes "Blocked" at most once per story, even if somebody unblocks
\* the story meanwhile.
EscalatesOncePerStory ==
  [][pc = "run" /\ pc' = "write"
       => victim' \notin attempted \cup escalated]_vars

\* However the boards are changed between runs: after SafetyMax judged runs
\* during each of which nothing changed, the drain is over - as long as the
\* origin can be fetched and the boards can be read.
QuietRunsBounded ==
  Faults \subseteq {"limit", "write"} => quietRuns <= SafetyMax

\* With readable boards and finitely many changes by others, every drain ends.
DrainEnds == <>(pc = "end")

=============================================================================
