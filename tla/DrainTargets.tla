---------------------------- MODULE DrainTargets ----------------------------
(***************************************************************************)
(* The pure functions by which ProjectDrain judges one scan of a board:    *)
(* which stories are drain targets, whether a waiting story could still    *)
(* become ready, and which target is to be escalated.                      *)
(*                                                                         *)
(* A board b maps the stories a scan found to their status.  Statuses that *)
(* the code treats alike ("Blocked", "Idee", "Waiting", ...) are "Blocked".*)
(***************************************************************************)
EXTENDS Naturals, FiniteSets

CONSTANT NStories    \* stories are numbered in the order of their ids

ASSUME StoriesAssumption == NStories \in Nat \ {0}

Stories == 1..NStories
Missing == 0         \* an id in `depends` that no story has

StoryStatuses == {"To Do", "In Progress", "Blocked", "Done"}
Boards        == [Stories -> StoryStatuses]
NoBoard       == [s \in {} |-> "Done"]     \* a project without a readable board

Dependencies == [Stories -> SUBSET (Stories \cup {Missing})]

IsDone(b, s) == s \in DOMAIN b /\ b[s] = "Done"

DependsDone(b, deps, s) == \A d \in deps[s] : IsDone(b, d)

\* computeStoryReadyStatus; `planned` are the stories that meet its other
\* rules: active spec, known acceptance criteria, no blocked_reason
Ready(b, deps, planned, s) ==
  /\ b[s] = "To Do"
  /\ s \in planned
  /\ DependsDone(b, deps, s)

\* `aged` are the stories not updated for staleInProgressHours
IsStaleInProgress(b, aged, s) == b[s] = "In Progress" /\ s \in aged

Targets(b, deps, planned, aged) ==
  {s \in DOMAIN b : Ready(b, deps, planned, s) \/ IsStaleInProgress(b, aged, s)}

\* mutant: a story counts as alive whatever its status
AliveNextAnyStatus(b, deps, alive) ==
  alive \cup {s \in DOMAIN b : \A d \in deps[s] : IsDone(b, d) \/ d \in alive}

\* mutant: the pass adds stories of which one dependency is alive
AliveNextSomeDepend(b, deps, alive) ==
  alive \cup
  {s \in DOMAIN b :
     \/ b[s] = "Done"
     \/ /\ b[s] \in {"To Do", "In Progress"}
        /\ deps[s] = {} \/ \E d \in deps[s] : IsDone(b, d) \/ d \in alive}

\* one pass of the fixpoint loop of computeAliveStoryIds
AliveNext(b, deps, alive) ==
  alive \cup
  {s \in DOMAIN b :
     \/ b[s] = "Done"
     \/ /\ b[s] \in {"To Do", "In Progress"}
        /\ \A d \in deps[s] : IsDone(b, d) \/ d \in alive}

\* mutant: only the direct predecessors are looked at (the former single hop)
AliveSingleHop(b, deps) == AliveNext(b, deps, {})

\* computeAliveStoryIds: every pass but the last adds a story
Alive(b, deps) ==
  LET pass[n \in 0..NStories] ==
        IF n = 0 THEN {} ELSE AliveNext(b, deps, pass[n - 1])
  IN  pass[NStories]

CouldBecomeReadyViaDepends(b, deps, planned, s) ==
  /\ b[s] = "To Do"
  /\ s \in planned
  /\ ~DependsDone(b, deps, s)
  /\ \A d \in deps[s] : IsDone(b, d) \/ d \in Alive(b, deps)

CouldBecomeReady(b, deps, planned) ==
  \E s \in DOMAIN b : CouldBecomeReadyViaDepends(b, deps, planned, s)

\* the negation of the stop rule of #runLoop
HasWork(b, deps, planned, aged) ==
  Targets(b, deps, planned, aged) # {} \/ CouldBecomeReady(b, deps, planned)

\* pickLongestUnmovedTarget: the candidates that may be returned (at most one)
LongestUnmoved(targets, lastChange, attempted) ==
  LET candidates == targets \ attempted
  IN  {s \in candidates : \A t \in candidates :
         \/ lastChange[s] < lastChange[t]
         \/ lastChange[s] = lastChange[t] /\ s <= t}
=============================================================================
