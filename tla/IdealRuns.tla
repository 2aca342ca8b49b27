------------------------------ MODULE IdealRuns ------------------------------
(***************************************************************************)
(* What can really become of a board: from every board over every          *)
(* dependency relation, ideal flow runs finish whatever the rules of       *)
(* `board next` let them finish.  The judgements of DrainTargets are       *)
(* measured against this.                                                  *)
(***************************************************************************)
EXTENDS DrainTargets

VARIABLES board, deps, planned

idealVars == <<board, deps, planned>>

IdealInit ==
  /\ board \in Boards
  /\ deps \in Dependencies
  /\ planned \in SUBSET Stories

\* a flow run takes a ready story to Done, or ends one already in progress
Finish(s) ==
  /\ \/ Ready(board, deps, planned, s)
     \/ board[s] = "In Progress" /\ DependsDone(board, deps, s)
  /\ board' = [board EXCEPT ![s] = "Done"]
  /\ UNCHANGED <<deps, planned>>

IdealNext == \E s \in Stories : Finish(s)

IdealSpec     == IdealInit /\ [][IdealNext]_idealVars
FairIdealSpec == IdealSpec /\ WF_idealVars(IdealNext)

-----------------------------------------------------------------------------
ClosedUnderAlive(A) ==
  \A s \in Stories :
    \/ s \in A
    \/ board[s] = "Blocked"
    \/ /\ board[s] # "Done"
       /\ \E d \in deps[s] : ~IsDone(board, d) /\ d \notin A

\* computeAliveStoryIds returns the least set closed under its rules, so that
\* its loop has reached the fixpoint and no cycle keeps itself alive.
AliveIsLeastFixpoint ==
  LET alive == Alive(board, deps)
  IN  /\ ClosedUnderAlive(alive)
      /\ \A A \in SUBSET Stories : ClosedUnderAlive(A) => alive \subseteq A

\* When the stop rule of the drain fires, no sequence of successful runs would
\* ever have made a story ready: the drain leaves no feasible work behind.
StopIsFinal ==
  [](~HasWork(board, deps, planned, {})
       => [](\A s \in Stories : ~Ready(board, deps, planned, s)))

\* Where every story is planned properly, a story the drain waits for becomes
\* ready after finitely many successful runs.
PlannedWaitingEnds ==
  \A s \in Stories :
    (planned = Stories /\ CouldBecomeReadyViaDepends(board, deps, planned, s))
      ~> (Ready(board, deps, planned, s) \/ board[s] = "Done")
=============================================================================
