------------------------ MODULE CommandSessionProofs ------------------------
(***************************************************************************)
(* What holds of CommandSession for every set of projects, every cap and   *)
(* every number of restarts.                                               *)
(***************************************************************************)
EXTENDS CommandSession, FiniteSetTheorems, TLAPS

\* the session without a project is never closed
GlobalInv == session[Global] # "none"

IInv ==
  /\ TypeOK
  /\ LockFollowsCommand
  /\ HoldFollowsCommand
  /\ HeldSessionLives
  /\ GlobalInv
  /\ CapHolds

-----------------------------------------------------------------------------
LEMMA OpenIsFinite == IsFiniteSet(Open) /\ Cardinality(Open) \in Nat
<1>1. Open \subseteq Projects /\ IsFiniteSet(Projects)
  BY SessionAssumption DEF Open
<1>2. QED
  BY <1>1, FS_Subset, FS_CardinalityType

LEMMA InitInv == Init => IInv
<1> SUFFICES ASSUME Init PROVE IInv
  OBVIOUS
<1>1. TypeOK
  <2>1. 0 \in 0..RestartMax /\ Global \in Keys
    BY SessionAssumption DEF Keys
  <2>2. session \in [Keys -> {"none", "live", "failed"}] /\ recent \in [Keys -> 0..RestartMax]
    BY <2>1 DEF Init
  <2>3. QED
    BY <2>1, <2>2 DEF Init, TypeOK, Timer
<1>2. LockFollowsCommand /\ HoldFollowsCommand /\ HeldSessionLives /\ GlobalInv
  BY DEF Init, LockFollowsCommand, HoldFollowsCommand, HeldSessionLives, GlobalInv,
         Running, Keys
<1>3. CapHolds
  <2>1. Open = {}
    BY SessionAssumption DEF Init, Open, Keys
  <2>2. QED
    BY <2>1, FS_EmptySet, SessionAssumption DEF CapHolds
<1>4. QED
  BY <1>1, <1>2, <1>3 DEF IInv

-----------------------------------------------------------------------------
(* Sessions.                                                               *)

\* Spawning touches one session, which has an entry afterwards.
LEMMA SpawnTypes ==
  ASSUME TypeOK, NEW k \in Keys, NEW least \in Nat, Spawn(k, least)
  PROVE  /\ session' \in [Keys -> {"none", "live", "failed"}]
         /\ recent' \in [Keys -> 0..RestartMax]
         /\ session'[k] # "none"
         /\ \A j \in Keys : j # k => session'[j] = session[j]
<1>1. CASE \E n \in least..RestartMax :
             /\ session' = [session EXCEPT ![k] = "live"]
             /\ recent' = [recent EXCEPT ![k] = n]
  BY <1>1, SessionAssumption DEF TypeOK
<1>2. CASE /\ session' = [session EXCEPT ![k] = "failed"]
           /\ recent' = [recent EXCEPT ![k] = RestartMax]
  BY <1>2, SessionAssumption DEF TypeOK
<1>3. QED
  BY <1>1, <1>2 DEF Spawn

\* getOrCreate closes nothing, opens at most the session it is asked for and
\* respects the cap.
LEMMA GetOrCreateKeeps ==
  ASSUME TypeOK, CapHolds, NEW k \in Keys, GetOrCreate(k), GlobalInv
  PROVE  /\ session' \in [Keys -> {"none", "live", "failed"}]
         /\ recent' \in [Keys -> 0..RestartMax]
         /\ timer' \in [Projects -> Timer]
         /\ session'[k] # "none"
         /\ \A j \in Keys : session[j] # "none" => session'[j] # "none"
         /\ CapHolds'
<1>1. CASE k = Global /\ UNCHANGED <<session, recent, timer>>
  BY <1>1 DEF TypeOK, CapHolds, Open, GlobalInv
<1>2. CASE k \in Projects /\ session[k] # "none" /\ ResetIdleTimer(k) /\ UNCHANGED sessionVars
  BY <1>2 DEF TypeOK, CapHolds, Open, ResetIdleTimer, sessionVars, Timer
<1>3. CASE k \in Projects /\ OpenSession(k)
  <2>1. session[k] = "none" /\ Cardinality(Open) < Cap /\ Spawn(k, 0) /\ ResetIdleTimer(k)
    BY <1>3 DEF OpenSession
  <2>2. /\ session' \in [Keys -> {"none", "live", "failed"}]
        /\ recent' \in [Keys -> 0..RestartMax]
        /\ session'[k] # "none"
        /\ \A j \in Keys : j # k => session'[j] = session[j]
    BY <2>1, SpawnTypes
  <2>3. timer' \in [Projects -> Timer]
    BY <2>1 DEF TypeOK, ResetIdleTimer, Timer
  <2>4. Open' = Open \cup {k} /\ k \notin Open
    BY <1>3, <2>1, <2>2 DEF Open, Keys
  <2>5. Cardinality(Open') = Cardinality(Open) + 1
    BY <2>4, OpenIsFinite, FS_AddElement
  <2>6. CapHolds'
    BY <2>1, <2>5, OpenIsFinite, SessionAssumption DEF CapHolds
  <2>7. QED
    BY <2>1, <2>2, <2>3, <2>6
<1>4. QED
  BY <1>1, <1>2, <1>3 DEF GetOrCreate

LEMMA TryRunKeepsInv ==
  ASSUME IInv, NEW k \in Keys, TryRun(k) \/ Connect(k)
  PROVE  IInv'
<1>1. GetOrCreate(k) /\ (Accept(k) \/ UNCHANGED jobVars)
  BY DEF TryRun, Connect
<1>2. /\ session' \in [Keys -> {"none", "live", "failed"}]
      /\ recent' \in [Keys -> 0..RestartMax]
      /\ timer' \in [Projects -> Timer]
      /\ session'[k] # "none"
      /\ \A j \in Keys : session[j] # "none" => session'[j] # "none"
      /\ CapHolds'
  BY <1>1, GetOrCreateKeeps DEF IInv
<1>3. GlobalInv'
  BY <1>2 DEF IInv, GlobalInv, Keys
<1>4. CASE Accept(k)
  <2>1. /\ ~lock /\ lock' = TRUE /\ status' = "running" /\ current' = k
        /\ holds' = holds \cup {k} /\ idle' = "armed"
    BY <1>4 DEF Accept
  <2>2. TypeOK'
    BY <1>2, <2>1 DEF IInv, TypeOK, Timer
  <2>3. LockFollowsCommand'
    BY <2>1 DEF LockFollowsCommand, Running
  <2>4. holds = {}
    BY <2>1 DEF IInv, LockFollowsCommand, HoldFollowsCommand
  <2>5. HoldFollowsCommand' /\ HeldSessionLives'
    BY <1>2, <2>1, <2>4 DEF HoldFollowsCommand, HeldSessionLives, Running
  <2>6. QED
    BY <1>2, <1>3, <2>2, <2>3, <2>5 DEF IInv
<1>5. CASE UNCHANGED jobVars
  <2>1. TypeOK'
    BY <1>2, <1>5 DEF IInv, TypeOK, jobVars
  <2>2. LockFollowsCommand' /\ HoldFollowsCommand'
    BY <1>5 DEF IInv, LockFollowsCommand, HoldFollowsCommand, Running, jobVars
  <2>3. HeldSessionLives'
    BY <1>2, <1>5 DEF IInv, TypeOK, HeldSessionLives, Running, jobVars
  <2>4. QED
    BY <1>2, <1>3, <2>1, <2>2, <2>3 DEF IInv
<1>6. QED
  BY <1>1, <1>4, <1>5

\* A process that exits is restarted or given up; its entry stays.
LEMMA ExitKeepsInv ==
  ASSUME IInv, NEW k \in Keys, Exit(k)
  PROVE  IInv'
<1>1. session[k] = "live" /\ Spawn(k, recent[k] + 1) /\ timer' = timer /\ UNCHANGED jobVars
  BY DEF Exit
<1>2. recent[k] + 1 \in Nat
  BY SessionAssumption DEF IInv, TypeOK
<1>3. /\ session' \in [Keys -> {"none", "live", "failed"}]
      /\ recent' \in [Keys -> 0..RestartMax]
      /\ session'[k] # "none"
      /\ \A j \in Keys : j # k => session'[j] = session[j]
  BY <1>1, <1>2, SpawnTypes DEF IInv
<1>4. \A j \in Keys : session'[j] # "none" <=> session[j] # "none"
  BY <1>1, <1>3
<1>5. TypeOK'
  BY <1>1, <1>3 DEF IInv, TypeOK, jobVars
<1>6. LockFollowsCommand' /\ HoldFollowsCommand'
  BY <1>1 DEF IInv, LockFollowsCommand, HoldFollowsCommand, Running, jobVars
<1>7. HeldSessionLives' /\ GlobalInv'
  BY <1>1, <1>4 DEF IInv, TypeOK, HeldSessionLives, GlobalInv, Running, jobVars, Keys
<1>8. CapHolds'
  <2>1. Open' = Open
    BY <1>4 DEF Open, Keys
  <2>2. QED
    BY <2>1 DEF IInv, CapHolds
<1>9. QED
  BY <1>5, <1>6, <1>7, <1>8 DEF IInv

\* Only a session without a job is closed.
LEMMA SessionIdleKeepsInv ==
  ASSUME IInv, NEW p \in Projects, SessionIdle(p)
  PROVE  IInv'
<1>1. UNCHANGED jobVars
  BY DEF SessionIdle
<1>2. LockFollowsCommand' /\ HoldFollowsCommand'
  BY <1>1 DEF IInv, LockFollowsCommand, HoldFollowsCommand, Running, jobVars
<1>3. CASE ResetIdleTimer(p) /\ UNCHANGED sessionVars
  <2>1. TypeOK'
    BY <1>1, <1>3 DEF IInv, TypeOK, ResetIdleTimer, sessionVars, jobVars, Timer
  <2>2. HeldSessionLives' /\ GlobalInv' /\ CapHolds'
    BY <1>1, <1>3 DEF IInv, HeldSessionLives, GlobalInv, CapHolds, Open, Running,
                      sessionVars, jobVars
  <2>3. QED
    BY <1>2, <2>1, <2>2 DEF IInv
<1>4. CASE p \notin holds /\ DestroySession(p)
  <2>1. TypeOK'
    <3>1. 0 \in 0..RestartMax /\ p \in Keys
      BY SessionAssumption DEF Keys
    <3>2. /\ session' \in [Keys -> {"none", "live", "failed"}]
          /\ recent' \in [Keys -> 0..RestartMax]
          /\ timer' \in [Projects -> Timer]
      BY <1>4, <3>1 DEF IInv, TypeOK, DestroySession, Timer
    <3>3. QED
      BY <1>1, <3>2 DEF IInv, TypeOK, jobVars
  <2>2. \A k \in Keys : k # p => session'[k] = session[k]
    BY <1>4 DEF IInv, TypeOK, DestroySession
  <2>3. HeldSessionLives'
    <3>1. Running => current # p
      BY <1>4 DEF IInv, HoldFollowsCommand
    <3>2. QED
      BY <1>1, <2>2, <3>1 DEF IInv, TypeOK, HeldSessionLives, Running, jobVars
  <2>4. GlobalInv'
    BY <2>2, SessionAssumption DEF IInv, GlobalInv, Keys
  <2>5. CapHolds'
    <3>1. Open' \subseteq Open
      BY <1>4 DEF IInv, TypeOK, DestroySession, Open, Keys
    <3>2. Cardinality(Open') \in Nat /\ Cardinality(Open') <= Cardinality(Open)
      BY <3>1, OpenIsFinite, FS_Subset, FS_CardinalityType
    <3>3. QED
      BY <3>2, OpenIsFinite, SessionAssumption DEF IInv, CapHolds
  <2>6. QED
    BY <1>2, <2>1, <2>3, <2>4, <2>5 DEF IInv
<1>5. QED
  BY <1>3, <1>4 DEF SessionIdle

-----------------------------------------------------------------------------
(* Commands.                                                               *)

\* The end of a command gives back the lock and the hold and closes nothing.
LEMMA EndKeepsInv ==
  ASSUME IInv, NEW s \in {"done", "cancelled"}, End(s), Running
  PROVE  IInv'
<1>1. /\ status' = s /\ idle' = "off" /\ lock' = FALSE
      /\ holds' = holds \ {current} /\ current' = Global
      /\ UNCHANGED sessionVars
  BY DEF End, ReleaseJobHold
<1>2. timer' \in [Projects -> Timer]
  BY DEF End, ReleaseJobHold, ResetIdleTimer, IInv, TypeOK, Timer
<1>3. TypeOK'
  BY <1>1, <1>2 DEF IInv, TypeOK, Keys, Timer, sessionVars
<1>4. LockFollowsCommand' /\ HoldFollowsCommand' /\ HeldSessionLives'
  BY <1>1 DEF IInv, LockFollowsCommand, HoldFollowsCommand, HeldSessionLives, Running
<1>5. GlobalInv' /\ CapHolds'
  BY <1>1 DEF IInv, GlobalInv, CapHolds, Open, sessionVars
<1>6. QED
  BY <1>3, <1>4, <1>5 DEF IInv

\* The quiet-period timer alone, or the window of restarts, concerns types only.
LEMMA ClocksKeepInv ==
  ASSUME IInv,
         \/ Output \/ QuietPeriod \/ CancelThrows
         \/ \E p \in Projects : TimeElapses(p)
         \/ \E k \in Keys : WindowPasses(k)
  PROVE  IInv'
<1>1. /\ session' = session /\ holds' = holds /\ lock' = lock /\ status' = status
      /\ current' = current
  BY DEF Output, QuietPeriod, CancelThrows, TimeElapses, WindowPasses, jobVars
<1>2. TypeOK'
  <2>1. CASE Output \/ QuietPeriod \/ CancelThrows
    BY <2>1 DEF Output, QuietPeriod, CancelThrows, IInv, TypeOK, Timer
  <2>2. CASE \E p \in Projects : TimeElapses(p)
    BY <2>2 DEF TimeElapses, IInv, TypeOK, Timer, jobVars
  <2>3. CASE \E k \in Keys : WindowPasses(k)
    <3>1. PICK k \in Keys : WindowPasses(k)
      BY <2>3
    <3>2. recent[k] \in 0..RestartMax /\ recent[k] > 0
      BY <3>1 DEF WindowPasses, IInv, TypeOK
    <3>3. recent[k] - 1 \in 0..RestartMax
      BY <3>2, SessionAssumption
    <3>4. QED
      BY <3>1, <3>3 DEF WindowPasses, IInv, TypeOK, jobVars
  <2>4. QED
    BY <2>1, <2>2, <2>3
<1>3. LockFollowsCommand'
  BY <1>1 DEF Output, QuietPeriod, CancelThrows, TimeElapses, WindowPasses, jobVars,
              IInv, LockFollowsCommand, Running
<1>4. HoldFollowsCommand' /\ HeldSessionLives' /\ GlobalInv' /\ CapHolds'
  BY <1>1 DEF IInv, HoldFollowsCommand, HeldSessionLives, GlobalInv, CapHolds, Open,
              Running
<1>5. QED
  BY <1>2, <1>3, <1>4 DEF IInv

LEMMA StepKeepsInv == IInv /\ [Next]_vars => IInv'
<1> SUFFICES ASSUME IInv, [Next]_vars PROVE IInv'
  OBVIOUS
<1>1. CASE Request
  BY <1>1, TryRunKeepsInv DEF Request
<1>2. CASE Timers
  <2>1. ASSUME IdleExpired PROVE IInv'
    <3>1. Running /\ End("done")
      BY <2>1 DEF IdleExpired, IInv, LockFollowsCommand
    <3>2. QED
      BY <3>1, EndKeepsInv
  <2>2. QED
    BY <1>2, <2>1, SessionIdleKeepsInv, ClocksKeepInv DEF Timers
<1>3. CASE Cancel
  BY <1>3, EndKeepsInv DEF Cancel
<1>4. CASE Output \/ CancelThrows
  BY <1>4, ClocksKeepInv
<1>5. CASE \E k \in Keys : Exit(k) \/ WindowPasses(k)
  BY <1>5, ExitKeepsInv, ClocksKeepInv
<1>6. CASE UNCHANGED vars
  BY <1>6 DEF vars, IInv, TypeOK, LockFollowsCommand, HoldFollowsCommand,
              HeldSessionLives, GlobalInv, CapHolds, Open, Running
<1>7. QED
  BY <1>1, <1>2, <1>3, <1>4, <1>5, <1>6 DEF Next

-----------------------------------------------------------------------------
\* The inductive invariant holds of every behaviour.
THEOREM InvariantHolds == Spec => []IInv
  BY InitInv, StepKeepsInv, PTL DEF Spec

\* The types of all variables are invariant; in particular no session restarts
\* more than RestartMax times within the window.
THEOREM TypeCorrect == Spec => []TypeOK
<1>1. IInv => TypeOK
  BY DEF IInv
<1>2. QED
  BY <1>1, InvariantHolds, PTL

\* The lock is held exactly while a command runs.
THEOREM LockCorrect == Spec => []LockFollowsCommand
<1>1. IInv => LockFollowsCommand
  BY DEF IInv
<1>2. QED
  BY <1>1, InvariantHolds, PTL

\* The registry holds exactly the session of the running command.
THEOREM HoldCorrect == Spec => []HoldFollowsCommand
<1>1. IInv => HoldFollowsCommand
  BY DEF IInv
<1>2. QED
  BY <1>1, InvariantHolds, PTL

\* The session of a running command is never closed under it.
THEOREM HeldSessionCorrect == Spec => []HeldSessionLives
<1>1. IInv => HeldSessionLives
  BY DEF IInv
<1>2. QED
  BY <1>1, InvariantHolds, PTL

\* There are never more project sessions than SESSION_CAP.
THEOREM CapCorrect == Spec => []CapHolds
<1>1. IInv => CapHolds
  BY DEF IInv
<1>2. QED
  BY <1>1, InvariantHolds, PTL
=============================================================================
