------------------------ MODULE DrainLifecycleProofs ------------------------
(***************************************************************************)
(* Proofs about DrainLifecycle, for any set of projects and any bounds.    *)
(*                                                                         *)
(* IInv is the inductive invariant.  The safety properties of the module   *)
(* are not inductive alone: that an end of a drain releases only its own   *)
(* lock needs the uniqueness of the live loop of an engine and project,    *)
(* that a start keeps it needs that the fresh id is not in use anywhere.   *)
(* StopInv follows an answered stop on its way to drain-jobs.json.         *)
(* The refinement of DrainSession adds AskedInv: a loop that was asked to  *)
(* stop finds its handle aborted, up to its end.                           *)
(***************************************************************************)
EXTENDS DrainLifecycle, TLAPS, FiniteSetTheorems

\* An id not handed out yet occurs nowhere.
FreshIdsAreUnused ==
  \A d \in Ids : d > used =>
    /\ loop[d] = "off"
    /\ mem[d] = "none"
    /\ file[d] = "none"
    /\ writing => snapshot[d] = "none"

\* While the process is down there is nothing but the file.
DownMeansEmpty ==
  ~up => /\ ~writing
         /\ pending = 0
         /\ \A d \in Ids : loop[d] = "off" /\ mem[d] = "none"

\* HandleFollowsLoop, and what becomes of the drains that it leaves out: those
\* restarted at boot have no handle.
HandlesExactly ==
  \A d \in Ids : (handle[d] # "none") <=> (Live(d) /\ ~boot[d])

IInv ==
  /\ TypeOK
  /\ FreshIdsAreUnused
  /\ DownMeansEmpty
  /\ LockIsHeldByItsLoop
  /\ RegistryTellsTheTruth
  /\ HandlesExactly

Ended == {"done", "failed", "aborted"}

\* An end once written, or being written, is what the registry still says.
SnapshotsAgreeOnEnds ==
  \A d \in Ids :
    /\ file[d] \in Ended =>
         /\ up => mem[d] = file[d]
         /\ writing => snapshot[d] = file[d]
    /\ writing /\ snapshot[d] \in Ended => mem[d] = snapshot[d]

OneRunning(s) ==
  \A d, e \in Ids : s[d] = "running" /\ s[e] = "running" /\ SameGroup(d, e) => d = e

OneRunningEverywhere ==
  OneRunning(file) /\ OneRunning(mem) /\ (writing => OneRunning(snapshot))

DInv == IInv /\ SnapshotsAgreeOnEnds /\ OneRunningEverywhere

-----------------------------------------------------------------------------

USE BoundsAssumption DEF Ids, Triggers, Statuses, Phases, Snapshots

\* Type correctness, with the bounds on ids, crashes and write failures.
THEOREM TypeCorrect == Spec => []TypeOK
<1> USE DEF RegistryTypeOK, DiskTypeOK, RuntimeTypeOK, RecoveryTypeOK,
            FlagsTypeOK
<1>1. Init => TypeOK
  <2>1. Init => RegistryTypeOK
    BY DEF Init
  <2>2. Init => DiskTypeOK
    BY DEF Init
  <2>3. Init => RuntimeTypeOK
    BY DEF Init
  <2>4. Init => RecoveryTypeOK
    BY DEF Init
  <2>5. Init => FlagsTypeOK
    BY DEF Init
  <2> QED
    BY <2>1, <2>2, <2>3, <2>4, <2>5 DEF TypeOK
<1>2. TypeOK /\ [Next]_vars => TypeOK'
  <2> SUFFICES ASSUME TypeOK, [Next]_vars
               PROVE  TypeOK'
    OBVIOUS
  <2> USE DEF TypeOK, registry, disk, recovery, history
  <2>1. ASSUME NEW p \in Projects, ManualStart(p)
        PROVE  TypeOK'
    <3>1. RegistryTypeOK'
      BY <2>1 DEF ManualStart, Register, EnterLoop
    <3>2. DiskTypeOK'
      BY <2>1 DEF ManualStart, Register, EnterLoop
    <3>3. RuntimeTypeOK'
      BY <2>1 DEF ManualStart, Register, EnterLoop
    <3>4. RecoveryTypeOK'
      BY <2>1 DEF ManualStart, Register, EnterLoop
    <3>5. FlagsTypeOK'
      BY <2>1 DEF ManualStart, Register, EnterLoop
    <3> QED
      BY <3>1, <3>2, <3>3, <3>4, <3>5 DEF TypeOK
  <2>2. ASSUME NEW p \in Projects, NightStart(p)
        PROVE  TypeOK'
    <3>1. RegistryTypeOK'
      BY <2>2 DEF NightStart, Register, EnterLoop
    <3>2. DiskTypeOK'
      BY <2>2 DEF NightStart, Register, EnterLoop
    <3>3. RuntimeTypeOK'
      BY <2>2 DEF NightStart, Register, EnterLoop
    <3>4. RecoveryTypeOK'
      BY <2>2 DEF NightStart, Register, EnterLoop
    <3>5. FlagsTypeOK'
      BY <2>2 DEF NightStart, Register, EnterLoop
    <3> QED
      BY <3>1, <3>2, <3>3, <3>4, <3>5 DEF TypeOK
  <2>3. ASSUME NEW p \in Projects, NightStartBusy(p)
        PROVE  TypeOK'
    <3>1. RegistryTypeOK'
      BY <2>3 DEF NightStartBusy, Register
    <3>2. DiskTypeOK'
      BY <2>3 DEF NightStartBusy, Register
    <3>3. RuntimeTypeOK'
      BY <2>3 DEF NightStartBusy, Register
    <3>4. RecoveryTypeOK'
      BY <2>3 DEF NightStartBusy, Register
    <3>5. FlagsTypeOK'
      BY <2>3 DEF NightStartBusy, Register
    <3> QED
      BY <3>1, <3>2, <3>3, <3>4, <3>5 DEF TypeOK
  <2>4. ASSUME NEW d \in Ids, Stop(d)
        PROVE  TypeOK'
    BY <2>4 DEF Stop, Mark
  <2>5. ASSUME NEW d \in Ids, Synced(d) \/ BeginRound(d) \/ EndRound(d)
        PROVE  TypeOK'
    BY <2>5 DEF Synced, BeginRound, EndRound, Move
  <2>6. ASSUME NEW d \in Ids, NEW s \in Statuses, Finish(d, s)
        PROVE  TypeOK'
    <3>1. RegistryTypeOK'
      BY <2>6 DEF Finish, Mark
    <3>2. DiskTypeOK'
      BY <2>6 DEF Finish, Mark
    <3>3. RuntimeTypeOK'
      BY <2>6 DEF Finish, Mark
    <3>4. RecoveryTypeOK'
      BY <2>6 DEF Finish, Mark
    <3>5. FlagsTypeOK'
      BY <2>6 DEF Finish, Mark
    <3> QED
      BY <3>1, <3>2, <3>3, <3>4, <3>5 DEF TypeOK
  <2>7. CASE Persist
    <3>1. RegistryTypeOK'
      BY <2>7 DEF Persist, PersistBegin, PersistCommit, PersistFail
    <3>2. DiskTypeOK'
      BY <2>7 DEF Persist, PersistBegin, PersistCommit, PersistFail
    <3>3. RuntimeTypeOK'
      BY <2>7 DEF Persist, PersistBegin, PersistCommit, PersistFail
    <3>4. RecoveryTypeOK'
      BY <2>7 DEF Persist, PersistBegin, PersistCommit, PersistFail
    <3>5. FlagsTypeOK'
      BY <2>7 DEF Persist, PersistBegin, PersistCommit, PersistFail
    <3> QED
      BY <3>1, <3>2, <3>3, <3>4, <3>5 DEF TypeOK
  <2>8. CASE Crash
    <3>1. RegistryTypeOK'
      BY <2>8 DEF Crash
    <3>2. DiskTypeOK'
      BY <2>8 DEF Crash
    <3>3. RuntimeTypeOK'
      BY <2>8 DEF Crash
    <3>4. RecoveryTypeOK'
      <4>1. lost' \subseteq lost \cup stopped
        BY <2>8 DEF Crash
      <4>2. orphans' = {} /\ stopped' = stopped /\ crashes' \in 0..MaxCrashes
        BY <2>8 DEF Crash
      <4> QED
        BY <4>1, <4>2
    <3>5. FlagsTypeOK'
      BY <2>8 DEF Crash
    <3> QED
      BY <3>1, <3>2, <3>3, <3>4, <3>5 DEF TypeOK
  <2>9. CASE Boot
    <3>1. RegistryTypeOK'
      BY <2>9 DEF Boot
    <3>2. DiskTypeOK'
      BY <2>9 DEF Boot
    <3>3. RuntimeTypeOK'
      BY <2>9 DEF Boot
    <3>4. RecoveryTypeOK'
      BY <2>9 DEF Boot
    <3>5. FlagsTypeOK'
      BY <2>9 DEF Boot
    <3> QED
      BY <3>1, <3>2, <3>3, <3>4, <3>5 DEF TypeOK
  <2>10. ASSUME NEW t \in Triggers, NEW p \in Projects, Recover(t, p)
         PROVE  TypeOK'
    <3>1. CASE Restart(t, p)
      <4>1. RegistryTypeOK'
        BY <3>1 DEF Restart, Turn, Group, Register, EnterLoop
      <4>2. DiskTypeOK'
        BY <3>1 DEF Restart, Turn, Group, Register, EnterLoop
      <4>3. RuntimeTypeOK'
        BY <3>1 DEF Restart, Turn, Group, Register, EnterLoop
      <4>4. RecoveryTypeOK'
        BY <3>1 DEF Restart, Turn, Group, Register, EnterLoop
      <4>5. FlagsTypeOK'
        BY <3>1 DEF Restart, Turn, Group, Register, EnterLoop
      <4> QED
        BY <4>1, <4>2, <4>3, <4>4, <4>5 DEF TypeOK
    <3>2. CASE RestartSkip(t, p)
      BY <3>2 DEF RestartSkip, Turn, Group
    <3>3. CASE RestartBusyNight(p)
      <4>1. RegistryTypeOK'
        BY <3>3 DEF RestartBusyNight, Turn, Group, Register
      <4>2. DiskTypeOK'
        BY <3>3 DEF RestartBusyNight, Turn, Group, Register
      <4>3. RuntimeTypeOK'
        BY <3>3 DEF RestartBusyNight, Turn, Group, Register
      <4>4. RecoveryTypeOK'
        BY <3>3 DEF RestartBusyNight, Turn, Group, Register
      <4>5. FlagsTypeOK'
        BY <3>3 DEF RestartBusyNight, Turn, Group, Register
      <4> QED
        BY <4>1, <4>2, <4>3, <4>4, <4>5 DEF TypeOK
    <3> QED
      BY <2>10, <3>1, <3>2, <3>3 DEF Recover
  <2>11. ASSUME NEW open \in BOOLEAN, NightGate(open)
         PROVE  TypeOK'
    BY <2>11 DEF NightGate
  <2>12. ASSUME NEW p \in Projects, SessionsChange(p)
         PROVE  TypeOK'
    BY <2>12 DEF SessionsChange
  <2>13. CASE UNCHANGED vars
    BY <2>13 DEF vars
  <2> QED
    BY <2>1, <2>2, <2>3, <2>4, <2>5, <2>6, <2>7, <2>8, <2>9, <2>10, <2>11,
       <2>12, <2>13 DEF Next, Starts, LoopStep, FinishAborted, FinishDone, FinishFailed,
                    Recovery
<1> QED
  BY <1>1, <1>2, PTL DEF Spec
-----------------------------------------------------------------------------

\* Every step keeps the conjuncts of IInv that are not typing.
LEMMA InvariantStep == IInv /\ TypeOK' /\ [Next]_vars => IInv'
<1> SUFFICES ASSUME IInv, TypeOK', [Next]_vars
             PROVE  IInv'
  OBVIOUS
<1> USE DEF IInv, TypeOK, RegistryTypeOK, DiskTypeOK, RuntimeTypeOK,
            RecoveryTypeOK, registry, disk, recovery, history, SameGroup, Live
<1>1. ASSUME NEW p \in Projects, ManualStart(p)
      PROVE  IInv'
  <2> DEFINE n == used + 1
  <2>0. n \in Ids /\ loop[n] = "off" /\ mem[n] = "none" /\ handle[n] = "none"
    BY <1>1 DEF ManualStart, Register, EnterLoop, IsProjectBusy, FreshIdsAreUnused, HandlesExactly
  <2>1. FreshIdsAreUnused'
    BY <1>1 DEF ManualStart, Register, EnterLoop, IsProjectBusy, FreshIdsAreUnused
  <2>2. DownMeansEmpty'
    BY <1>1 DEF ManualStart, Register, EnterLoop, IsProjectBusy, DownMeansEmpty
  <2>3. LockIsHeldByItsLoop'
    <3>1. ASSUME NEW u \in Triggers, NEW q \in Projects
          PROVE  (q \in held[u] <=> \E e \in Ids : Live(e) /\ trig[e] = u /\ proj[e] = q)'
      BY <1>1, <2>0 DEF ManualStart, Register, EnterLoop, IsProjectBusy, LockIsHeldByItsLoop
    <3>2. ASSUME NEW e \in Ids, NEW f \in Ids, (Live(e) /\ Live(f) /\ SameGroup(e, f))'
          PROVE  e = f
      BY <1>1, <2>0, <3>2 DEF ManualStart, Register, EnterLoop, IsProjectBusy, LockIsHeldByItsLoop
    <3> QED
      BY <3>1, <3>2 DEF LockIsHeldByItsLoop
  <2>4. RegistryTellsTheTruth'
    BY <1>1, <2>0 DEF ManualStart, Register, EnterLoop, IsProjectBusy, RegistryTellsTheTruth
  <2>5. HandlesExactly'
    BY <1>1, <2>0 DEF ManualStart, Register, EnterLoop, IsProjectBusy, HandlesExactly
  <2> QED
    BY <2>1, <2>2, <2>3, <2>4, <2>5
<1>2. ASSUME NEW p \in Projects, NightStart(p)
      PROVE  IInv'
  <2> DEFINE n == used + 1
  <2>0. n \in Ids /\ loop[n] = "off" /\ mem[n] = "none" /\ handle[n] = "none"
    BY <1>2 DEF NightStart, Register, EnterLoop, IsProjectBusy, FreshIdsAreUnused, HandlesExactly
  <2>1. FreshIdsAreUnused'
    BY <1>2 DEF NightStart, Register, EnterLoop, IsProjectBusy, FreshIdsAreUnused
  <2>2. DownMeansEmpty'
    BY <1>2 DEF NightStart, Register, EnterLoop, IsProjectBusy, DownMeansEmpty
  <2>3. LockIsHeldByItsLoop'
    <3>1. ASSUME NEW u \in Triggers, NEW q \in Projects
          PROVE  (q \in held[u] <=> \E e \in Ids : Live(e) /\ trig[e] = u /\ proj[e] = q)'
      BY <1>2, <2>0 DEF NightStart, Register, EnterLoop, IsProjectBusy, LockIsHeldByItsLoop
    <3>2. ASSUME NEW e \in Ids, NEW f \in Ids, (Live(e) /\ Live(f) /\ SameGroup(e, f))'
          PROVE  e = f
      BY <1>2, <2>0, <3>2 DEF NightStart, Register, EnterLoop, IsProjectBusy, LockIsHeldByItsLoop
    <3> QED
      BY <3>1, <3>2 DEF LockIsHeldByItsLoop
  <2>4. RegistryTellsTheTruth'
    BY <1>2, <2>0 DEF NightStart, Register, EnterLoop, IsProjectBusy, RegistryTellsTheTruth
  <2>5. HandlesExactly'
    BY <1>2, <2>0 DEF NightStart, Register, EnterLoop, IsProjectBusy, HandlesExactly
  <2> QED
    BY <2>1, <2>2, <2>3, <2>4, <2>5
<1>3. ASSUME NEW p \in Projects, NightStartBusy(p)
      PROVE  IInv'
  <2> DEFINE n == used + 1
  <2>0. n \in Ids /\ loop[n] = "off" /\ mem[n] = "none" /\ handle[n] = "none"
    BY <1>3 DEF NightStartBusy, Register, FreshIdsAreUnused, HandlesExactly
  <2>1. FreshIdsAreUnused'
    BY <1>3 DEF NightStartBusy, Register, FreshIdsAreUnused
  <2>2. DownMeansEmpty'
    BY <1>3 DEF NightStartBusy, Register, DownMeansEmpty
  <2>3. LockIsHeldByItsLoop'
    <3>1. ASSUME NEW u \in Triggers, NEW q \in Projects
          PROVE  (q \in held[u] <=> \E e \in Ids : Live(e) /\ trig[e] = u /\ proj[e] = q)'
      BY <1>3, <2>0 DEF NightStartBusy, Register, LockIsHeldByItsLoop
    <3>2. ASSUME NEW e \in Ids, NEW f \in Ids, (Live(e) /\ Live(f) /\ SameGroup(e, f))'
          PROVE  e = f
      BY <1>3, <2>0, <3>2 DEF NightStartBusy, Register, LockIsHeldByItsLoop
    <3> QED
      BY <3>1, <3>2 DEF LockIsHeldByItsLoop
  <2>4. RegistryTellsTheTruth'
    BY <1>3, <2>0 DEF NightStartBusy, Register, RegistryTellsTheTruth
  <2>5. HandlesExactly'
    BY <1>3, <2>0 DEF NightStartBusy, Register, HandlesExactly
  <2> QED
    BY <2>1, <2>2, <2>3, <2>4, <2>5
<1>4. ASSUME NEW d \in Ids, Stop(d)
      PROVE  IInv'
  <2>1. FreshIdsAreUnused'
    BY <1>4 DEF Stop, Mark, FreshIdsAreUnused, HandlesExactly
  <2>2. DownMeansEmpty'
    BY <1>4 DEF Stop, Mark, DownMeansEmpty
  <2>3. LockIsHeldByItsLoop'
    BY <1>4 DEF Stop, Mark, LockIsHeldByItsLoop
  <2>4. RegistryTellsTheTruth'
    BY <1>4 DEF Stop, Mark, RegistryTellsTheTruth
  <2>5. HandlesExactly'
    BY <1>4 DEF Stop, Mark, HandlesExactly
  <2> QED
    BY <2>1, <2>2, <2>3, <2>4, <2>5
<1>5. ASSUME NEW d \in Ids, Synced(d) \/ BeginRound(d) \/ EndRound(d)
      PROVE  IInv'
  <2>1. FreshIdsAreUnused'
    BY <1>5 DEF Synced, BeginRound, EndRound, Move, FreshIdsAreUnused
  <2>2. DownMeansEmpty'
    BY <1>5 DEF Synced, BeginRound, EndRound, Move, DownMeansEmpty
  <2>3. LockIsHeldByItsLoop'
    <3>1. \A e \in Ids : loop'[e] # "off" <=> loop[e] # "off"
      BY <1>5 DEF Synced, BeginRound, EndRound, Move
    <3>2. UNCHANGED <<held, proj, trig>>
      BY <1>5 DEF Synced, BeginRound, EndRound, Move
    <3> QED
      BY <3>1, <3>2 DEF LockIsHeldByItsLoop
  <2>4. RegistryTellsTheTruth'
    BY <1>5 DEF Synced, BeginRound, EndRound, Move, RegistryTellsTheTruth
  <2>5. HandlesExactly'
    BY <1>5 DEF Synced, BeginRound, EndRound, Move, HandlesExactly
  <2> QED
    BY <2>1, <2>2, <2>3, <2>4, <2>5
<1>6. ASSUME NEW d \in Ids, NEW s \in {"done", "failed"}, Live(d), Finish(d, s)
      PROVE  IInv'
  <2>1. FreshIdsAreUnused'
    BY <1>6 DEF Finish, Mark, FreshIdsAreUnused
  <2>2. DownMeansEmpty'
    BY <1>6 DEF Finish, Mark, DownMeansEmpty
  <2>3. LockIsHeldByItsLoop'
    BY <1>6 DEF Finish, Mark, LockIsHeldByItsLoop
  <2>4. RegistryTellsTheTruth'
    BY <1>6 DEF Finish, Mark, RegistryTellsTheTruth
  <2>5. HandlesExactly'
    BY <1>6 DEF Finish, Mark, HandlesExactly
  <2> QED
    BY <2>1, <2>2, <2>3, <2>4, <2>5
<1>7. ASSUME NEW d \in Ids, FinishAborted(d)
      PROVE  IInv'
  <2>1. FreshIdsAreUnused'
    BY <1>7 DEF FinishAborted, Finish, Mark, FreshIdsAreUnused
  <2>2. DownMeansEmpty'
    BY <1>7 DEF FinishAborted, Finish, Mark, DownMeansEmpty
  <2>3. LockIsHeldByItsLoop'
    BY <1>7 DEF FinishAborted, Finish, Mark, LockIsHeldByItsLoop
  <2>4. RegistryTellsTheTruth'
    BY <1>7 DEF FinishAborted, Finish, Mark, RegistryTellsTheTruth
  <2>5. HandlesExactly'
    BY <1>7 DEF FinishAborted, Finish, Mark, HandlesExactly
  <2> QED
    BY <2>1, <2>2, <2>3, <2>4, <2>5
<1>8. ASSUME Persist
      PROVE  IInv'
  <2>1. FreshIdsAreUnused'
    BY <1>8 DEF Persist, PersistBegin, PersistCommit, PersistFail, FreshIdsAreUnused
  <2>2. DownMeansEmpty'
    BY <1>8 DEF Persist, PersistBegin, PersistCommit, PersistFail, DownMeansEmpty
  <2>3. LockIsHeldByItsLoop'
    BY <1>8 DEF Persist, PersistBegin, PersistCommit, PersistFail, LockIsHeldByItsLoop
  <2>4. RegistryTellsTheTruth'
    BY <1>8 DEF Persist, PersistBegin, PersistCommit, PersistFail, RegistryTellsTheTruth
  <2>5. HandlesExactly'
    BY <1>8 DEF Persist, PersistBegin, PersistCommit, PersistFail, HandlesExactly
  <2> QED
    BY <2>1, <2>2, <2>3, <2>4, <2>5
<1>9. ASSUME Crash
      PROVE  IInv'
  <2>1. FreshIdsAreUnused'
    BY <1>9 DEF Crash, FreshIdsAreUnused
  <2>2. DownMeansEmpty'
    BY <1>9 DEF Crash, DownMeansEmpty
  <2>3. LockIsHeldByItsLoop'
    BY <1>9 DEF Crash, LockIsHeldByItsLoop
  <2>4. RegistryTellsTheTruth'
    BY <1>9 DEF Crash, RegistryTellsTheTruth
  <2>5. HandlesExactly'
    BY <1>9 DEF Crash, HandlesExactly
  <2> QED
    BY <2>1, <2>2, <2>3, <2>4, <2>5
<1>10. ASSUME Boot
       PROVE  IInv'
  <2>1. FreshIdsAreUnused'
    BY <1>10 DEF Boot, FreshIdsAreUnused
  <2>2. DownMeansEmpty'
    BY <1>10 DEF Boot, DownMeansEmpty
  <2>3. LockIsHeldByItsLoop'
    BY <1>10 DEF Boot, LockIsHeldByItsLoop
  <2>4. RegistryTellsTheTruth'
    BY <1>10 DEF Boot, RegistryTellsTheTruth, DownMeansEmpty
  <2>5. HandlesExactly'
    BY <1>10 DEF Boot, HandlesExactly
  <2> QED
    BY <2>1, <2>2, <2>3, <2>4, <2>5
<1>11. ASSUME NEW t \in Triggers, NEW p \in Projects, Restart(t, p)
       PROVE  IInv'
  <2> DEFINE n == used + 1
  <2>0. n \in Ids /\ loop[n] = "off" /\ mem[n] = "none" /\ handle[n] = "none"
    BY <1>11 DEF Restart, Turn, Register, EnterLoop, IsProjectBusy, FreshIdsAreUnused, HandlesExactly
  <2>1. FreshIdsAreUnused'
    BY <1>11 DEF Restart, Turn, Register, EnterLoop, IsProjectBusy, FreshIdsAreUnused
  <2>2. DownMeansEmpty'
    BY <1>11 DEF Restart, Turn, Register, EnterLoop, IsProjectBusy, DownMeansEmpty
  <2>3. LockIsHeldByItsLoop'
    <3>1. ASSUME NEW u \in Triggers, NEW q \in Projects
          PROVE  (q \in held[u] <=> \E e \in Ids : Live(e) /\ trig[e] = u /\ proj[e] = q)'
      BY <1>11, <2>0 DEF Restart, Turn, Register, EnterLoop, IsProjectBusy, LockIsHeldByItsLoop
    <3>2. ASSUME NEW e \in Ids, NEW f \in Ids, (Live(e) /\ Live(f) /\ SameGroup(e, f))'
          PROVE  e = f
      <4> USE DEF Restart, Turn, Register, EnterLoop, IsProjectBusy, LockIsHeldByItsLoop
      <4>1. ASSUME NEW g \in Ids, g # n, Live(g)
            PROVE  ~(trig[g] = t /\ proj[g] = p)
        BY <1>11, <4>1
      <4>2. /\ trig' = [trig EXCEPT ![n] = t]
            /\ proj' = [proj EXCEPT ![n] = p]
            /\ loop' = [loop EXCEPT ![n] = "sync"]
        BY <1>11
      <4>3. CASE e = n
        BY <2>0, <3>2, <4>1, <4>2, <4>3
      <4>4. CASE f = n
        BY <2>0, <3>2, <4>1, <4>2, <4>4
      <4>5. CASE e # n /\ f # n
        BY <2>0, <3>2, <4>2, <4>5
      <4> QED
        BY <4>3, <4>4, <4>5
    <3> QED
      BY <3>1, <3>2 DEF LockIsHeldByItsLoop
  <2>4. RegistryTellsTheTruth'
    BY <1>11, <2>0 DEF Restart, Turn, Register, EnterLoop, IsProjectBusy, RegistryTellsTheTruth
  <2>5. HandlesExactly'
    BY <1>11, <2>0 DEF Restart, Turn, Register, EnterLoop, IsProjectBusy, HandlesExactly
  <2> QED
    BY <2>1, <2>2, <2>3, <2>4, <2>5
<1>12. ASSUME NEW t \in Triggers, NEW p \in Projects, RestartSkip(t, p)
       PROVE  IInv'
  <2>1. FreshIdsAreUnused'
    BY <1>12 DEF RestartSkip, Turn, FreshIdsAreUnused
  <2>2. DownMeansEmpty'
    BY <1>12 DEF RestartSkip, Turn, DownMeansEmpty
  <2>3. LockIsHeldByItsLoop'
    BY <1>12 DEF RestartSkip, Turn, LockIsHeldByItsLoop
  <2>4. RegistryTellsTheTruth'
    BY <1>12 DEF RestartSkip, Turn, RegistryTellsTheTruth
  <2>5. HandlesExactly'
    BY <1>12 DEF RestartSkip, Turn, HandlesExactly
  <2> QED
    BY <2>1, <2>2, <2>3, <2>4, <2>5
<1>13. ASSUME NEW p \in Projects, RestartBusyNight(p)
       PROVE  IInv'
  <2> DEFINE n == used + 1
  <2>0. n \in Ids /\ loop[n] = "off" /\ mem[n] = "none" /\ handle[n] = "none"
    BY <1>13 DEF RestartBusyNight, Turn, Register, FreshIdsAreUnused, HandlesExactly
  <2>1. FreshIdsAreUnused'
    BY <1>13 DEF RestartBusyNight, Turn, Register, FreshIdsAreUnused
  <2>2. DownMeansEmpty'
    BY <1>13 DEF RestartBusyNight, Turn, Register, DownMeansEmpty
  <2>3. LockIsHeldByItsLoop'
    <3>1. ASSUME NEW u \in Triggers, NEW q \in Projects
          PROVE  (q \in held[u] <=> \E e \in Ids : Live(e) /\ trig[e] = u /\ proj[e] = q)'
      BY <1>13, <2>0 DEF RestartBusyNight, Turn, Register, LockIsHeldByItsLoop
    <3>2. ASSUME NEW e \in Ids, NEW f \in Ids, (Live(e) /\ Live(f) /\ SameGroup(e, f))'
          PROVE  e = f
      BY <1>13, <2>0, <3>2 DEF RestartBusyNight, Turn, Register, LockIsHeldByItsLoop
    <3> QED
      BY <3>1, <3>2 DEF LockIsHeldByItsLoop
  <2>4. RegistryTellsTheTruth'
    BY <1>13, <2>0 DEF RestartBusyNight, Turn, Register, RegistryTellsTheTruth
  <2>5. HandlesExactly'
    BY <1>13, <2>0 DEF RestartBusyNight, Turn, Register, HandlesExactly
  <2> QED
    BY <2>1, <2>2, <2>3, <2>4, <2>5
<1>14. ASSUME NEW open \in BOOLEAN, NightGate(open)
       PROVE  IInv'
  <2>1. FreshIdsAreUnused'
    BY <1>14 DEF NightGate, FreshIdsAreUnused
  <2>2. DownMeansEmpty'
    BY <1>14 DEF NightGate, DownMeansEmpty
  <2>3. LockIsHeldByItsLoop'
    BY <1>14 DEF NightGate, LockIsHeldByItsLoop
  <2>4. RegistryTellsTheTruth'
    BY <1>14 DEF NightGate, RegistryTellsTheTruth
  <2>5. HandlesExactly'
    BY <1>14 DEF NightGate, HandlesExactly
  <2> QED
    BY <2>1, <2>2, <2>3, <2>4, <2>5
<1>15. ASSUME NEW p \in Projects, SessionsChange(p)
       PROVE  IInv'
  <2>1. FreshIdsAreUnused'
    BY <1>15 DEF SessionsChange, FreshIdsAreUnused
  <2>2. DownMeansEmpty'
    BY <1>15 DEF SessionsChange, DownMeansEmpty
  <2>3. LockIsHeldByItsLoop'
    BY <1>15 DEF SessionsChange, LockIsHeldByItsLoop
  <2>4. RegistryTellsTheTruth'
    BY <1>15 DEF SessionsChange, RegistryTellsTheTruth
  <2>5. HandlesExactly'
    BY <1>15 DEF SessionsChange, HandlesExactly
  <2> QED
    BY <2>1, <2>2, <2>3, <2>4, <2>5
<1>16. ASSUME UNCHANGED vars
       PROVE  IInv'
  <2>1. FreshIdsAreUnused'
    BY <1>16 DEF vars, FreshIdsAreUnused
  <2>2. DownMeansEmpty'
    BY <1>16 DEF vars, DownMeansEmpty
  <2>3. LockIsHeldByItsLoop'
    BY <1>16 DEF vars, LockIsHeldByItsLoop
  <2>4. RegistryTellsTheTruth'
    BY <1>16 DEF vars, RegistryTellsTheTruth
  <2>5. HandlesExactly'
    BY <1>16 DEF vars, HandlesExactly
  <2> QED
    BY <2>1, <2>2, <2>3, <2>4, <2>5
<1> QED
  BY <1>1, <1>2, <1>3, <1>4, <1>5, <1>6, <1>7, <1>8, <1>9, <1>10, <1>11, <1>12, <1>13, <1>14, <1>15, <1>16
     DEF Next, Starts, LoopStep, Recovery, Recover, FinishDone, FinishFailed

\* The invariant that ties locks, loops, handles, registry and night slots
\* together is inductive.
THEOREM InvariantHolds == Spec => []IInv
<1>1. Init => FreshIdsAreUnused /\ DownMeansEmpty /\ LockIsHeldByItsLoop
              /\ RegistryTellsTheTruth /\ HandlesExactly
  BY DEF Init, FreshIdsAreUnused, DownMeansEmpty, LockIsHeldByItsLoop,
         RegistryTellsTheTruth, HandlesExactly, Live
<1>2. TypeOK /\ FreshIdsAreUnused /\ DownMeansEmpty /\ LockIsHeldByItsLoop
        /\ RegistryTellsTheTruth /\ HandlesExactly => IInv
  BY DEF IInv
<1>3. IInv /\ TypeOK' /\ [Next]_vars => IInv'
  BY InvariantStep
<1> QED
  BY TypeCorrect, <1>1, <1>2, <1>3, PTL DEF Spec

\* No two live drains of one engine on one project; no end releases the lock
\* of another drain or leaks its own (ProjectJobLock under its callers).
THEOREM LocksCorrect == Spec => []LockIsHeldByItsLoop
BY InvariantHolds, PTL DEF IInv

\* GET /drain/:id never answers 'running' for a drain that is not.
THEOREM RegistryCorrect == Spec => []RegistryTellsTheTruth
BY InvariantHolds, PTL DEF IInv

\* What GET /drain/:id answers agrees with the drain loops, and the stop route finds
\* every live drain that the router or the night watch started and none that is over
\* (of drains restarted at boot only the latter is claimed).
THEOREM RouterCorrect == Spec => []RouterTellsTheTruth
<1>1. IInv => RouterTellsTheTruth
  BY DEF IInv, RouterTellsTheTruth, HandlesExactly, HandleFollowsLoop
<1> QED
  BY InvariantHolds, <1>1, PTL

-----------------------------------------------------------------------------

\* Nothing but a crash takes an aborted entry back.
THEOREM AbortedIsTerminal == Spec => AbortedStaysAborted
<1> USE DEF IInv, TypeOK, RegistryTypeOK, DiskTypeOK, RuntimeTypeOK,
            RecoveryTypeOK, registry, disk, recovery, history
<1>1. IInv /\ [Next]_vars => [\A d \in Ids : mem[d] = "aborted" /\ up' => mem'[d] = "aborted"]_vars
  <2> SUFFICES ASSUME IInv, Next, NEW d \in Ids, mem[d] = "aborted", up'
               PROVE  mem'[d] = "aborted"
    OBVIOUS
  <2>0. used < MaxDrains => d # used + 1
    BY DEF FreshIdsAreUnused
  <2>1. ASSUME NEW p \in Projects, Starts(p)
        PROVE  mem'[d] = "aborted"
    BY <2>0, <2>1 DEF Starts, ManualStart, NightStart, NightStartBusy, Register
  <2>2. ASSUME NEW e \in Ids, Stop(e) \/ LoopStep(e)
        PROVE  mem'[d] = "aborted"
    <3>1. ASSUME NEW status, Mark(e, status)
          PROVE  mem'[d] = "aborted"
      BY <3>1 DEF Mark
    <3>2. CASE Stop(e) \/ \E status : Finish(e, status)
      BY <3>1, <3>2 DEF Stop, Finish
    <3>3. CASE \E from, to : Move(e, from, to)
      BY <3>3 DEF Move
    <3> QED
      BY <2>2, <3>2, <3>3 DEF LoopStep, Synced, BeginRound, EndRound,
                              FinishAborted, FinishDone, FinishFailed
  <2>3. CASE Persist
    BY <2>3 DEF Persist, PersistBegin, PersistCommit, PersistFail
  <2>4. CASE Crash
    BY <2>4 DEF Crash
  <2>5. CASE Boot
    BY <2>5 DEF Boot, DownMeansEmpty
  <2>6. CASE Recovery
    <3>1. ASSUME NEW t \in Triggers, NEW p \in Projects,
                 Restart(t, p) \/ RestartBusyNight(p)
          PROVE  mem'[d] = "aborted"
      BY <2>0, <3>1 DEF Restart, RestartBusyNight, Register
    <3>2. ASSUME NEW t \in Triggers, NEW p \in Projects, RestartSkip(t, p)
          PROVE  mem'[d] = "aborted"
      BY <3>2 DEF RestartSkip
    <3>3. ASSUME NEW open \in BOOLEAN, NightGate(open)
          PROVE  mem'[d] = "aborted"
      BY <3>3 DEF NightGate
    <3> QED
      BY <2>6, <3>1, <3>2, <3>3 DEF Recovery, Recover
  <2>7. ASSUME NEW p \in Projects, SessionsChange(p)
        PROVE  mem'[d] = "aborted"
    BY <2>7 DEF SessionsChange
  <2> QED
    BY <2>1, <2>2, <2>3, <2>4, <2>5, <2>6, <2>7 DEF Next
<1> QED
  BY InvariantHolds, <1>1, PTL DEF Spec, AbortedStaysAborted

-----------------------------------------------------------------------------
(* What is on disk.  A write copies the registry; the copy may be old when *)
(* it reaches the file, but a terminal status in it is never outdated.     *)

\* No write of the registry takes back an end that memory or file have reached.
LEMMA DiskStep == IInv /\ IInv' /\ SnapshotsAgreeOnEnds /\ [Next]_vars
                    => SnapshotsAgreeOnEnds'
<1> SUFFICES ASSUME IInv, IInv', SnapshotsAgreeOnEnds, [Next]_vars,
                    NEW d \in Ids
             PROVE  /\ file'[d] \in Ended =>
                         /\ up' => mem'[d] = file'[d]
                         /\ writing' => snapshot'[d] = file'[d]
                    /\ writing' /\ snapshot'[d] \in Ended => mem'[d] = snapshot'[d]
  BY DEF SnapshotsAgreeOnEnds
<1> USE DEF IInv, TypeOK, RegistryTypeOK, DiskTypeOK, RuntimeTypeOK,
            RecoveryTypeOK, registry, disk, recovery, history,
            SnapshotsAgreeOnEnds, Ended
<1>0. ASSUME NEW p, NEW t, NEW b, NEW s, Register(p, t, b, s),
             UNCHANGED <<up, file, writing, snapshot>>
      PROVE  /\ file'[d] \in Ended =>
                  /\ up' => mem'[d] = file'[d]
                  /\ writing' => snapshot'[d] = file'[d]
             /\ writing' /\ snapshot'[d] \in Ended => mem'[d] = snapshot'[d]
  BY <1>0 DEF Register, FreshIdsAreUnused
<1>1. CASE \E p \in Projects : Starts(p)
  BY <1>1, <1>0 DEF Starts, ManualStart, NightStart, NightStartBusy
<1>2. ASSUME NEW e \in Ids, NEW s, Mark(e, s), Live(e),
             UNCHANGED <<up, file, writing, snapshot>>
      PROVE  /\ file'[d] \in Ended =>
                  /\ up' => mem'[d] = file'[d]
                  /\ writing' => snapshot'[d] = file'[d]
             /\ writing' /\ snapshot'[d] \in Ended => mem'[d] = snapshot'[d]
  <2>1. mem[e] \in {"running", "aborted"}
    BY <1>2 DEF RegistryTellsTheTruth
  <2>2. up
    BY <1>2 DEF DownMeansEmpty, Live
  <2> QED
    BY <1>2, <2>1, <2>2 DEF Mark
<1>3. ASSUME NEW e \in Ids, Stop(e)
      PROVE  /\ file'[d] \in Ended =>
                  /\ up' => mem'[d] = file'[d]
                  /\ writing' => snapshot'[d] = file'[d]
             /\ writing' /\ snapshot'[d] \in Ended => mem'[d] = snapshot'[d]
  BY <1>2, <1>3 DEF Stop, HandlesExactly
<1>4. ASSUME NEW e \in Ids, LoopStep(e)
      PROVE  /\ file'[d] \in Ended =>
                  /\ up' => mem'[d] = file'[d]
                  /\ writing' => snapshot'[d] = file'[d]
             /\ writing' /\ snapshot'[d] \in Ended => mem'[d] = snapshot'[d]
  <2>1. CASE Synced(e) \/ BeginRound(e) \/ EndRound(e)
    BY <2>1 DEF Synced, BeginRound, EndRound, Move
  <2>2. CASE FinishAborted(e) \/ FinishDone(e) \/ FinishFailed(e)
    BY <1>2, <2>2 DEF FinishAborted, FinishDone, FinishFailed, Finish, Live
  <2> QED
    BY <1>4, <2>1, <2>2 DEF LoopStep
<1>5. CASE Persist
  <2>1. pending > 0 => up
    BY DEF DownMeansEmpty
  <2>2. CASE PersistBegin
    BY <2>1, <2>2 DEF PersistBegin
  <2>3. CASE PersistCommit
    BY <2>3 DEF PersistCommit, DownMeansEmpty
  <2>4. CASE PersistFail
    BY <2>4 DEF PersistFail
  <2> QED
    BY <1>5, <2>2, <2>3, <2>4 DEF Persist
<1>6. CASE Crash
  BY <1>6 DEF Crash
<1>7. CASE Boot
  BY <1>7 DEF Boot, DownMeansEmpty
<1>8. CASE Recovery
  <2>1. ASSUME NEW t \in Triggers, NEW p \in Projects,
               Restart(t, p) \/ RestartBusyNight(p)
        PROVE  /\ file'[d] \in Ended =>
                    /\ up' => mem'[d] = file'[d]
                    /\ writing' => snapshot'[d] = file'[d]
               /\ writing' /\ snapshot'[d] \in Ended => mem'[d] = snapshot'[d]
    BY <1>0, <2>1 DEF Restart, RestartBusyNight
  <2>2. ASSUME NEW t \in Triggers, NEW p \in Projects, RestartSkip(t, p)
        PROVE  UNCHANGED <<up, mem, file, writing, snapshot>>
    BY <2>2 DEF RestartSkip
  <2>3. ASSUME NEW open \in BOOLEAN, NightGate(open)
        PROVE  UNCHANGED <<up, mem, file, writing, snapshot>>
    BY <2>3 DEF NightGate
  <2> QED
    BY <1>8, <2>1, <2>2, <2>3 DEF Recovery, Recover
<1>9. CASE \E p \in Projects : SessionsChange(p)
  BY <1>9 DEF SessionsChange
<1>10. CASE UNCHANGED vars
  BY <1>10 DEF vars
<1> QED
  BY <1>1, <1>3, <1>4, <1>5, <1>6, <1>7, <1>8, <1>9, <1>10 DEF Next

\* The registry never says 'running' twice for one project and trigger.
LEMMA OneRunningInMemory == IInv => OneRunning(mem)
BY DEF IInv, OneRunning, RegistryTellsTheTruth, LockIsHeldByItsLoop

\* Project and trigger of an id in use never change.
LEMMA MetadataIsStable ==
  ASSUME IInv, [Next]_vars, NEW d \in Ids, d <= used
  PROVE  proj'[d] = proj[d] /\ trig'[d] = trig[d]
<1> USE DEF IInv, TypeOK, RegistryTypeOK, registry, disk, recovery, history
<1>1. ASSUME NEW p, NEW t, NEW b, NEW s, Register(p, t, b, s)
      PROVE  proj'[d] = proj[d] /\ trig'[d] = trig[d]
  BY <1>1 DEF Register
<1>2. CASE \E p \in Projects : Starts(p)
  BY <1>1, <1>2 DEF Starts, ManualStart, NightStart, NightStartBusy
<1>3. CASE \E e \in Ids : Stop(e) \/ LoopStep(e)
  BY <1>3 DEF Stop, LoopStep, Synced, BeginRound, EndRound, Move,
              FinishAborted, FinishDone, FinishFailed, Finish
<1>4. CASE Persist \/ Crash \/ Boot
  BY <1>4 DEF Persist, PersistBegin, PersistCommit, PersistFail, Crash, Boot
<1>5. CASE Recovery
  <2>1. ASSUME NEW t \in Triggers, NEW p \in Projects, Recover(t, p)
        PROVE  proj'[d] = proj[d] /\ trig'[d] = trig[d]
    BY <1>1, <2>1 DEF Recover, Restart, RestartBusyNight, RestartSkip
  <2>2. ASSUME NEW open \in BOOLEAN, NightGate(open)
        PROVE  proj'[d] = proj[d] /\ trig'[d] = trig[d]
    BY <2>2 DEF NightGate
  <2> QED
    BY <1>5, <2>1, <2>2 DEF Recovery
<1>6. CASE \E p \in Projects : SessionsChange(p)
  BY <1>6 DEF SessionsChange
<1>7. CASE UNCHANGED vars
  BY <1>7 DEF vars
<1> QED
  BY <1>2, <1>3, <1>4, <1>5, <1>6, <1>7 DEF Next

\* Where the file and the copy being written come from.
LEMMA DiskSources ==
  IInv /\ [Next]_vars =>
    /\ file' = file \/ (writing /\ file' = snapshot)
    /\ writing' => (writing /\ snapshot' = snapshot) \/ snapshot' = mem
<1> SUFFICES ASSUME IInv, [Next]_vars
             PROVE  /\ file' = file \/ (writing /\ file' = snapshot)
                    /\ writing' => (writing /\ snapshot' = snapshot) \/ snapshot' = mem
  OBVIOUS
<1> USE DEF registry, recovery, history
<1>0. disk' = disk => UNCHANGED <<file, writing, snapshot>>
  BY DEF disk
<1>1. CASE \E p \in Projects : Starts(p)
  <2>1. disk' = disk
    BY <1>1 DEF Starts, ManualStart, NightStart, NightStartBusy
  <2> QED
    BY <1>0, <2>1
<1>2. CASE \E e \in Ids : Stop(e) \/ LoopStep(e)
  BY <1>2 DEF Stop, LoopStep, Synced, BeginRound, EndRound, Move, disk,
              FinishAborted, FinishDone, FinishFailed, Finish
<1>3. CASE Persist \/ Crash \/ Boot
  BY <1>3 DEF Persist, PersistBegin, PersistCommit, PersistFail, Crash, Boot,
              disk
<1>4. CASE Recovery
  <2>1. disk' = disk
    BY <1>4 DEF Recovery, Recover, Restart, RestartBusyNight, RestartSkip,
                NightGate
  <2> QED
    BY <1>0, <2>1
<1>5. CASE \E p \in Projects : SessionsChange(p)
  BY <1>5 DEF SessionsChange, disk
<1>6. CASE UNCHANGED vars
  BY <1>6 DEF vars, disk
<1> QED
  BY <1>1, <1>2, <1>3, <1>4, <1>5, <1>6 DEF Next

\* One running entry per project and trigger: in memory, in the copy being
\* written and in the file.
LEMMA OneRunningStep == IInv /\ IInv' /\ OneRunningEverywhere /\ [Next]_vars
                          => OneRunningEverywhere'
<1> SUFFICES ASSUME IInv, IInv', OneRunningEverywhere, [Next]_vars
             PROVE  OneRunningEverywhere'
  OBVIOUS
<1>1. ASSUME NEW s, OneRunning(s),
             \A d \in Ids : d > used => s[d] = "none",
             NEW d \in Ids, NEW e \in Ids,
             s[d] = "running", s[e] = "running", SameGroup(d, e)'
      PROVE  d = e
  <2>1. d <= used /\ e <= used
    BY <1>1 DEF IInv, TypeOK, RegistryTypeOK
  <2>2. SameGroup(d, e)
    BY <1>1, <2>1, MetadataIsStable DEF SameGroup
  <2> QED
    BY <1>1, <2>2 DEF OneRunning
<1>2. \A d \in Ids : d > used => /\ file[d] = "none" /\ mem[d] = "none"
                                 /\ writing => snapshot[d] = "none"
  BY DEF IInv, FreshIdsAreUnused
<1>3. OneRunning(file)'
  <2>1. CASE file' = file
    BY <1>1, <1>2, <2>1 DEF OneRunningEverywhere, OneRunning
  <2>2. CASE writing /\ file' = snapshot
    BY <1>1, <1>2, <2>2 DEF OneRunningEverywhere, OneRunning
  <2> QED
    BY <2>1, <2>2, DiskSources
<1>4. ASSUME writing'
      PROVE  OneRunning(snapshot)'
  <2>1. CASE writing /\ snapshot' = snapshot
    BY <1>1, <1>2, <2>1 DEF OneRunningEverywhere, OneRunning
  <2>2. CASE snapshot' = mem
    BY <1>1, <1>2, <2>2 DEF OneRunningEverywhere, OneRunning
  <2> QED
    BY <1>4, <2>1, <2>2, DiskSources
<1>5. OneRunning(mem)'
  BY OneRunningInMemory DEF IInv, OneRunning, RegistryTellsTheTruth,
     LockIsHeldByItsLoop
<1> QED
  BY <1>3, <1>4, <1>5 DEF OneRunningEverywhere

\* The invariant of drain-jobs.json, over crashes and failing writes.
THEOREM DiskInvariantHolds == Spec => []DInv
<1>1. Init => SnapshotsAgreeOnEnds /\ OneRunningEverywhere
  BY DEF Init, SnapshotsAgreeOnEnds, Ended, OneRunningEverywhere, OneRunning
<1>2. IInv /\ IInv' /\ SnapshotsAgreeOnEnds /\ OneRunningEverywhere /\ [Next]_vars
        => SnapshotsAgreeOnEnds' /\ OneRunningEverywhere'
  BY DiskStep, OneRunningStep
<1>3. DInv <=> IInv /\ SnapshotsAgreeOnEnds /\ OneRunningEverywhere
  BY DEF DInv
<1> QED
  BY InvariantHolds, <1>1, <1>2, <1>3, PTL DEF Spec

\* However crashes, failing writes and restarts interleave, drain-jobs.json
\* holds at most one running entry of a project and trigger.
THEOREM OneOrphanCorrect == Spec => []OneOrphanPerGroup
<1>1. DInv => OneOrphanPerGroup
  BY DEF DInv, OneRunningEverywhere, OneRunning, OneOrphanPerGroup
<1> QED
  BY DiskInvariantHolds, <1>1, PTL

\* A terminal status on disk is final.
THEOREM DurableEndCorrect == Spec => DurableEndIsFinal
<1>1. DInv /\ [Next]_vars =>
        [\A d \in Ids : file[d] \in {"done", "failed", "aborted"}
                          => file'[d] = file[d]]_vars
  BY DiskSources DEF DInv, SnapshotsAgreeOnEnds, Ended
<1> QED
  BY DiskInvariantHolds, <1>1, PTL DEF Spec, DurableEndIsFinal

-----------------------------------------------------------------------------
(* The slots of the night watch.                                           *)

SlotInv == IsFiniteSet(active) /\ ActiveDrainsAreLive

\* A slot taken while one is free keeps within the bound.
LEMMA SlotTaken ==
  ASSUME NEW S, NEW S1, NEW x, NEW k \in Nat,
         IsFiniteSet(S), Cardinality(S) < k, x \notin S, S1 = S \cup {x}
  PROVE  IsFiniteSet(S1) /\ Cardinality(S1) <= k
<1>1. IsFiniteSet(S1) /\ Cardinality(S1) = Cardinality(S) + 1
  BY FS_AddElement
<1>2. Cardinality(S) \in Nat
  BY FS_CardinalityType
<1> QED
  BY <1>1, <1>2

\* No step gives a slot to a project without a night drain, takes one from a
\* live night drain, or fills more than maxParallel.
LEMMA SlotStep == IInv /\ IInv' /\ SlotInv /\ [Next]_vars => SlotInv'
<1> SUFFICES ASSUME IInv, IInv', SlotInv, [Next]_vars
             PROVE  SlotInv'
  OBVIOUS
<1> DEFINE InSlot(d) == Live(d) /\ trig[d] = "night" /\ ~boot[d]
<1> USE DEF IInv, TypeOK, RegistryTypeOK, RuntimeTypeOK, SlotInv,
            ActiveDrainsAreLive, registry, disk, recovery, history
<1>1. ASSUME active' = active,
             \A d \in Ids : InSlot(d)' <=> InSlot(d),
             \A d \in Ids : InSlot(d) => proj'[d] = proj[d]
      PROVE  SlotInv'
  <2>1. \A p \in Projects :
          (\E d \in Ids : InSlot(d)' /\ proj'[d] = p)
             <=> (\E d \in Ids : InSlot(d) /\ proj[d] = p)
    BY <1>1
  <2> QED
    BY <1>1, <2>1
<1>2. ASSUME NEW p, NEW t, NEW b, NEW s, Register(p, t, b, s), loop' = loop,
             active' = active
      PROVE  SlotInv'
  <2>1. used + 1 \in Ids /\ loop[used + 1] = "off"
    BY <1>2 DEF Register, FreshIdsAreUnused
  <2> QED
    BY <1>1, <1>2, <2>1 DEF Register, Live
<1>3. ASSUME NEW p \in Projects, NEW t \in Triggers, EnterLoop(p, t),
             \/ Register(p, t, FALSE, "running") /\ t = "manual"
             \/ Register(p, t, TRUE, "running"),
             active' = active
      PROVE  SlotInv'
  <2>1. used + 1 \in Ids /\ loop[used + 1] = "off"
    BY <1>3 DEF Register, FreshIdsAreUnused
  <2> QED
    BY <1>1, <1>3, <2>1 DEF Register, EnterLoop, Live
<1>4. ASSUME NEW p \in Projects, NightStart(p)
      PROVE  SlotInv'
  <2>0. PICK n \in Ids : n = used + 1
    BY <1>4 DEF NightStart, Register
  <2>1. /\ loop[n] = "off"
        /\ trig' = [trig EXCEPT ![n] = "night"]
        /\ proj' = [proj EXCEPT ![n] = p]
        /\ boot' = [boot EXCEPT ![n] = FALSE]
        /\ loop' = [loop EXCEPT ![n] = "sync"]
        /\ active' = active \cup {p}
    BY <1>4, <2>0 DEF NightStart, Register, EnterLoop, FreshIdsAreUnused
  <2>2. InSlot(n)' /\ proj'[n] = p
    BY <2>1 DEF Live
  <2>3. \A d \in Ids \ {n} : (InSlot(d)' <=> InSlot(d)) /\ proj'[d] = proj[d]
    BY <2>1 DEF Live
  <2>4. ~InSlot(n)
    BY <2>1 DEF Live
  <2>5. ASSUME NEW q \in Projects
        PROVE  q \in active' <=> \E d \in Ids : InSlot(d)' /\ proj'[d] = q
    <3>1. q \in active <=> \E d \in Ids : InSlot(d) /\ proj[d] = q
      OBVIOUS
    <3>2. CASE q = p
      BY <2>1, <2>2, <3>2
    <3>3. CASE q # p
      <4>1. ASSUME NEW d \in Ids
            PROVE  (InSlot(d)' /\ proj'[d] = q) <=> (InSlot(d) /\ proj[d] = q)
        BY <2>2, <2>3, <2>4, <3>3
      <4> QED
        BY <2>1, <3>1, <3>3, <4>1
    <3> QED
      BY <3>2, <3>3
  <2>6. p \notin active /\ Cardinality(active) < MaxParallel
    BY <1>4 DEF NightStart, NightSlotFree
  <2>7. MaxParallel \in Nat
    BY BoundsAssumption
  <2>8. IsFiniteSet(active') /\ Cardinality(active') <= MaxParallel
    <3> HIDE DEF IInv, TypeOK, RegistryTypeOK, RuntimeTypeOK, InSlot, registry,
                 disk, recovery, history
    <3>1. IsFiniteSet(active) /\ active' = active \cup {p}
      BY <2>1 DEF SlotInv
    <3> QED
      BY <2>6, <2>7, <3>1, SlotTaken
  <2>9. \A q \in Projects :
          (q \in active <=> \E d \in Ids : Live(d) /\ trig[d] = "night" /\ ~boot[d]
                                            /\ proj[d] = q)'
    BY <2>5
  <2> QED
    BY <2>8, <2>9
<1>5. ASSUME NEW e \in Ids, NEW s, Live(e), Finish(e, s)
      PROVE  SlotInv'
  <2>1. /\ loop' = [loop EXCEPT ![e] = "off"]
        /\ UNCHANGED <<proj, trig, boot>>
        /\ active' = IF InSlot(e) THEN active \ {proj[e]} ELSE active
    BY <1>5 DEF Finish
  <2>2. \A d \in Ids : InSlot(d)' <=> InSlot(d) /\ d # e
    BY <2>1 DEF Live
  <2>3. CASE ~InSlot(e)
    BY <1>1, <2>1, <2>2, <2>3
  <2>4. CASE InSlot(e)
    <3>1. \A d \in Ids : InSlot(d) /\ proj[d] = proj[e] => d = e
      BY <2>4 DEF LockIsHeldByItsLoop, SameGroup
    <3>2. \A q \in Projects :
            q \in active' <=> \E d \in Ids : InSlot(d)' /\ proj'[d] = q
      BY <2>1, <2>2, <2>4, <3>1
    <3>3. IsFiniteSet(active') /\ Cardinality(active') <= Cardinality(active)
      BY <2>1, <2>4, FS_Subset
    <3>4. Cardinality(active) \in Nat /\ Cardinality(active') \in Nat
      BY <3>3, FS_CardinalityType
    <3> QED
      BY <3>2, <3>3, <3>4
  <2> QED
    BY <2>3, <2>4
<1> HIDE DEF SlotInv, IInv, TypeOK
<1>6. CASE \E p \in Projects : Starts(p)
  <2>1. ASSUME NEW p \in Projects, ManualStart(p)
        PROVE  SlotInv'
    <3>1. Register(p, "manual", FALSE, "running") /\ EnterLoop(p, "manual") /\ active' = active
      BY <2>1 DEF ManualStart
    <3> QED
      BY <1>3, <3>1
  <2>2. ASSUME NEW p \in Projects, NightStartBusy(p)
        PROVE  SlotInv'
    BY <1>2, <2>2 DEF NightStartBusy
  <2> QED
    BY <1>4, <1>6, <2>1, <2>2 DEF Starts
<1>7. CASE \E e \in Ids : Stop(e) \/ LoopStep(e)
  <2>1. ASSUME NEW e \in Ids, Stop(e)
        PROVE  SlotInv'
    BY <1>1, <2>1 DEF Stop, Live
  <2>2. ASSUME NEW e \in Ids, Synced(e) \/ BeginRound(e) \/ EndRound(e)
        PROVE  SlotInv'
    <3>1. /\ loop[e] # "off" /\ (\E s \in Phases \ {"off"} : loop' = [loop EXCEPT ![e] = s])
          /\ UNCHANGED <<proj, trig, boot, active>>
      BY <2>2 DEF Synced, BeginRound, EndRound, Move, Phases
    <3>2. \A d \in Ids : InSlot(d)' <=> InSlot(d)
      BY <3>1, <2>2 DEF Live
    <3> QED
      BY <1>1, <3>1, <3>2
  <2>3. ASSUME NEW e \in Ids, FinishAborted(e) \/ FinishDone(e) \/ FinishFailed(e)
        PROVE  SlotInv'
    BY <1>5, <2>3 DEF FinishAborted, FinishDone, FinishFailed, Live
  <2> QED
    BY <1>7, <2>1, <2>2, <2>3 DEF LoopStep
<1>8. CASE Persist
  BY <1>1, <1>8 DEF Persist, PersistBegin, PersistCommit, PersistFail, Live
<1>9. CASE Crash
  <2>1. active' = {} /\ \A d \in Ids : ~InSlot(d)'
    BY <1>9 DEF Crash, Live
  <2>2. \A p \in Projects :
          (p \in active <=> \E d \in Ids : Live(d) /\ trig[d] = "night" /\ ~boot[d]
                                            /\ proj[d] = p)'
    BY <2>1
  <2>3. (IsFiniteSet(active) /\ Cardinality(active) <= MaxParallel)'
    BY <2>1, FS_EmptySet, BoundsAssumption
  <2> QED
    BY <2>2, <2>3 DEF SlotInv, ActiveDrainsAreLive
<1>10. CASE Boot
  BY <1>1, <1>10 DEF Boot, Live
<1>11. CASE Recovery
  <2>1. ASSUME NEW t \in Triggers, NEW p \in Projects, Restart(t, p)
        PROVE  SlotInv'
    <3>1. Register(p, t, TRUE, "running") /\ EnterLoop(p, t) /\ active' = active
      BY <2>1 DEF Restart
    <3> QED
      BY <1>3, <3>1
  <2>2. ASSUME NEW p \in Projects, RestartBusyNight(p)
        PROVE  SlotInv'
    BY <1>2, <2>2 DEF RestartBusyNight
  <2>3. ASSUME NEW t \in Triggers, NEW p \in Projects, RestartSkip(t, p)
        PROVE  SlotInv'
    BY <1>1, <2>3 DEF RestartSkip, Live
  <2>4. ASSUME NEW open \in BOOLEAN, NightGate(open)
        PROVE  SlotInv'
    BY <1>1, <2>4 DEF NightGate, Live
  <2> QED
    BY <1>11, <2>1, <2>2, <2>3, <2>4 DEF Recovery, Recover
<1>12. CASE \E p \in Projects : SessionsChange(p)
  BY <1>1, <1>12 DEF SessionsChange, Live
<1>13. CASE UNCHANGED vars
  BY <1>1, <1>13 DEF vars, Live
<1> QED
  BY <1>6, <1>7, <1>8, <1>9, <1>10, <1>11, <1>12, <1>13 DEF Next

\* #activeDrains names exactly the projects of the live night drains, and there
\* are never more than maxParallel of them.
THEOREM SlotsCorrect == Spec => []ActiveDrainsAreLive
<1>1. Init => SlotInv
  BY FS_EmptySet DEF Init, SlotInv, ActiveDrainsAreLive, Live
<1>2. IInv /\ IInv' /\ SlotInv /\ [Next]_vars => SlotInv'
  BY SlotStep
<1>3. SlotInv => ActiveDrainsAreLive
  BY DEF SlotInv
<1> QED
  BY InvariantHolds, <1>1, <1>2, <1>3, PTL DEF Spec

-----------------------------------------------------------------------------

\* Orphans are drains of an earlier process life.
OrphansAreOver == \A d \in orphans : d <= used /\ ~Live(d)

\* An answered stop that is not lost is on its way to the file: a write is queued,
\* or is writing it, or the file has it.
StopsAreKept ==
  \A d \in stopped \ lost :
    /\ d <= used /\ d \notin orphans
    /\ up => /\ mem[d] = "aborted"
             /\ \/ file[d] = "aborted"
                \/ pending > 0
                \/ writing /\ snapshot[d] = "aborted"
    /\ ~up => file[d] = "aborted"

StopInv == OrphansAreOver /\ StopsAreKept

\* Steps that leave files, writes and the history alone and bring no entry back.
LEMMA StopInvFrame ==
  ASSUME DInv, StopInv, UNCHANGED <<up, disk, history>>, orphans' \subseteq orphans,
         used' >= used, used' \in Nat, pending' \in Nat, pending' >= pending,
         \A d \in Ids : d <= used /\ ~Live(d) => ~Live(d)',
         \A d \in Ids : d <= used /\ mem[d] = "aborted" => mem'[d] = "aborted"
  PROVE  StopInv'
<1> USE DEF DInv, IInv, TypeOK, RegistryTypeOK, DiskTypeOK, RecoveryTypeOK, StopInv,
            disk, history
<1>1. OrphansAreOver'
  BY DEF OrphansAreOver
<1>2. StopsAreKept'
  BY DEF StopsAreKept
<1> QED
  BY <1>1, <1>2

\* Every step keeps the way of a stop to the file.
LEMMA StopInvStep == DInv /\ StopInv /\ [Next]_vars => StopInv'
<1> SUFFICES ASSUME DInv, StopInv, [Next]_vars PROVE StopInv'
  OBVIOUS
<1> USE DEF DInv, IInv, TypeOK, RegistryTypeOK, DiskTypeOK, RecoveryTypeOK, registry,
            disk, recovery, history
<1>1. ASSUME NEW p, NEW t, NEW b, NEW s, Register(p, t, b, s),
             UNCHANGED <<up, disk, history>>, orphans' \subseteq orphans,
             pending' \in {pending + 1, pending + 2},
             loop' = loop \/ EnterLoop(p, t)
      PROVE  StopInv'
  <2>1. /\ used' = used + 1 /\ used' \in Nat
        /\ mem' = [mem EXCEPT ![used + 1] = s]
        /\ loop' = loop \/ loop' = [loop EXCEPT ![used + 1] = "sync"]
    BY <1>1 DEF Register, EnterLoop
  <2>2. \A d \in Ids : d <= used => d # used + 1
    OBVIOUS
  <2>3. \A d \in Ids : d <= used => mem'[d] = mem[d] /\ loop'[d] = loop[d]
    BY <2>1, <2>2 DEF RuntimeTypeOK
  <2> QED
    BY <1>1, <2>1, <2>3, StopInvFrame DEF Live
<1>2. CASE \E p \in Projects : Starts(p)
  BY <1>1, <1>2 DEF Starts, ManualStart, NightStart, NightStartBusy
<1>3. ASSUME NEW d \in Ids, Stop(d)
      PROVE  StopInv'
  <2>1. up /\ Live(d) /\ d <= used
    BY <1>3 DEF Stop, HandlesExactly, FreshIdsAreUnused, Live
  <2>2. d \notin orphans /\ OrphansAreOver'
    BY <1>3, <2>1 DEF Stop, StopInv, OrphansAreOver, Live
  <2>3. mem'[d] = "aborted" /\ \A e \in Ids : mem[e] = "aborted" => mem'[e] = "aborted"
    BY <1>3 DEF Stop, Mark
  <2>4. d \in stopped \/ pending' > 0
    BY <1>3, <2>1 DEF Stop, Mark, RegistryTellsTheTruth
  <2>5. pending' \in Nat /\ pending' >= pending
    BY <1>3 DEF Stop, Mark
  <2>6. StopsAreKept'
    <3> SUFFICES ASSUME NEW e \in stopped' \ lost'
                 PROVE  /\ e <= used' /\ e \notin orphans'
                        /\ mem'[e] = "aborted"
                        /\ file'[e] = "aborted" \/ pending' > 0
                             \/ (writing' /\ snapshot'[e] = "aborted")
      BY <1>3, <2>1 DEF StopsAreKept, Stop
    <3>1. CASE e \in stopped
      BY <1>3, <2>1, <2>3, <2>5, <3>1 DEF Stop, StopInv, StopsAreKept
    <3>2. CASE e \notin stopped
      BY <1>3, <2>1, <2>2, <2>3, <2>4, <3>2 DEF Stop
    <3> QED
      BY <3>1, <3>2
  <2> QED
    BY <2>2, <2>6 DEF StopInv
<1>4. ASSUME NEW d \in Ids, NEW s, Finish(d, s)
      PROVE  StopInv'
  <2>1. pending' \in Nat /\ pending' >= pending
    BY <1>4 DEF Finish, Mark
  <2>2. \A e \in Ids : mem[e] = "aborted" => mem'[e] = "aborted"
    BY <1>4 DEF Finish, Mark
  <2>3. \A e \in Ids : ~Live(e) => ~Live(e)'
    BY <1>4 DEF Finish, Live, RuntimeTypeOK
  <2> QED
    BY <1>4, <2>1, <2>2, <2>3, StopInvFrame DEF Finish
<1>5. CASE \E d \in Ids : LoopStep(d)
  <2>1. ASSUME NEW d \in Ids, Synced(d) \/ BeginRound(d) \/ EndRound(d)
        PROVE  StopInv'
    <3>1. \A e \in Ids : ~Live(e) => ~Live(e)'
      BY <2>1 DEF Synced, BeginRound, EndRound, Move, Live, RuntimeTypeOK
    <3> QED
      BY <2>1, <3>1, StopInvFrame DEF Synced, BeginRound, EndRound, Move
  <2> QED
    BY <1>4, <1>5, <2>1 DEF LoopStep, FinishAborted, FinishDone, FinishFailed
<1>6. CASE PersistBegin
  BY <1>6 DEF PersistBegin, StopInv, OrphansAreOver, StopsAreKept, Live,
              DownMeansEmpty
<1>7. CASE PersistCommit
  BY <1>7 DEF PersistCommit, StopInv, OrphansAreOver, StopsAreKept, Live,
              SnapshotsAgreeOnEnds, Ended, DownMeansEmpty
<1>8. CASE PersistFail
  BY <1>8 DEF PersistFail, StopInv, OrphansAreOver, StopsAreKept, Live,
              DownMeansEmpty
<1>9. CASE Crash
  BY <1>9 DEF Crash, StopInv, OrphansAreOver, StopsAreKept, Live
<1>10. CASE Boot
  BY <1>10 DEF Boot, StopInv, OrphansAreOver, StopsAreKept, Live, DownMeansEmpty,
               FreshIdsAreUnused
<1>11. CASE Recovery
  <2>1. ASSUME NEW t \in Triggers, NEW p \in Projects, Restart(t, p)
        PROVE  StopInv'
    BY <1>1, <2>1 DEF Restart, Turn
  <2>2. ASSUME NEW p \in Projects, RestartBusyNight(p)
        PROVE  StopInv'
    BY <1>1, <2>2 DEF RestartBusyNight, Turn
  <2>3. ASSUME NEW t \in Triggers, NEW p \in Projects, RestartSkip(t, p)
        PROVE  StopInv'
    BY <2>3, StopInvFrame DEF RestartSkip, Turn, Live
  <2>4. ASSUME NEW open \in BOOLEAN, NightGate(open)
        PROVE  StopInv'
    BY <2>4, StopInvFrame DEF NightGate, Live
  <2> QED
    BY <1>11, <2>1, <2>2, <2>3, <2>4 DEF Recovery, Recover
<1>12. CASE \E p \in Projects : SessionsChange(p)
  BY <1>12, StopInvFrame DEF SessionsChange, Live
<1>13. CASE UNCHANGED vars
  BY <1>13, StopInvFrame DEF vars, Live
<1> QED
  BY <1>2, <1>3, <1>5, <1>6, <1>7, <1>8, <1>9, <1>10, <1>11, <1>12, <1>13
     DEF Next, Persist

\* A stop answered with 202 is undone by BootDrainRecovery only if a crash cut its
\* write off, queued or in progress, or the write failed.
THEOREM StopsAreKeptCorrect == Spec => []UndoneStopsWereLost
<1>1. Init => StopInv
  BY DEF Init, StopInv, OrphansAreOver, StopsAreKept
<1>2. StopInv => UndoneStopsWereLost
  BY DEF StopInv, StopsAreKept, UndoneStopsWereLost
<1> QED
  BY <1>1, <1>2, StopInvStep, DiskInvariantHolds, PTL DEF Spec

-----------------------------------------------------------------------------
(* DrainLifecycle implements DrainSession.                                 *)

\* Whoever has been asked to stop will see it before the next round.
AskedInv == \A d \in stopped : d <= used /\ (Live(d) => handle[d] = "aborted")

\* What a step may do to the history of stops and to the handles.
LEMMA AskedStep == IInv /\ AskedInv /\ [Next]_vars => AskedInv'
<1> SUFFICES ASSUME IInv, AskedInv, [Next]_vars PROVE AskedInv'
  OBVIOUS
<1> USE DEF registry, recovery, history
<1>0. /\ used \in Nat
      /\ loop \in [Ids -> Phases]
      /\ handle \in [Ids -> {"none", "armed", "aborted"}]
      /\ stopped \subseteq Ids
  BY DEF IInv, TypeOK, RegistryTypeOK, RuntimeTypeOK, RecoveryTypeOK
<1>a. ASSUME UNCHANGED <<used, loop, handle, stopped>> PROVE AskedInv'
  BY <1>a DEF AskedInv, Live
<1>b. ASSUME used' = used + 1, stopped' = stopped,
             \A d \in Ids : d <= used => loop'[d] = loop[d] /\ handle'[d] = handle[d]
      PROVE  AskedInv'
  BY <1>0, <1>b DEF AskedInv, Live
<1>c. ASSUME NEW d \in Ids, NEW to, loop' = [loop EXCEPT ![d] = to],
             UNCHANGED <<used, stopped>>,
             \/ loop[d] # "off" /\ handle' = handle
             \/ to = "off" /\ handle' = [handle EXCEPT ![d] = "none"]
      PROVE  AskedInv'
  BY <1>0, <1>c DEF AskedInv, Live
<1>1. ASSUME NEW p \in Projects, Starts(p) PROVE AskedInv'
  <2>1. CASE ManualStart(p)
    <3>1. /\ used' = used + 1 /\ stopped' = stopped
          /\ loop' = [loop EXCEPT ![used + 1] = "sync"]
          /\ handle' = [handle EXCEPT ![used + 1] = "armed"]
      BY <2>1 DEF ManualStart, Register, EnterLoop
    <3> QED
      BY <3>1, <1>0, <1>b
  <2>2. CASE NightStart(p)
    <3>1. /\ used' = used + 1 /\ stopped' = stopped
          /\ loop' = [loop EXCEPT ![used + 1] = "sync"]
          /\ handle' = [handle EXCEPT ![used + 1] = "armed"]
      BY <2>2 DEF NightStart, Register, EnterLoop
    <3> QED
      BY <3>1, <1>0, <1>b
  <2>3. CASE NightStartBusy(p)
    BY <2>3, <1>b DEF NightStartBusy, Register
  <2> QED
    BY <1>1, <2>1, <2>2, <2>3 DEF Starts
<1>2. ASSUME NEW d \in Ids, Stop(d) PROVE AskedInv'
  <2>1. Live(d)
    BY <1>2 DEF IInv, HandlesExactly, Stop
  <2>2. d <= used
    BY <2>1, <1>0 DEF IInv, FreshIdsAreUnused, Live
  <2> QED
    BY <1>0, <1>2, <2>2 DEF Stop, AskedInv, Live
<1>3. ASSUME NEW d \in Ids, LoopStep(d) PROVE AskedInv'
  <2>1. CASE Synced(d) \/ BeginRound(d) \/ EndRound(d)
    <3>1. PICK to : loop[d] # "off" /\ loop' = [loop EXCEPT ![d] = to]
                      /\ UNCHANGED <<used, stopped, handle>>
      BY <2>1 DEF Synced, BeginRound, EndRound, Move
    <3> QED
      BY <3>1, <1>c
  <2>2. CASE FinishAborted(d) \/ FinishDone(d) \/ FinishFailed(d)
    <3>1. /\ loop' = [loop EXCEPT ![d] = "off"]
          /\ handle' = [handle EXCEPT ![d] = "none"]
          /\ UNCHANGED <<used, stopped>>
      BY <2>2 DEF FinishAborted, FinishDone, FinishFailed, Finish
    <3> QED
      BY <3>1, <1>c
  <2> QED
    BY <1>3, <2>1, <2>2 DEF LoopStep
<1>4. CASE Persist \/ Boot
  BY <1>4, <1>a DEF Persist, PersistBegin, PersistCommit, PersistFail, Boot
<1>8. CASE Crash
  <2>1. loop' = [d \in Ids |-> "off"] /\ UNCHANGED <<used, stopped>>
    BY <1>8 DEF Crash
  <2> QED
    BY <1>0, <2>1 DEF AskedInv, Live
<1>5. ASSUME NEW t \in Triggers, NEW p \in Projects, Recover(t, p) PROVE AskedInv'
  <2>1. CASE Restart(t, p)
    <3>1. /\ used' = used + 1 /\ UNCHANGED <<handle, stopped>>
          /\ loop' = [loop EXCEPT ![used + 1] = "sync"]
      BY <2>1 DEF Restart, Register, EnterLoop
    <3> QED
      BY <3>1, <1>0, <1>b
  <2>2. CASE RestartSkip(t, p)
    BY <2>2, <1>a DEF RestartSkip
  <2>3. CASE t = "night" /\ RestartBusyNight(p)
    BY <2>3, <1>b DEF RestartBusyNight, Register
  <2> QED
    BY <1>5, <2>1, <2>2, <2>3 DEF Recover
<1>6. ASSUME NEW open \in BOOLEAN, NightGate(open) PROVE AskedInv'
  BY <1>6, <1>a DEF NightGate
<1>7. CASE (\E p \in Projects : SessionsChange(p)) \/ UNCHANGED vars
  BY <1>7, <1>a DEF SessionsChange, vars
<1> QED
  BY <1>1, <1>2, <1>3, <1>4, <1>5, <1>6, <1>7, <1>8 DEF Next, Recovery

\* The refinement mapping.
Wheres == [d \in Ids |-> Where(d)]
Lanes  == [d \in Ids |-> <<trig[d], proj[d]>>]

LEMMA Mapping ==
  ASSUME TypeOK, NEW d \in Ids
  PROVE  (Wheres[d] \in {"idle", "round"}) <=> (d <= used /\ Live(d))
BY DEF Wheres, Where, Live, TypeOK, RegistryTypeOK

\* A step that changes neither loops nor ids is none of a session.
LEMMA Stutters ==
  ASSUME UNCHANGED <<used, loop, trig, proj, stopped>>
  PROVE  UNCHANGED Session!vars
<1>1. Wheres' = Wheres /\ Lanes' = Lanes
  BY DEF Wheres, Where, Lanes
<1> QED
  BY <1>1 DEF Session!vars, Wheres, Lanes

\* An id is handed out, and its drain takes the lock or finds its project busy.
LEMMA Registers ==
  ASSUME IInv, NEW t \in Triggers, NEW p \in Projects, NEW b, NEW s, Register(p, t, b, s),
         EnterLoop(p, t) \/ loop' = loop, stopped' = stopped
  PROVE  Session!Next
<1> DEFINE d == used + 1
           l == <<t, p>>
<1>1. TypeOK /\ d \in Ids /\ used \in Nat /\ used' = d
  BY DEF IInv, TypeOK, RegistryTypeOK, Register
<1>2. loop[d] = "off" /\ Wheres[d] = "new"
  BY <1>1 DEF IInv, FreshIdsAreUnused, Wheres, Where
<1>3. Lanes' = [Lanes EXCEPT ![d] = l]
  BY <1>1 DEF Register, Lanes, TypeOK, RegistryTypeOK
<1>4. l \in Triggers \X Projects
  OBVIOUS
<1>5. CASE EnterLoop(p, t)
  <2>1. Wheres' = [Wheres EXCEPT ![d] = "idle"]
    <3>1. loop \in [Ids -> Phases] /\ loop' = [loop EXCEPT ![d] = "sync"]
      BY <1>1, <1>5 DEF EnterLoop, TypeOK, RuntimeTypeOK
    <3>2. ASSUME NEW e \in Ids
          PROVE  Wheres'[e] = IF e = d THEN "idle" ELSE Wheres[e]
      <4>1. CASE e = d
        BY <1>1, <3>1, <4>1 DEF Wheres, Where
      <4>2. CASE e # d
        <5>1. loop'[e] = loop[e] /\ (e > used' <=> e > used)
          BY <1>1, <3>1, <4>2
        <5> QED
          BY <4>2, <5>1 DEF Wheres, Where
      <4> QED
        BY <4>1, <4>2
    <3> QED
      BY <1>1, <3>2 DEF Wheres
  <2>2. \A e \in Ids : Wheres[e] \in {"idle", "round"} => Lanes[e] # l
    <3>1. ~ \E e \in Ids : Live(e) /\ trig[e] = t /\ proj[e] = p
      BY <1>5 DEF EnterLoop, IsProjectBusy, IInv, LockIsHeldByItsLoop
    <3> QED
      BY <1>1, <3>1, Mapping DEF Lanes
  <2>3. Session!Begin(d, l)
    BY <1>2, <1>3, <2>1, <2>2
    DEF Session!Begin, Session!Goes, Session!Free, Session!Open, Wheres, Lanes
  <2> QED
    BY <1>1, <1>4, <2>3 DEF Session!Next, Session!Lanes
<1>6. CASE loop' = loop
  <2>1. Wheres' = [Wheres EXCEPT ![d] = "over"]
    <3>1. ASSUME NEW e \in Ids
          PROVE  Wheres'[e] = IF e = d THEN "over" ELSE Wheres[e]
      <4>1. CASE e = d
        BY <1>1, <1>2, <1>6, <4>1 DEF Wheres, Where
      <4>2. CASE e # d
        <5>1. e > used' <=> e > used
          BY <1>1, <4>2
        <5> QED
          BY <1>6, <4>2, <5>1 DEF Wheres, Where
      <4> QED
        BY <4>1, <4>2
    <3> QED
      BY <1>1, <3>1 DEF Wheres
  <2>2. Session!Refuse(d, l)
    BY <1>2, <1>3, <2>1 DEF Session!Refuse, Session!Goes, Wheres, Lanes
  <2> QED
    BY <1>1, <1>4, <2>2 DEF Session!Next, Session!Lanes
<1> QED
  BY <1>5, <1>6

\* The loop of one drain moves.
LEMMA LoopMoves ==
  ASSUME IInv, NEW d \in Ids, loop[d] # "off", NEW to, loop' = [loop EXCEPT ![d] = to],
         UNCHANGED <<used, trig, proj, stopped>>
  PROVE  /\ d <= used
         /\ to = "off" => Wheres' = [Wheres EXCEPT ![d] = "over"]
         /\ to = "round" => Wheres' = [Wheres EXCEPT ![d] = "round"]
         /\ to = "check" => Wheres' = [Wheres EXCEPT ![d] = "idle"]
         /\ Lanes' = Lanes
<1>1. used \in Nat /\ loop \in [Ids -> Phases]
  BY DEF IInv, TypeOK, RegistryTypeOK, RuntimeTypeOK
<1>2. d <= used
  BY <1>1 DEF IInv, FreshIdsAreUnused
<1>3. \A e \in Ids : e # d => Wheres'[e] = Wheres[e]
  BY <1>1 DEF Wheres, Where
<1>4. /\ to = "off" => Wheres'[d] = "over"
      /\ to = "round" => Wheres'[d] = "round"
      /\ to = "check" => Wheres'[d] = "idle"
  BY <1>1, <1>2 DEF Wheres, Where
<1>5. \A w : Wheres'[d] = w => Wheres' = [Wheres EXCEPT ![d] = w]
  BY <1>3 DEF Wheres
<1>6. Lanes' = Lanes
  BY DEF Lanes
<1> QED
  BY <1>2, <1>4, <1>5, <1>6

LEMMA LoopStepIsOfSession ==
  ASSUME IInv, AskedInv, NEW d \in Ids, LoopStep(d)
  PROVE  Session!Next \/ UNCHANGED Session!vars
<1> USE DEF registry, history
<1>1. CASE Synced(d)
  <2>1. loop[d] = "sync" /\ loop' = [loop EXCEPT ![d] = "check"]
          /\ UNCHANGED <<used, trig, proj, stopped>>
    BY <1>1 DEF Synced, Move
  <2>2. Wheres' = [Wheres EXCEPT ![d] = "idle"] /\ Lanes' = Lanes /\ d <= used
    BY <2>1, LoopMoves
  <2>3. Wheres[d] = "idle"
    BY <2>1, <2>2 DEF Wheres, Where, IInv, TypeOK, RegistryTypeOK
  <2>4. Wheres' = Wheres
    BY <2>2, <2>3 DEF Wheres
  <2> QED
    BY <2>1, <2>2, <2>4 DEF Session!vars, Wheres, Lanes
<1>2. CASE BeginRound(d)
  <2>1. loop[d] = "check" /\ loop' = [loop EXCEPT ![d] = "round"] /\ handle[d] # "aborted"
          /\ UNCHANGED <<used, trig, proj, stopped>>
    BY <1>2 DEF BeginRound, Move
  <2>2. Wheres' = [Wheres EXCEPT ![d] = "round"] /\ Lanes' = Lanes /\ d <= used
    BY <2>1, LoopMoves
  <2>3. Wheres[d] = "idle"
    BY <2>1, <2>2 DEF Wheres, Where, IInv, TypeOK, RegistryTypeOK
  <2>4. d \notin stopped
    BY <2>1 DEF AskedInv, Live
  <2> QED
    BY <2>1, <2>2, <2>3, <2>4 DEF Session!Next, Session!Round, Session!Goes, Wheres, Lanes
<1>3. CASE EndRound(d)
  <2>1. loop[d] = "round" /\ loop' = [loop EXCEPT ![d] = "check"]
          /\ UNCHANGED <<used, trig, proj, stopped>>
    BY <1>3 DEF EndRound, Move
  <2>2. Wheres' = [Wheres EXCEPT ![d] = "idle"] /\ Lanes' = Lanes /\ d <= used
    BY <2>1, LoopMoves
  <2>3. Wheres[d] = "round"
    BY <2>1, <2>2 DEF Wheres, Where, IInv, TypeOK, RegistryTypeOK
  <2> QED
    BY <2>1, <2>2, <2>3 DEF Session!Next, Session!Return, Session!Goes, Wheres, Lanes
<1>4. CASE FinishAborted(d) \/ FinishDone(d) \/ FinishFailed(d)
  <2>1. loop[d] # "off" /\ loop' = [loop EXCEPT ![d] = "off"]
          /\ UNCHANGED <<used, trig, proj, stopped>>
    BY <1>4 DEF FinishAborted, FinishDone, FinishFailed, Finish
  <2>2. Wheres' = [Wheres EXCEPT ![d] = "over"] /\ Lanes' = Lanes /\ d <= used
    BY <2>1, LoopMoves
  <2>3. Wheres[d] \in {"idle", "round"}
    BY <2>1, <2>2, Mapping DEF IInv, Live
  <2> QED
    BY <2>1, <2>2, <2>3
    DEF Session!Next, Session!Close, Session!Open, Session!Goes, Wheres, Lanes
<1> QED
  BY <1>1, <1>2, <1>3, <1>4 DEF LoopStep

\* Every step is one of a session, or none that a user of it would see.
LEMMA StepIsOfSession ==
  IInv /\ AskedInv /\ [Next]_vars => [Session!Next]_(Session!vars)
<1> SUFFICES ASSUME IInv, AskedInv, [Next]_vars
             PROVE  Session!Next \/ UNCHANGED Session!vars
  OBVIOUS
<1> USE DEF registry, disk, recovery, history
<1>1. ASSUME NEW p \in Projects, Starts(p) PROVE Session!Next
  <2>1. CASE ManualStart(p)
    BY <2>1, Registers DEF ManualStart
  <2>2. CASE NightStart(p)
    BY <2>2, Registers DEF NightStart
  <2>3. CASE NightStartBusy(p)
    BY <2>3, Registers DEF NightStartBusy
  <2> QED
    BY <1>1, <2>1, <2>2, <2>3 DEF Starts
<1>2. ASSUME NEW d \in Ids, Stop(d) PROVE Session!Next
  <2>1. d <= used /\ Live(d)
    BY <1>2
    DEF Stop, IInv, HandlesExactly, FreshIdsAreUnused, Live, TypeOK, RegistryTypeOK
  <2>2. Wheres[d] \in {"idle", "round"}
    BY <2>1, Mapping DEF IInv
  <2>3. Wheres' = Wheres /\ Lanes' = Lanes /\ stopped' = stopped \cup {d}
    BY <1>2 DEF Stop, Wheres, Where, Lanes
  <2> QED
    BY <2>2, <2>3 DEF Session!Next, Session!Ask, Session!Open, Wheres, Lanes
<1>3. CASE Crash
  <2>1. Wheres' = [d \in Ids |-> IF Wheres[d] \in {"idle", "round"} THEN "over" ELSE Wheres[d]]
    <3>1. used' = used /\ loop' = [d \in Ids |-> "off"]
      BY <1>3 DEF Crash
    <3> QED
      BY <3>1 DEF Wheres, Where
  <2>2. Lanes' = Lanes /\ stopped' = stopped
    BY <1>3 DEF Crash, Lanes
  <2> QED
    BY <2>1, <2>2 DEF Session!Next, Session!Outage, Session!Open, Wheres, Lanes
<1>4. CASE Persist \/ Boot \/ \E p \in Projects : SessionsChange(p)
  BY <1>4, Stutters
  DEF Persist, PersistBegin, PersistCommit, PersistFail, Boot, SessionsChange
<1>5. ASSUME NEW t \in Triggers, NEW p \in Projects, Recover(t, p)
      PROVE  Session!Next \/ UNCHANGED Session!vars
  <2>1. CASE Restart(t, p)
    BY <2>1, Registers DEF Restart
  <2>2. CASE RestartSkip(t, p)
    BY <2>2, Stutters DEF RestartSkip
  <2>3. CASE t = "night" /\ RestartBusyNight(p)
    BY <2>3, Registers DEF RestartBusyNight
  <2> QED
    BY <1>5, <2>1, <2>2, <2>3 DEF Recover
<1>6. ASSUME NEW open \in BOOLEAN, NightGate(open) PROVE UNCHANGED Session!vars
  BY <1>6, Stutters DEF NightGate
<1>7. CASE UNCHANGED vars
  BY <1>7, Stutters DEF vars
<1> QED
  BY <1>1, <1>2, <1>3, <1>4, <1>5, <1>6, <1>7, LoopStepIsOfSession DEF Next, Recovery

\* Each drain is a session of DrainSession, through crashes and recoveries: alone
\* on its engine and project, over for good when it has ended, and never in
\* another round once its stop has been answered.
THEOREM KeepsSessionsCorrect == Spec => Session!Spec
<1>1. Init => Session!Init
  <2> SUFFICES ASSUME Init PROVE Session!Init
    OBVIOUS
  <2>1. Wheres = [d \in Ids |-> "new"]
    BY DEF Init, Wheres, Where
  <2>2. Lanes \in [Ids -> Triggers \X Projects]
    BY DEF Init, Lanes
  <2> QED
    BY <2>1, <2>2 DEF Init, Session!Init, Session!Lanes, Wheres, Lanes
<1>2. Init => AskedInv
  BY DEF Init, AskedInv
<1> QED
  BY <1>1, <1>2, InvariantHolds, AskedStep, StepIsOfSession, PTL DEF Spec, Session!Spec
=============================================================================
