-------------------------- MODULE FeatureDrainProofs --------------------------
(***************************************************************************)
(* What holds of FeatureDrain for every set of features and projects and   *)
(* any number of runs and crashes.                                         *)
(***************************************************************************)
EXTENDS FeatureDrain, TLAPS

\* ids not handed out yet belong to no run, and a dead process has no runs
PhaseInv ==
  /\ \A r \in Runs : r > used => phase[r] = "off"
  /\ ~up => \A r \in Runs : phase[r] \in {"off", "over"}

\* a live run holds the lock of its feature
HoldsLock ==
  "error" \notin faults => \A r \in Runs : Live(r) => feature[r] \in lock

\* a run has met 'error' only where there are such faults
FailingInv ==
  \A r \in Runs : phase[r] = "failing" => "error" \in faults

LockInv ==
  /\ PhaseInv
  /\ FailingInv
  /\ HoldsLock
  /\ OneScriptPerFeature
  /\ LockBelongsToRun

IInv == TypeOK /\ LockInv /\ RegistryFollowsRuns

-----------------------------------------------------------------------------
LEMMA InitInv == Init => IInv
<1> SUFFICES ASSUME Init PROVE IInv
  OBVIOUS
<1>1. TypeOK
  BY FeatureAssumption DEF Init, TypeOK, Runs, Starters, Phases, Entries
<1>2. LockInv
  BY DEF Init, LockInv, PhaseInv, FailingInv, HoldsLock, OneScriptPerFeature,
         LockBelongsToRun, Live
<1>3. RegistryFollowsRuns
  BY DEF Init, RegistryFollowsRuns, ButtonScript
<1>4. QED
  BY <1>1, <1>2, <1>3 DEF IInv

\* What an operation of the registry leaves behind is well typed.
LEMMA StoreType ==
  ASSUME TypeOK, NEW f \in Features, NEW status \in Entries, Store(f, status)
  PROVE  /\ reg' \in [Features -> Entries]
         /\ file' \in [Features -> Entries]
         /\ loaded' \in SUBSET Features
<1>1. reg' \in [Features -> Entries]
  BY DEF TypeOK, Store
<1>2. file' \in [Features -> Entries]
  BY <1>1 DEF TypeOK, Store, Persist
<1>3. loaded' \in SUBSET Features
  BY DEF TypeOK, Store
<1>4. QED
  BY <1>1, <1>2, <1>3

LEMMA EndedType ==
  ASSUME TypeOK, NEW f \in Features, NEW status \in {"done", "failed"},
         Ended(f, status)
  PROVE  /\ reg' \in [Features -> Entries]
         /\ file' \in [Features -> Entries]
         /\ loaded' \in SUBSET Features
<1>1. CASE Store(f, status)
  BY <1>1, StoreType DEF Entries
<1>2. CASE UNCHANGED registryVars
  BY <1>2 DEF registryVars, TypeOK
<1>3. QED
  BY <1>1, <1>2 DEF Ended

\* An end event keeps the types.
LEMMA SettleType ==
  ASSUME TypeOK, NEW r \in Runs, NEW status \in {"done", "failed"},
         Settle(r, status)
  PROVE  /\ reg' \in [Features -> Entries]
         /\ file' \in [Features -> Entries]
         /\ loaded' \in SUBSET Features
         /\ lock' \in SUBSET Features
         /\ awaited' = awaited
<1>1. feature[r] \in Features
  BY DEF TypeOK
<1>2. lock' \in SUBSET Features /\ awaited' = awaited
  BY DEF TypeOK, Settle, Release
<1>3. CASE starter[r] = "button"
  BY <1>1, <1>2, <1>3, EndedType DEF Settle
<1>4. CASE starter[r] # "button"
  BY <1>2, <1>4 DEF Settle, registryVars, TypeOK
<1>5. QED
  BY <1>3, <1>4

\* Resolving the plugin root keeps the types.
LEMMA ResolvedType ==
  ASSUME TypeOK, NEW r \in Runs, Resolved(r)
  PROVE  /\ reg' \in [Features -> Entries]
         /\ file' \in [Features -> Entries]
         /\ loaded' \in SUBSET Features
         /\ lock' \in SUBSET Features
         /\ awaited' \in SUBSET Runs
<1>1. feature[r] \in Features
  BY DEF TypeOK
<1>2. lock' \in SUBSET Features /\ awaited' \in SUBSET Runs
  BY DEF TypeOK, Resolved, Unavailable, Spawn, SpawnThrows, Release
<1>3. CASE Register(feature[r])
  BY <1>1, <1>2, <1>3, StoreType DEF Register, Entries
<1>4. CASE UNCHANGED registryVars
  BY <1>2, <1>4 DEF registryVars, TypeOK
<1>5. QED
  BY <1>3, <1>4 DEF Resolved, Unavailable, Spawn, SpawnThrows

\* Every step keeps the types.
LEMMA StepType == TypeOK /\ [Next]_vars => TypeOK'
<1> SUFFICES ASSUME TypeOK, [Next]_vars PROVE TypeOK'
  OBVIOUS
<1>1. ASSUME NEW s \in Starters, NEW f \in Features, Start(s, f)
      PROVE  TypeOK'
  <2>1. used + 1 \in Runs /\ used' \in 0..MaxRuns
    BY <1>1, FeatureAssumption DEF Start, Admit, TypeOK, Runs
  <2>2. /\ feature' \in [Runs -> Features]
        /\ starter' \in [Runs -> Starters]
        /\ phase' \in [Runs -> Phases]
        /\ awaited' \in SUBSET Runs
        /\ lock' \in SUBSET Features
    BY <1>1, <2>1 DEF Start, Admit, TypeOK, Phases
  <2>3. QED
    BY <1>1, <2>1, <2>2 DEF Start, Admit, TypeOK, registryVars
<1>2. ASSUME NEW r \in Runs, Resolved(r)
      PROVE  TypeOK'
  <2>1. phase' \in [Runs -> Phases] /\ UNCHANGED <<up, faults, runVars, crashes>>
    BY <1>2 DEF Resolved, Unavailable, Spawn, SpawnThrows, Move, TypeOK, Phases
  <2>2. QED
    BY <1>2, <2>1, ResolvedType DEF TypeOK, runVars
<1>3. ASSUME NEW r \in Runs, Finished(r) \/ CloseAfterError(r)
      PROVE  TypeOK'
  <2>1. phase' \in [Runs -> Phases] /\ UNCHANGED <<up, faults, runVars, crashes>>
    BY <1>3 DEF Finished, Exit, ChildError, CloseAfterError, Move, TypeOK, Phases
  <2>2. PICK status \in {"done", "failed"} : Settle(r, status)
    BY <1>3 DEF Finished, Exit, ChildError, CloseAfterError
  <2>3. QED
    BY <2>1, <2>2, SettleType DEF TypeOK, runVars
<1>4. ASSUME NEW r \in Runs, Awaited(r)
      PROVE  TypeOK'
  BY <1>4 DEF Awaited, TypeOK, runVars, registryVars
<1>5. CASE Crash
  <2>1. phase' \in [Runs -> Phases] /\ reg' \in [Features -> Entries]
    BY <1>5 DEF Crash, Phases, Entries
  <2>2. crashes' \in 0..MaxCrashes
    BY <1>5, FeatureAssumption DEF Crash, TypeOK
  <2>3. QED
    BY <1>5, <2>1, <2>2 DEF Crash, TypeOK, runVars
<1>6. CASE Boot
  BY <1>6 DEF Boot, TypeOK, runVars
<1>7. CASE UNCHANGED vars
  BY <1>7 DEF vars, TypeOK, runVars, registryVars
<1>8. QED
  BY <1>1, <1>2, <1>3, <1>4, <1>5, <1>6, <1>7 DEF Next, RunStep

\* The types of all variables are invariant.
THEOREM TypeCorrect == Spec => []TypeOK
<1>1. Init => TypeOK
  BY InitInv DEF IInv
<1>2. QED
  BY <1>1, StepType, PTL DEF Spec

-----------------------------------------------------------------------------
\* A run that begins takes a free lock, so it shares its feature with nobody.
LEMMA StartKeepsLocks ==
  ASSUME TypeOK, LockInv, NEW s \in Starters, NEW f \in Features, Start(s, f)
  PROVE  LockInv'
<1>0. PICK new \in Runs : new = used + 1 /\ used \in Nat
  BY FeatureAssumption DEF Start, Admit, TypeOK, Runs
<1>1. /\ used < new /\ up /\ up' /\ used' = new
      /\ feature' = [feature EXCEPT ![new] = f]
      /\ phase' = [phase EXCEPT ![new] = "resolve"]
      /\ lock' = lock \cup {f} /\ f \notin lock /\ faults' = faults
  BY <1>0 DEF Start, Admit
<1>2. /\ feature'[new] = f /\ Live(new)'
      /\ \A r \in Runs : r # new => feature'[r] = feature[r] /\ phase'[r] = phase[r]
  BY <1>1 DEF TypeOK, Live
<1>3. ~Live(new)
  BY <1>0, <1>1 DEF LockInv, PhaseInv, Live
<1>4. \A r \in Runs : Live(r)' => r = new \/ Live(r)
  BY <1>2 DEF Live
<1>5. PhaseInv'
  <2>1. \A r \in Runs : r > new => r # new /\ r > used
    BY <1>0 DEF Runs
  <2>2. QED
    BY <1>1, <1>2, <2>1 DEF LockInv, PhaseInv
<1>6. HoldsLock'
  BY <1>1, <1>2, <1>4 DEF LockInv, HoldsLock
<1>7. OneScriptPerFeature'
  <2>1. ASSUME "error" \notin faults, NEW r \in Runs, Live(r)', r # new
        PROVE  feature'[r] # f
    <3>1. Live(r) /\ feature'[r] = feature[r]
      BY <1>2, <1>4, <2>1
    <3>2. feature[r] \in lock
      BY <2>1, <3>1 DEF LockInv, HoldsLock
    <3>3. QED
      BY <1>1, <3>1, <3>2
  <2>2. ASSUME "error" \notin faults, NEW r \in Runs, NEW q \in Runs,
               Live(r)', Live(q)', feature'[r] = feature'[q]
        PROVE  r = q
    <3>1. CASE r = new \/ q = new
      BY <1>2, <2>1, <2>2, <3>1
    <3>2. CASE r # new /\ q # new
      BY <1>2, <1>4, <2>2, <3>2 DEF LockInv, OneScriptPerFeature
    <3>3. QED
      BY <3>1, <3>2
  <2>3. QED
    BY <1>1, <2>2 DEF OneScriptPerFeature
<1>8. LockBelongsToRun'
  <2>1. ASSUME "throw" \notin faults, NEW g \in lock
        PROVE  \E r \in Runs : Live(r)' /\ feature'[r] = g
    <3>1. PICK r \in Runs : Live(r) /\ feature[r] = g
      BY <2>1 DEF LockInv, LockBelongsToRun
    <3>2. r # new
      BY <1>3, <3>1
    <3>3. Live(r)' /\ feature'[r] = g
      BY <1>2, <3>1, <3>2 DEF Live
    <3>4. QED
      BY <3>3
  <2>2. QED
    BY <1>1, <1>2, <2>1 DEF LockBelongsToRun
<1>9. FailingInv'
  BY <1>1, <1>2 DEF LockInv, FailingInv
<1>10. QED
  BY <1>5, <1>6, <1>7, <1>8, <1>9 DEF LockInv

\* A run that moves on keeps the lock while it lives, and gives it back when it
\* does not.
LEMMA MoveKeepsLocks ==
  ASSUME TypeOK, LockInv, NEW run \in Runs, NEW from \in Phases, NEW to \in Phases,
         Move(run, from, to), from \in {"resolve", "child", "failing"}, to # "off",
         to = "failing" => "error" \in faults,
         \/ /\ to = "child" /\ from = "resolve"
            /\ lock' = lock
         \/ /\ to \in {"over", "failing"}
            /\ from = "failing" => "error" \in faults
            /\ lock' = lock \ {feature[run]}
         \/ /\ to = "over" /\ "throw" \in faults
            /\ lock' = lock
  PROVE  LockInv'
<1>1. /\ phase[run] = from
      /\ phase' = [phase EXCEPT ![run] = to]
      /\ up' = up /\ used' = used /\ feature' = feature /\ faults' = faults
  BY DEF Move, runVars
<1>2. phase'[run] = to /\ \A r \in Runs : r # run => phase'[r] = phase[r]
  BY <1>1 DEF TypeOK
<1>3. used \in Nat /\ run <= used /\ up
  BY <1>1 DEF LockInv, PhaseInv, TypeOK, Runs
<1>4. PhaseInv'
  BY <1>1, <1>2, <1>3 DEF LockInv, PhaseInv, Runs
<1>5. \A r \in Runs : Live(r)' => Live(r)
  BY <1>1, <1>2 DEF Live
<1>6. HoldsLock'
  <2>1. ASSUME "error" \notin faults, NEW r \in Runs, Live(r)'
        PROVE  feature[r] \in lock'
    <3>1. Live(r) /\ feature[r] \in lock
      BY <1>5, <2>1 DEF LockInv, HoldsLock
    <3>2. CASE lock' = lock
      BY <3>1, <3>2
    <3>3. CASE lock' = lock \ {feature[run]} /\ to \in {"over", "failing"}
               /\ (from = "failing" => "error" \in faults)
      <4>1. Live(run) /\ ~Live(run)'
        BY <1>1, <1>2, <2>1, <3>3 DEF Live
      <4>2. feature[r] # feature[run]
        BY <2>1, <3>1, <4>1 DEF LockInv, OneScriptPerFeature
      <4>3. QED
        BY <3>1, <3>3, <4>2
    <3>4. QED
      BY <3>2, <3>3
  <2>2. QED
    BY <1>1, <2>1 DEF HoldsLock
<1>7. OneScriptPerFeature'
  BY <1>1, <1>5 DEF LockInv, OneScriptPerFeature
<1>8. LockBelongsToRun'
  <2>1. ASSUME "throw" \notin faults, NEW g \in lock'
        PROVE  \E r \in Runs : Live(r)' /\ feature[r] = g
    <3>1. PICK r \in Runs : Live(r) /\ feature[r] = g
      BY <2>1 DEF LockInv, LockBelongsToRun
    <3>2. CASE to = "child"
      BY <1>2, <3>1, <3>2 DEF Live
    <3>3. CASE lock' = lock \ {feature[run]}
      BY <1>2, <2>1, <3>1, <3>3 DEF Live
    <3>4. QED
      BY <2>1, <3>2, <3>3
  <2>2. QED
    BY <1>1, <2>1 DEF LockBelongsToRun
<1>9. FailingInv'
  BY <1>1, <1>2 DEF LockInv, FailingInv
<1>10. QED
  BY <1>4, <1>6, <1>7, <1>8, <1>9 DEF LockInv

\* Every step keeps locks and runs together.
LEMMA StepKeepsLocks == TypeOK /\ LockInv /\ [Next]_vars => LockInv'
<1> SUFFICES ASSUME TypeOK, LockInv, [Next]_vars PROVE LockInv'
  OBVIOUS
<1>1. ASSUME NEW s \in Starters, NEW f \in Features, Start(s, f)
      PROVE  LockInv'
  BY <1>1, StartKeepsLocks
<1>2. ASSUME NEW r \in Runs, Unavailable(r) \/ Spawn(r) \/ SpawnThrows(r)
      PROVE  LockInv'
  <2>1. CASE Spawn(r)
    BY <2>1, MoveKeepsLocks DEF Spawn, Phases
  <2>2. CASE Unavailable(r)
    BY <2>2, MoveKeepsLocks DEF Unavailable, Release, Phases
  <2>3. CASE SpawnThrows(r)
    BY <2>3, MoveKeepsLocks DEF SpawnThrows, Release, Phases
  <2>4. QED
    BY <1>2, <2>1, <2>2, <2>3
<1>3. ASSUME NEW r \in Runs, NEW status \in {"done", "failed"}, Exit(r, status)
      PROVE  LockInv'
  BY <1>3, MoveKeepsLocks DEF Exit, Settle, Release, Phases
<1>4. ASSUME NEW r \in Runs, ChildError(r)
      PROVE  LockInv'
  BY <1>4, MoveKeepsLocks DEF ChildError, Settle, Release, Phases
<1>5. ASSUME NEW r \in Runs, CloseAfterError(r)
      PROVE  LockInv'
  <2>1. CASE "error" \in faults
    BY <1>5, <2>1, MoveKeepsLocks DEF CloseAfterError, Settle, Release, Phases
  <2>2. CASE "error" \notin faults
    BY <1>5, <2>2 DEF LockInv, FailingInv, CloseAfterError, Move
  <2>3. QED
    BY <2>1, <2>2
<1>6. CASE UNCHANGED <<up, faults, used, feature, phase, lock>>
  BY <1>6 DEF LockInv, PhaseInv, HoldsLock, OneScriptPerFeature,
              LockBelongsToRun, Live, FailingInv
<1>7. CASE Crash
  <2>1. up' = FALSE /\ lock' = {} /\ \A r \in Runs : phase'[r] \in {"over", "off"}
    BY <1>7 DEF Crash
  <2>2. \A r \in Runs : r > used' => phase'[r] = "off"
    BY <1>7 DEF Crash, runVars, TypeOK, Runs
  <2>3. QED
    BY <2>1, <2>2 DEF LockInv, PhaseInv, HoldsLock, OneScriptPerFeature,
                      LockBelongsToRun, Live, FailingInv
<1>8. CASE Boot
  BY <1>8 DEF Boot, runVars, LockInv, PhaseInv, HoldsLock, OneScriptPerFeature,
              LockBelongsToRun, Live, FailingInv
<1>9. QED
  BY <1>1, <1>2, <1>3, <1>4, <1>5, <1>6, <1>7, <1>8
     DEF Next, RunStep, Resolved, Finished, Awaited, runVars, vars

-----------------------------------------------------------------------------
\* The entry of a feature follows the script of the button: a step that touches
\* neither keeps them together ...
LEMMA QuietKeepsRegistry ==
  ASSUME RegistryFollowsRuns, UNCHANGED <<reg, loaded, faults>>,
         \A r \in Runs : ButtonScript(r)' <=> ButtonScript(r),
         \A r \in Runs : ButtonScript(r) => feature'[r] = feature[r]
  PROVE  RegistryFollowsRuns'
BY DEF RegistryFollowsRuns

\* ... and so does the end of a script of the button.
LEMMA EndKeepsRegistry ==
  ASSUME IInv, NEW run \in Runs, NEW to \in {"over", "failing"},
         NEW status \in {"done", "failed"},
         Move(run, "child", to), Settle(run, status)
  PROVE  RegistryFollowsRuns'
<1>1. /\ phase[run] = "child" /\ phase'[run] = to
      /\ \A r \in Runs : r # run => phase'[r] = phase[r]
      /\ feature' = feature /\ starter' = starter /\ faults' = faults
  BY DEF Move, runVars, IInv, TypeOK
<1>2. CASE starter[run] # "button"
  <2>1. \A r \in Runs : ButtonScript(r)' <=> ButtonScript(r)
    BY <1>1, <1>2 DEF ButtonScript
  <2>2. QED
    BY <1>1, <1>2, <2>1, QuietKeepsRegistry DEF Settle, registryVars, IInv
<1>3. CASE starter[run] = "button"
  <2> DEFINE f == feature[run]
  <2>1. f \in Features
    BY DEF IInv, TypeOK
  <2>2. /\ reg'[f] # "running"
        /\ \A g \in Features : g # f => /\ reg'[g] = reg[g]
                                        /\ g \in loaded => g \in loaded'
    BY <1>3, <2>1 DEF Settle, Ended, Store, registryVars, IInv, TypeOK
  <2>3. \A r \in Runs : ButtonScript(r)' <=> ButtonScript(r) /\ r # run
    BY <1>1 DEF ButtonScript
  <2>4. ASSUME "error" \notin faults, NEW r \in Runs, ButtonScript(r)'
        PROVE  feature[r] # f
    <3>1. Live(r) /\ Live(run) /\ r # run
      BY <1>1, <2>3, <2>4 DEF ButtonScript, Live
    <3>2. QED
      BY <2>4, <3>1 DEF IInv, LockInv, OneScriptPerFeature
  <2>5. ASSUME NEW g \in Features, "throw" \notin faults, reg'[g] = "running"
        PROVE  g \in loaded' \/ \E r \in Runs : ButtonScript(r)' /\ feature'[r] = g
    BY <1>1, <2>2, <2>3, <2>5 DEF IInv, RegistryFollowsRuns
  <2>6. ASSUME NEW g \in Features, "error" \notin faults,
               \E r \in Runs : ButtonScript(r)' /\ feature'[r] = g
        PROVE  reg'[g] = "running"
    BY <1>1, <2>2, <2>3, <2>4, <2>6 DEF IInv, RegistryFollowsRuns
  <2>7. QED
    BY <1>1, <2>5, <2>6 DEF RegistryFollowsRuns
<1>4. QED
  BY <1>2, <1>3

\* Every step keeps entries and scripts together.
LEMMA StepKeepsRegistry == IInv /\ [Next]_vars => RegistryFollowsRuns'
<1> SUFFICES ASSUME IInv, [Next]_vars PROVE RegistryFollowsRuns'
  OBVIOUS
<1>1. ASSUME NEW s \in Starters, NEW f \in Features, Start(s, f)
      PROVE  RegistryFollowsRuns'
  <2>1. /\ used + 1 \in Runs /\ phase[used + 1] = "off"
        /\ UNCHANGED <<reg, loaded, faults>>
    BY <1>1, FeatureAssumption
       DEF Start, Admit, IInv, TypeOK, LockInv, PhaseInv, Runs, registryVars
  <2>2. \A r \in Runs : r # used + 1 =>
          phase'[r] = phase[r] /\ starter'[r] = starter[r] /\ feature'[r] = feature[r]
    BY <1>1, <2>1 DEF Start, Admit, IInv, TypeOK
  <2>3. phase'[used + 1] = "resolve"
    BY <1>1, <2>1 DEF Start, Admit, IInv, TypeOK
  <2>4. \A r \in Runs : /\ ButtonScript(r)' <=> ButtonScript(r)
                        /\ ButtonScript(r) => feature'[r] = feature[r]
    BY <2>1, <2>2, <2>3 DEF ButtonScript
  <2>5. QED
    BY <2>1, <2>4, QuietKeepsRegistry DEF IInv
<1>2. ASSUME NEW run \in Runs, Spawn(run)
      PROVE  RegistryFollowsRuns'
  <2> DEFINE f == feature[run]
  <2>1. /\ phase[run] = "resolve" /\ phase'[run] = "child"
        /\ \A r \in Runs : r # run => phase'[r] = phase[r]
        /\ feature' = feature /\ starter' = starter /\ faults' = faults
        /\ f \in Features
    BY <1>2 DEF Spawn, Move, runVars, IInv, TypeOK
  <2>2. CASE starter[run] # "button"
    <3>1. \A r \in Runs : ButtonScript(r)' <=> ButtonScript(r)
      BY <2>1, <2>2 DEF ButtonScript
    <3>2. QED
      BY <1>2, <2>1, <2>2, <3>1, QuietKeepsRegistry DEF Spawn, registryVars, IInv
  <2>3. CASE starter[run] = "button"
    <3>1. /\ reg' = [reg EXCEPT ![f] = "running"]
          /\ loaded' = loaded \ {f}
      BY <1>2, <2>3 DEF Spawn, Register, Store
    <3>2. \A r \in Runs : ButtonScript(r)' <=> ButtonScript(r) \/ r = run
      BY <2>1, <2>3 DEF ButtonScript
    <3>3. QED
      BY <2>1, <3>1, <3>2 DEF IInv, TypeOK, RegistryFollowsRuns
  <2>4. QED
    BY <2>2, <2>3
<1>3. ASSUME NEW r \in Runs, Unavailable(r) \/ CloseAfterError(r)
      PROVE  RegistryFollowsRuns'
  <2>1. \A q \in Runs : /\ ButtonScript(q)' <=> ButtonScript(q)
                        /\ feature'[q] = feature[q]
    BY <1>3 DEF Unavailable, CloseAfterError, Move, runVars, ButtonScript, IInv,
                TypeOK
  <2>2. CASE UNCHANGED registryVars
    BY <1>3, <2>1, <2>2, QuietKeepsRegistry
       DEF Unavailable, CloseAfterError, Move, registryVars, IInv
  <2>3. CASE Ended(feature[r], "failed") /\ phase[r] = "failing"
    <3>1. "error" \in faults /\ faults' = faults
      BY <1>3, <2>3 DEF Unavailable, CloseAfterError, Move, IInv, LockInv, FailingInv
    <3>2. \A g \in Features :
            reg'[g] = "running" => reg[g] = "running" /\ (g \in loaded => g \in loaded')
      BY <2>3 DEF Ended, Store, registryVars, IInv, TypeOK
    <3>3. QED
      BY <2>1, <3>1, <3>2 DEF IInv, RegistryFollowsRuns
  <2>4. QED
    BY <1>3, <2>2, <2>3 DEF Unavailable, CloseAfterError, Settle, Move
<1>4. ASSUME NEW r \in Runs, SpawnThrows(r)
      PROVE  RegistryFollowsRuns'
  <2>1. /\ \A q \in Runs : ButtonScript(q)' <=> ButtonScript(q)
        /\ feature' = feature /\ "throw" \in faults /\ faults' = faults
    BY <1>4 DEF SpawnThrows, Move, runVars, ButtonScript, IInv, TypeOK
  <2>2. \A g \in Features : reg[g] = "running" => reg'[g] = "running"
    BY <1>4 DEF SpawnThrows, Register, Store, registryVars, IInv, TypeOK
  <2>3. QED
    BY <2>1, <2>2 DEF IInv, RegistryFollowsRuns
<1>5. ASSUME NEW r \in Runs, Finished(r)
      PROVE  RegistryFollowsRuns'
  BY <1>5, EndKeepsRegistry DEF Finished, Exit, ChildError
<1>6. CASE Crash
  BY <1>6 DEF Crash, RegistryFollowsRuns, ButtonScript
<1>7. CASE Boot
  BY <1>7 DEF Boot, runVars, RegistryFollowsRuns, ButtonScript, IInv, LockInv,
              PhaseInv
<1>8. CASE UNCHANGED <<faults, feature, starter, phase, reg, loaded>>
  BY <1>8 DEF IInv, RegistryFollowsRuns, ButtonScript
<1>9. QED
  BY <1>1, <1>2, <1>3, <1>4, <1>5, <1>6, <1>7, <1>8
     DEF Next, RunStep, Resolved, Awaited, runVars, registryVars, vars

-----------------------------------------------------------------------------
\* The inductive invariant holds of every behaviour.
THEOREM InvariantHolds == Spec => []IInv
<1>1. IInv /\ [Next]_vars => IInv'
  BY StepType, StepKeepsLocks, StepKeepsRegistry DEF IInv
<1>2. QED
  BY <1>1, InitInv, PTL DEF Spec

\* Button, manual drains and night drains never run two scripts of one feature,
\* as long as no child emits 'error'.
THEOREM OneScriptCorrect == Spec => []OneScriptPerFeature
<1>1. IInv => OneScriptPerFeature
  BY DEF IInv, LockInv
<1>2. QED
  BY <1>1, InvariantHolds, PTL

\* No lock outlives its run, as long as spawn does not throw.
THEOREM LockBelongsCorrect == Spec => []LockBelongsToRun
<1>1. IInv => LockBelongsToRun
  BY DEF IInv, LockInv
<1>2. QED
  BY <1>1, InvariantHolds, PTL

\* The entries of the registry follow the scripts of the button.
THEOREM RegistryCorrect == Spec => []RegistryFollowsRuns
<1>1. IInv => RegistryFollowsRuns
  BY DEF IInv
<1>2. QED
  BY <1>1, InvariantHolds, PTL
=============================================================================
