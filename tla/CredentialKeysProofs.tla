------------------------ MODULE CredentialKeysProofs ------------------------
(***************************************************************************)
(* The theorems about CredentialKeys, for any names, keys and bounds: its  *)
(* types, the mutual exclusion of the write lock, that it implements       *)
(* SecretVault, and that keys and files fit unless one of the Causes has   *)
(* occurred.                                                               *)
(***************************************************************************)
EXTENDS CredentialKeys, TLAPS

UnderLock == {"locked", "verify", "swapped", "backup"}
Keyed     == {"set", "restore", "rotate", "unlock"}

\* who holds the lock, and which calls can be where
LockShape ==
  /\ \A o \in Ops : pc[o] \in UnderLock <=> lock = o
  /\ ~up => \A o \in Ops : pc[o] \in {"idle", "done"}
  /\ \A o \in Ops : pc[o] = "probe" => job[o].kind = "unlock"
  /\ \A o \in Ops : pc[o] \in {"verify", "swapped", "archive"} => job[o].kind = "rotate"
  /\ \A o \in Ops : job[o].kind \in Keyed => job[o].key # NoKey
  /\ \A o \in Ops : job[o].kind = "rotate" => job[o].new # NoKey
  /\ \A o \in written : job[o].kind = "set" /\ pc[o] \in {"backup", "done"}

\* the types, of the whole state
LEMMA TypeInit == Init => TypeOK
<1> SUFFICES ASSUME Init PROVE TypeOK
  OBVIOUS
<1>1. SomeName \in Names
  BY NamesAssumption, Zenon DEF SomeName
<1>2. PICK k \in Keys, set \in SUBSET Names :
        /\ envFile \in {k, NoKey}
        /\ processEnv \in {k, NoKey}
        /\ item \in {k, NoKey}
        /\ store = [n \in Names |->
                      IF n \in set THEN [key |-> k, val |-> 0] ELSE Unset]
        /\ set # {} => BootKey = k
        /\ job = [o \in Ops |-> [kind |-> "meta", name |-> SomeName,
                                 key |-> NoKey, new |-> NoKey]]
  BY Zenon DEF Init
<1>3. Unset \in Entries /\ [key |-> k, val |-> 0] \in Entries
  BY BoundsAssumption DEF Unset, Entries, MaybeKey, Absent
<1>4. store \in Files /\ NoFile \in Files
  BY <1>2, <1>3 DEF Files, NoFile
<1>5. envFile \in MaybeKey /\ processEnv \in MaybeKey /\ item \in MaybeKey /\ mem \in MaybeKey
  BY <1>2 DEF Init, MaybeKey, BootKey
<1>6. job \in [Ops -> Jobs]
  BY <1>1, <1>2 DEF Jobs, Kinds, MaybeKey
<1>7. backups \subseteq Artefacts
  <2>1. CASE backups = {}
    BY <2>1
  <2>2. CASE ~IsEmpty(store) /\ backups = {[pass |-> mem, blob |-> store]}
    <3>1. PICK n \in Names : store[n].key # NoKey
      BY <2>2 DEF IsEmpty, IsSet
    <3>2. mem = k
      BY <1>2, <3>1 DEF Init, Unset
    <3> QED
      BY <1>4, <2>2, <3>2 DEF Artefacts
  <2> QED
    BY <2>1, <2>2 DEF Init
<1>8. pc \in [Ops -> Places] /\ seen \in [Ops -> Files] /\ tmp \in Files
  BY <1>4 DEF Init, Places
<1>9. crashes \in 0..MaxCrashes /\ lock \in Ops \cup {0}
  BY BoundsAssumption DEF Init
<1>10. up \in BOOLEAN /\ written \subseteq Ops /\ misuse \subseteq Causes /\ unsaved \in BOOLEAN
  BY DEF Init
<1> QED
  BY <1>4, <1>5, <1>6, <1>7, <1>8, <1>9, <1>10 DEF TypeOK

LEMMA UnsetTyped == Unset \in Entries /\ NoFile \in Files
BY BoundsAssumption DEF Unset, Entries, MaybeKey, Absent, NoFile, Files

\* One entry of a file is replaced.
LEMMA FileUpdate ==
  ASSUME NEW f \in Files, NEW n \in Names, NEW e \in Entries
  PROVE  [f EXCEPT ![n] = e] \in Files
BY DEF Files

\* A call that starts leaves the state typed.
LEMMA TypeBegin ==
  ASSUME TypeOK, NEW o \in Ops, NEW place \in Places, NEW d \in Jobs, NEW f \in Files,
         Begin(o, place, d, f), item' \in MaybeKey
  PROVE  TypeOK'
BY DEF TypeOK, Begin, disk, history

\* What every call has in common when it starts.
Starts(o, place, d, f) ==
  /\ Begin(o, place, d, f)
  /\ d.kind \in Keyed => d.key # NoKey
  /\ d.kind = "rotate" => d.new # NoKey
  /\ d.kind = "unlock" <=> place = "probe"
  /\ IF d.kind = "restore" THEN \E b \in backups : f = b.blob /\ b.pass = d.key
                           ELSE f = NoFile

CallStarts(o) ==
  \E place \in {"queued", "probe"}, d \in Jobs, f \in Files : Starts(o, place, d, f)

LEMMA EveryCallStarts ==
  ASSUME TypeOK, NEW o \in Ops, Call(o)
  PROVE  CallStarts(o) /\ item' \in MaybeKey
<1> USE UnsetTyped
<1>1. SomeName \in Names
  BY NamesAssumption, Zenon DEF SomeName
<1>2. /\ mem \in MaybeKey /\ item \in MaybeKey /\ NoKey \in MaybeKey /\ Keys \subseteq MaybeKey
      /\ NoKey \notin Keys
  BY KeysAssumption DEF TypeOK, MaybeKey
<1>3. ASSUME NEW place \in {"queued", "probe"}, NEW d \in Jobs, NEW f \in Files,
             Starts(o, place, d, f)
      PROVE  CallStarts(o)
  BY <1>3 DEF CallStarts
<1>4. ASSUME NEW n \in Names, CallSet(o, n)
      PROVE  CallStarts(o) /\ item' \in MaybeKey
  <2> DEFINE d == [kind |-> "set", name |-> n, key |-> mem, new |-> NoKey]
  <2>1. d \in Jobs /\ NoFile \in Files
    BY <1>1, <1>2 DEF Jobs, Kinds
  <2>2. Begin(o, "queued", d, NoFile)
    BY <1>4 DEF CallSet
  <2>3. Starts(o, "queued", d, NoFile)
    BY <1>2, <1>4, <2>2 DEF CallSet, Starts, Keyed
  <2>4. item' \in MaybeKey
    BY <1>2, <1>4 DEF CallSet
  <2> HIDE DEF d
  <2> QED
    BY <1>3, <2>1, <2>3, <2>4
<1>5. ASSUME NEW n \in Names, CallDelete(o, n)
      PROVE  CallStarts(o) /\ item' \in MaybeKey
  <2> DEFINE d == [kind |-> "delete", name |-> n, key |-> NoKey, new |-> NoKey]
  <2>1. d \in Jobs /\ NoFile \in Files
    BY <1>1, <1>2 DEF Jobs, Kinds
  <2>2. Begin(o, "queued", d, NoFile)
    BY <1>5 DEF CallDelete
  <2>3. Starts(o, "queued", d, NoFile)
    BY <1>2, <1>5, <2>2 DEF CallDelete, Starts, Keyed
  <2>4. item' \in MaybeKey
    BY <1>2, <1>5 DEF CallDelete
  <2> HIDE DEF d
  <2> QED
    BY <1>3, <2>1, <2>3, <2>4
<1>6. CASE CallMeta(o)
  <2> DEFINE d == [kind |-> "meta", name |-> SomeName, key |-> NoKey, new |-> NoKey]
  <2>1. d \in Jobs /\ NoFile \in Files
    BY <1>1, <1>2 DEF Jobs, Kinds
  <2>2. Begin(o, "queued", d, NoFile)
    BY <1>6 DEF CallMeta
  <2>3. Starts(o, "queued", d, NoFile)
    BY <1>2, <1>6, <2>2 DEF CallMeta, Starts, Keyed
  <2>4. item' \in MaybeKey
    BY <1>2, <1>6 DEF CallMeta
  <2> HIDE DEF d
  <2> QED
    BY <1>3, <2>1, <2>3, <2>4
<1>7. CASE CallUnlock(o)
  <2> DEFINE d == [kind |-> "unlock", name |-> SomeName, key |-> item, new |-> NoKey]
  <2>1. d \in Jobs /\ NoFile \in Files
    BY <1>1, <1>2 DEF Jobs, Kinds
  <2>2. Begin(o, "probe", d, NoFile)
    BY <1>7 DEF CallUnlock
  <2>3. Starts(o, "probe", d, NoFile)
    BY <1>2, <1>7, <2>2 DEF CallUnlock, Starts, Keyed
  <2>4. item' \in MaybeKey
    BY <1>2, <1>7 DEF CallUnlock
  <2> HIDE DEF d
  <2> QED
    BY <1>3, <2>1, <2>3, <2>4
<1>8. ASSUME NEW b \in backups, CallRestore(o, b)
      PROVE  CallStarts(o) /\ item' \in MaybeKey
  <2> DEFINE d == [kind |-> "restore", name |-> SomeName, key |-> mem, new |-> NoKey]
  <2>1. d \in Jobs /\ b.blob \in Files
    BY <1>1, <1>2 DEF Jobs, Kinds, TypeOK, Artefacts
  <2>2. Begin(o, "queued", d, b.blob)
    BY <1>8 DEF CallRestore
  <2>3. Starts(o, "queued", d, b.blob)
    BY <1>2, <1>8, <2>2 DEF CallRestore, Starts, Keyed
  <2>4. item' \in MaybeKey
    BY <1>2, <1>8 DEF CallRestore
  <2> HIDE DEF d
  <2> QED
    BY <1>3, <2>1, <2>3, <2>4
<1>9. ASSUME NEW k \in Keys, CallRotate(o, k)
      PROVE  CallStarts(o) /\ item' \in MaybeKey
  <2> DEFINE d == [kind |-> "rotate", name |-> SomeName, key |-> mem, new |-> k]
  <2>1. d \in Jobs /\ NoFile \in Files
    BY <1>1, <1>2 DEF Jobs, Kinds
  <2>2. Begin(o, "queued", d, NoFile)
    BY <1>9 DEF CallRotate
  <2>3. Starts(o, "queued", d, NoFile)
    BY <1>2, <1>9, <2>2 DEF CallRotate, Starts, Keyed
  <2>4. item' \in MaybeKey
    BY <1>2, <1>9 DEF CallRotate
  <2> HIDE DEF d
  <2> QED
    BY <1>3, <2>1, <2>3, <2>4
<1>10. ASSUME NEW k \in Keys, CallCreate(o, k)
      PROVE  CallStarts(o) /\ item' \in MaybeKey
  <2> DEFINE d == [kind |-> "unlock", name |-> SomeName, key |-> k, new |-> NoKey]
  <2>1. d \in Jobs /\ NoFile \in Files
    BY <1>1, <1>2 DEF Jobs, Kinds
  <2>2. Begin(o, "probe", d, NoFile)
    BY <1>10 DEF CallCreate
  <2>3. Starts(o, "probe", d, NoFile)
    BY <1>2, <1>10, <2>2 DEF CallCreate, Starts, Keyed
  <2>4. item' \in MaybeKey
    BY <1>2, <1>10 DEF CallCreate
  <2> HIDE DEF d
  <2> QED
    BY <1>3, <2>1, <2>3, <2>4
<1> QED
  BY <1>4, <1>5, <1>6, <1>7, <1>8, <1>9, <1>10 DEF Call

LEMMA TypeCall ==
  ASSUME TypeOK, NEW o \in Ops, Call(o)
  PROVE  TypeOK'
<1>1. PICK place \in {"queued", "probe"}, d \in Jobs, f \in Files : Begin(o, place, d, f)
  BY EveryCallStarts DEF CallStarts, Starts
<1>2. place \in Places /\ item' \in MaybeKey
  BY EveryCallStarts DEF Places
<1> QED
  BY <1>1, <1>2, TypeBegin

\* Work under the lock, and before and after it.
LEMMA TypeWork ==
  ASSUME TypeOK, NEW o \in Ops, Acquire(o) \/ Work(o)
  PROVE  TypeOK'
<1> USE UnsetTyped
<1>1. pc[o] \in Places /\ job[o] \in Jobs /\ seen[o] \in Files
      /\ job[o].name \in Names /\ job[o].key \in MaybeKey /\ job[o].new \in MaybeKey
  BY DEF TypeOK, Jobs
<1>2. CASE UnlockProbe(o)
  BY <1>1, <1>2 DEF UnlockProbe, TypeOK, Places, disk, world, history
<1>3. CASE Acquire(o)
  BY <1>1, <1>3 DEF Acquire, TypeOK, Places, world, history
<1>4. CASE SetWrite(o)
  <2>1. [key |-> job[o].key, val |-> o] \in Entries
    BY <1>1, BoundsAssumption DEF Entries, Ops, Absent
  <2>2. [seen[o] EXCEPT ![job[o].name] = [key |-> job[o].key, val |-> o]] \in Files
    BY <1>1, <2>1, FileUpdate
  <2> QED
    BY <1>1, <1>4, <2>2 DEF SetWrite, WriteStore, Holds, TypeOK, Places, Causes, world
<1>5. CASE DeleteWrite(o)
  <2>1. [seen[o] EXCEPT ![job[o].name] = Unset] \in Files
    BY <1>1, FileUpdate
  <2> QED
    BY <1>1, <1>5, <2>1 DEF DeleteWrite, WriteStore, Holds, TypeOK, Places, world
<1>6. CASE MetaWrite(o)
  BY <1>1, <1>6 DEF MetaWrite, WriteStore, Holds, TypeOK, Places, world
<1>7. CASE RestoreWrite(o)
  BY <1>1, <1>7 DEF RestoreWrite, Release, Holds, TypeOK, Places, Causes, world
<1>8. CASE LeaveUnchanged(o)
  BY <1>1, <1>8 DEF LeaveUnchanged, Release, Holds, TypeOK, Places, disk, world, history
<1>9. CASE RotateEncrypt(o)
  <2> DEFINE sealed == [n \in Names |-> IF IsSet(seen[o], n)
                          THEN [seen[o][n] EXCEPT !.key = job[o].new] ELSE Unset]
  <2>1. ASSUME NEW n \in Names PROVE [seen[o][n] EXCEPT !.key = job[o].new] \in Entries
    BY <1>1 DEF Files, Entries
  <2>2. sealed \in Files
    BY <2>1 DEF Files
  <2> HIDE DEF sealed
  <2>3. tmp' = sealed
    BY <1>9 DEF RotateEncrypt, sealed
  <2> QED
    BY <1>1, <1>9, <2>2, <2>3 DEF RotateEncrypt, Holds, TypeOK, Places, world, history
<1>10. CASE RotateEmpty(o)
  BY <1>1, <1>10 DEF RotateEmpty, Holds, TypeOK, Places, disk, world, history
<1>11. CASE RotateAbort(o)
  BY <1>1, <1>11 DEF RotateAbort, Release, Holds, TypeOK, Places, world, history
<1>12. CASE RotateSwap(o)
  BY <1>1, <1>12 DEF RotateSwap, Holds, TypeOK, Places, world, history
<1>13. ASSUME NEW ok \in BOOLEAN, RotateActivate(o, ok) PROVE TypeOK'
  BY <1>1, <1>13 DEF RotateActivate, Load, Holds, TypeOK, Places
<1>14. ASSUME NEW ok \in BOOLEAN, RunBackupHook(o, ok) PROVE TypeOK'
  <2>1. backups' \subseteq Artefacts
    BY <1>14 DEF RunBackupHook, TypeOK, Artefacts, MaybeKey
  <2> QED
    BY <1>1, <1>14, <2>1 DEF RunBackupHook, Release, TypeOK, Places, world, history
<1>15. ASSUME NEW ok \in BOOLEAN, UnlockLoad(o, ok) PROVE TypeOK'
  BY <1>1, <1>15 DEF UnlockLoad, Load, Release, Holds, TypeOK, Places, Causes
<1>16. ASSUME NEW ok \in BOOLEAN, ArchiveRotatedKey(o, ok) PROVE TypeOK'
  BY <1>1, <1>16 DEF ArchiveRotatedKey, TypeOK, Places, disk, history
<1> QED
  BY <1>2, <1>3, <1>4, <1>5, <1>6, <1>7, <1>8, <1>9, <1>10, <1>11, <1>12, <1>13,
     <1>14, <1>15, <1>16 DEF Work

LEMMA TypeNext == TypeOK /\ [Next]_vars => TypeOK'
<1> SUFFICES ASSUME TypeOK, [Next]_vars PROVE TypeOK'
  OBVIOUS
<1>1. ASSUME NEW o \in Ops, Call(o) \/ Acquire(o) \/ Work(o) PROVE TypeOK'
  BY <1>1, TypeCall, TypeWork
<1>2. CASE Crash
  <2>1. pc' \in [Ops -> Places]
    BY <1>2 DEF Crash, TypeOK, Places
  <2>2. crashes' \in 0..MaxCrashes
    BY <1>2, BoundsAssumption DEF Crash, TypeOK
  <2> QED
    BY <1>2, <2>1, <2>2 DEF Crash, TypeOK, MaybeKey, Causes, disk, world
<1>3. CASE Boot
  BY <1>3, UnsetTyped DEF Boot, BootKey, TypeOK, world, calls, history
<1>4. CASE UNCHANGED vars
  BY <1>4 DEF vars, disk, world, calls, history, TypeOK
<1> QED
  BY <1>1, <1>2, <1>3, <1>4 DEF Next

\* The state keeps its types for any names, keys and bounds.
THEOREM TypeCorrect == Spec => []TypeOK
<1>1. Init => TypeOK
  BY TypeInit
<1>2. TypeOK /\ [Next]_vars => TypeOK'
  BY TypeNext
<1> QED
  BY <1>1, <1>2, PTL DEF Spec

-----------------------------------------------------------------------------
(* The lock, and which calls can be where.                                 *)

LEMMA ShapeInit == Init => LockShape
<1> SUFFICES ASSUME Init PROVE LockShape
  OBVIOUS
<1>1. \A o \in Ops : pc[o] = "idle" /\ job[o].kind = "meta" /\ lock # o
  BY DEF Init, Ops
<1> QED
  BY <1>1 DEF Init, LockShape, UnderLock, Keyed

LEMMA ShapeCall ==
  ASSUME TypeOK, LockShape, NEW o \in Ops, Call(o)
  PROVE  LockShape'
<1>1. PICK place \in {"queued", "probe"}, d \in Jobs, f \in Files : Starts(o, place, d, f)
  BY EveryCallStarts DEF CallStarts
<1>2. \A p \in Ops : p # o => pc'[p] = pc[p] /\ job'[p] = job[p]
  BY <1>1 DEF Starts, Begin, TypeOK
<1>3. pc'[o] = place /\ job'[o] = d /\ pc[o] = "idle" /\ o \notin written
  BY <1>1 DEF Starts, Begin, TypeOK, LockShape
<1>4. up' = up /\ lock' = lock /\ written' = written /\ up
  BY <1>1 DEF Starts, Begin, history
<1> QED
  BY <1>1, <1>2, <1>3, <1>4 DEF LockShape, UnderLock, TypeOK, Starts

\* A call that holds the lock is the only one under it.
LEMMA OneHolder ==
  ASSUME LockShape, NEW o \in Ops, NEW p \in Ops, pc[o] \in UnderLock, pc[p] \in UnderLock
  PROVE  o = p
BY DEF LockShape

LEMMA ShapeWork ==
  ASSUME TypeOK, LockShape, NEW o \in Ops, Acquire(o) \/ Work(o)
  PROVE  LockShape'
<1>1. 0 \notin Ops
  BY DEF Ops
<1> USE <1>1 DEF LockShape, UnderLock, Release, Holds
<1>2. CASE UnlockProbe(o)
  BY <1>2 DEF UnlockProbe, TypeOK, history
<1>3. CASE Acquire(o)
  BY <1>3 DEF Acquire, TypeOK, history
<1>4. CASE SetWrite(o)
  BY <1>4 DEF SetWrite, WriteStore, TypeOK
<1>5. CASE DeleteWrite(o)
  BY <1>5 DEF DeleteWrite, WriteStore, TypeOK
<1>6. CASE MetaWrite(o)
  BY <1>6 DEF MetaWrite, WriteStore, TypeOK
<1>7. CASE RestoreWrite(o)
  BY <1>7 DEF RestoreWrite, TypeOK
<1>8. CASE LeaveUnchanged(o)
  BY <1>8 DEF LeaveUnchanged, TypeOK, history
<1>9. CASE RotateEncrypt(o)
  BY <1>9 DEF RotateEncrypt, TypeOK, history
<1>10. CASE RotateEmpty(o)
  BY <1>10 DEF RotateEmpty, TypeOK, history
<1>11. CASE RotateAbort(o)
  BY <1>11 DEF RotateAbort, TypeOK, history
<1>12. CASE RotateSwap(o)
  BY <1>12 DEF RotateSwap, TypeOK, history
<1>13. ASSUME NEW ok \in BOOLEAN, RotateActivate(o, ok) PROVE LockShape'
  BY <1>13 DEF RotateActivate, TypeOK
<1>14. ASSUME NEW ok \in BOOLEAN, RunBackupHook(o, ok) PROVE LockShape'
  BY <1>14 DEF RunBackupHook, TypeOK, history
<1>15. ASSUME NEW ok \in BOOLEAN, UnlockLoad(o, ok) PROVE LockShape'
  BY <1>15 DEF UnlockLoad, TypeOK
<1>16. ASSUME NEW ok \in BOOLEAN, ArchiveRotatedKey(o, ok) PROVE LockShape'
  BY <1>16 DEF ArchiveRotatedKey, TypeOK, history
<1> QED
  BY <1>2, <1>3, <1>4, <1>5, <1>6, <1>7, <1>8, <1>9, <1>10, <1>11, <1>12, <1>13,
     <1>14, <1>15, <1>16 DEF Work

LEMMA ShapeNext == TypeOK /\ LockShape /\ [Next]_vars => LockShape'
<1> SUFFICES ASSUME TypeOK, LockShape, [Next]_vars PROVE LockShape'
  OBVIOUS
<1>1. ASSUME NEW o \in Ops, Call(o) \/ Acquire(o) \/ Work(o) PROVE LockShape'
  BY <1>1, ShapeCall, ShapeWork
<1>2. CASE Crash
  BY <1>2 DEF Crash, LockShape, UnderLock, TypeOK, Ops
<1>3. CASE Boot
  BY <1>3 DEF Boot, LockShape, calls, history
<1>4. CASE UNCHANGED vars
  BY <1>4 DEF vars, calls, history, LockShape
<1> QED
  BY <1>1, <1>2, <1>3, <1>4 DEF Next

-----------------------------------------------------------------------------
(* What a call has read is still there when it uses it.                    *)

\* an entry without a key has no value
Proper(f) == \A n \in Names : f[n].key = NoKey => f[n].val = Absent

FilesMatch ==
  /\ Proper(store)
  /\ \A o \in Ops : Proper(seen[o])
  /\ \A b \in backups : Proper(b.blob)
  /\ \A o \in Ops : pc[o] = "locked" /\ job[o].kind \in {"set", "delete", "meta", "rotate"}
                      => seen[o] = store
  /\ \A o \in Ops : pc[o] = "verify" => Content(tmp) = Content(store) /\ Proper(tmp)
  /\ \A o \in Ops : pc[o] \in {"queued", "locked"} /\ job[o].kind = "restore"
                      => \E b \in backups : seen[o] = b.blob /\ job[o].key = b.pass

LEMMA NoFileProper == Proper(NoFile)
BY DEF Proper, NoFile, Unset

\* Replacing one entry keeps a file proper, and its content elsewhere.
LEMMA ReplaceEntry ==
  ASSUME NEW f \in Files, Proper(f), NEW n \in Names, NEW e,
         e.key = NoKey => e.val = Absent
  PROVE  /\ Proper([f EXCEPT ![n] = e])
         /\ Content([f EXCEPT ![n] = e]) = [Content(f) EXCEPT ![n] = e.val]
BY DEF Proper, Content, Files

\* Sealing with another key changes no content.
LEMMA Resealed ==
  ASSUME NEW f \in Files, Proper(f), NEW k \in MaybeKey, k # NoKey, NEW g,
         g = [n \in Names |-> IF IsSet(f, n) THEN [f[n] EXCEPT !.key = k] ELSE Unset]
  PROVE  Content(g) = Content(f) /\ Proper(g) /\ Opens(k, g)
<1>1. ASSUME NEW n \in Names
      PROVE  /\ g[n].val = f[n].val
             /\ g[n].key = NoKey => g[n].val = Absent
             /\ g[n].key # NoKey => g[n].key = k
  <2>1. CASE IsSet(f, n)
    BY <2>1 DEF Files, Entries
  <2>2. CASE ~IsSet(f, n)
    BY <2>2 DEF IsSet, Proper, Unset
  <2> QED
    BY <2>1, <2>2
<1> QED
  BY <1>1 DEF Content, Proper, Opens, IsSet

LEMMA FilesInit == Init => FilesMatch
<1> SUFFICES ASSUME Init PROVE FilesMatch
  OBVIOUS
<1>1. PICK k \in Keys, set \in SUBSET Names :
        store = [n \in Names |-> IF n \in set THEN [key |-> k, val |-> 0] ELSE Unset]
  BY Zenon DEF Init
<1>2. Proper(store)
  BY <1>1, KeysAssumption DEF Proper, Unset
<1>3. \A b \in backups : Proper(b.blob)
  BY <1>2 DEF Init
<1>4. \A o \in Ops : pc[o] = "idle" /\ seen[o] = NoFile
  BY DEF Init
<1> QED
  BY <1>2, <1>3, <1>4, NoFileProper DEF FilesMatch

LEMMA FilesCall ==
  ASSUME TypeOK, LockShape, FilesMatch, NEW o \in Ops, Call(o)
  PROVE  FilesMatch'
<1>1. PICK place \in {"queued", "probe"}, d \in Jobs, f \in Files : Starts(o, place, d, f)
  BY EveryCallStarts DEF CallStarts
<1>2. \A p \in Ops : p # o => pc'[p] = pc[p] /\ job'[p] = job[p] /\ seen'[p] = seen[p]
  BY <1>1 DEF Starts, Begin, TypeOK
<1>3. pc'[o] = place /\ job'[o] = d /\ seen'[o] = f
  BY <1>1 DEF Starts, Begin, TypeOK
<1>4. store' = store /\ tmp' = tmp /\ backups' = backups
  BY <1>1 DEF Starts, Begin, disk
<1>5. Proper(f)
  BY <1>1, NoFileProper DEF Starts, FilesMatch
<1>6. d.kind = "restore" => \E b \in backups : f = b.blob /\ d.key = b.pass
  BY <1>1 DEF Starts
<1> QED
  BY <1>2, <1>3, <1>4, <1>5, <1>6 DEF FilesMatch, Proper, Content

\* A write under the lock of one call touches nobody else's file.
LEMMA FilesWrite ==
  ASSUME TypeOK, LockShape, FilesMatch, NEW o \in Ops, lock = o,
         NEW place \in {"backup", "done", "swapped"}, pc' = [pc EXCEPT ![o] = place],
         Proper(store'), UNCHANGED <<job, seen, backups>>
  PROVE  FilesMatch'
<1>1. \A p \in Ops : p # o => pc[p] \notin UnderLock /\ pc'[p] = pc[p]
  BY DEF LockShape, TypeOK
<1>2. pc'[o] = place
  BY DEF TypeOK
<1> QED
  BY <1>1, <1>2 DEF FilesMatch, UnderLock, Proper

\* A step that leaves the files alone and moves one call on.
LEMMA FilesMove ==
  ASSUME TypeOK, FilesMatch, NEW o \in Ops,
         NEW place \in Places \ {"locked", "verify", "queued"}, pc' = [pc EXCEPT ![o] = place],
         UNCHANGED <<store, tmp, job, seen>>, backups \subseteq backups',
         \A b \in backups' \ backups : Proper(b.blob)
  PROVE  FilesMatch'
<1>1. \A p \in Ops : pc'[p] = IF p = o THEN place ELSE pc[p]
  BY DEF TypeOK
<1>2. Content(tmp)' = Content(tmp) /\ Content(store)' = Content(store)
  BY DEF Content
<1> QED
  BY <1>1, <1>2 DEF FilesMatch, Proper

LEMMA FilesWork ==
  ASSUME TypeOK, LockShape, FilesMatch, NEW o \in Ops, Acquire(o) \/ Work(o)
  PROVE  FilesMatch'
<1>1. pc[o] \in UnderLock => lock = o
  BY DEF LockShape
<1>2. /\ seen[o] \in Files /\ job[o].name \in Names /\ job[o].key \in MaybeKey
      /\ job[o].new \in MaybeKey /\ store \in Files /\ Proper(seen[o]) /\ Proper(store)
  BY DEF TypeOK, Jobs, FilesMatch
<1> USE DEF Holds, UnderLock
<1>3. CASE UnlockProbe(o)
  <2>1. job[o].kind # "restore" \/ pc'[o] = "done"
    BY <1>3 DEF UnlockProbe, LockShape, TypeOK
  <2> QED
    BY <1>3, <2>1 DEF UnlockProbe, TypeOK, FilesMatch, Proper, disk, Content
<1>4. CASE Acquire(o)
  <2>1. /\ UNCHANGED <<store, backups, job>>
        /\ \A p \in Ops : pc'[p] = IF p = o THEN "locked" ELSE pc[p]
    BY <1>4 DEF Acquire, TypeOK
  <2>2. \A p \in Ops : pc'[p] # "verify"
    BY <1>4, <2>1 DEF Acquire, LockShape, Ops
  <2>3. \A p \in Ops : seen'[p] = IF p = o /\ job[o].kind \notin {"restore", "unlock"}
                                 THEN store ELSE seen[p]
    BY <1>4 DEF Acquire, TypeOK
  <2>4. \A p \in Ops : p # o => pc'[p] # "locked"
    BY <1>4, <2>1 DEF Acquire, LockShape, Ops
  <2>5. \A b \in backups' : Proper(b.blob)
    BY <2>1 DEF FilesMatch
  <2>6. \A p \in Ops : Proper(seen'[p])
    BY <1>2, <2>3 DEF FilesMatch
  <2> HIDE DEF UnderLock
  <2>7. pc[o] = "queued"
    BY <1>4 DEF Acquire
  <2> QED
    BY <1>2, <2>1, <2>2, <2>3, <2>4, <2>5, <2>6, <2>7 DEF FilesMatch, Proper
<1>5. CASE SetWrite(o)
  <2>1. Proper(store')
    BY <1>2, <1>5, ReplaceEntry DEF SetWrite, WriteStore, LockShape, Keyed
  <2> QED
    BY <1>1, <1>5, <2>1, FilesWrite DEF SetWrite, WriteStore
<1>6. CASE DeleteWrite(o)
  <2>1. Proper(store')
    BY <1>2, <1>6, ReplaceEntry DEF DeleteWrite, WriteStore, Unset
  <2> QED
    BY <1>1, <1>6, <2>1, FilesWrite DEF DeleteWrite, WriteStore
<1>7. CASE MetaWrite(o)
  BY <1>1, <1>2, <1>7, FilesWrite DEF MetaWrite, WriteStore
<1>8. CASE RestoreWrite(o)
  BY <1>1, <1>2, <1>8, FilesWrite DEF RestoreWrite, Release
<1>9. CASE LeaveUnchanged(o)
  BY <1>9, FilesMove DEF LeaveUnchanged, Release, disk, Places
<1>10. CASE RotateEncrypt(o)
  <2>1. seen[o] = store /\ job[o].new # NoKey /\ lock = o
    BY <1>1, <1>10 DEF RotateEncrypt, FilesMatch, LockShape
  <2>2. Content(tmp') = Content(store) /\ Proper(tmp')
    BY <1>2, <1>10, <2>1, Resealed DEF RotateEncrypt
  <2>3. \A p \in Ops : p # o => pc[p] \notin UnderLock /\ pc'[p] = pc[p]
    BY <1>10, <2>1 DEF RotateEncrypt, LockShape, TypeOK
  <2> QED
    BY <1>10, <2>2, <2>3 DEF RotateEncrypt, FilesMatch, Proper, Content, TypeOK
<1>11. CASE RotateEmpty(o)
  BY <1>11, FilesMove DEF RotateEmpty, disk, Places
<1>12. CASE RotateAbort(o)
  <2>1. UNCHANGED <<job, seen, backups, store>> /\ pc' = [pc EXCEPT ![o] = "done"]
    BY <1>12 DEF RotateAbort, Release
  <2> QED
    BY <1>1, <1>2, <1>12, <2>1, FilesWrite DEF RotateAbort
<1>13. CASE RotateSwap(o)
  <2>1. Proper(store')
    BY <1>13 DEF RotateSwap, FilesMatch
  <2> QED
    BY <1>1, <1>13, <2>1, FilesWrite DEF RotateSwap
<1>14. ASSUME NEW ok \in BOOLEAN, RotateActivate(o, ok) PROVE FilesMatch'
  BY <1>14, FilesMove DEF RotateActivate, Places
<1>15. ASSUME NEW ok \in BOOLEAN, RunBackupHook(o, ok) PROVE FilesMatch'
  <2>1. \A b \in backups' \ backups : Proper(b.blob)
    BY <1>2, <1>15 DEF RunBackupHook
  <2>2. backups \subseteq backups'
    BY <1>15 DEF RunBackupHook
  <2> QED
    BY <1>15, <2>1, <2>2, FilesMove DEF RunBackupHook, Release, Places
<1>16. ASSUME NEW ok \in BOOLEAN, UnlockLoad(o, ok) PROVE FilesMatch'
  BY <1>16, FilesMove DEF UnlockLoad, Release, Places
<1>17. ASSUME NEW ok \in BOOLEAN, ArchiveRotatedKey(o, ok) PROVE FilesMatch'
  BY <1>17, FilesMove DEF ArchiveRotatedKey, disk, Places
<1> QED
  BY <1>3, <1>4, <1>5, <1>6, <1>7, <1>8, <1>9, <1>10, <1>11, <1>12, <1>13, <1>14,
     <1>15, <1>16, <1>17 DEF Work

LEMMA FilesNext == TypeOK /\ LockShape /\ FilesMatch /\ [Next]_vars => FilesMatch'
<1> SUFFICES ASSUME TypeOK, LockShape, FilesMatch, [Next]_vars PROVE FilesMatch'
  OBVIOUS
<1>1. ASSUME NEW o \in Ops, Call(o) \/ Acquire(o) \/ Work(o) PROVE FilesMatch'
  BY <1>1, FilesCall, FilesWork
<1>2. CASE Crash
  BY <1>2 DEF Crash, FilesMatch, Proper, TypeOK, disk
<1>3. CASE Boot
  <2>1. \A o \in Ops : pc[o] # "verify"
    BY <1>3 DEF Boot, LockShape
  <2> QED
    BY <1>3, <2>1 DEF Boot, FilesMatch, Proper, calls
<1>4. CASE UNCHANGED vars
  BY <1>4 DEF vars, calls, disk, FilesMatch, Proper, Content
<1> QED
  BY <1>1, <1>2, <1>3, <1>4 DEF Next

Inv == TypeOK /\ LockShape /\ FilesMatch

LEMMA InvHolds == Spec => []Inv
<1>1. Init => Inv
  BY TypeInit, ShapeInit, FilesInit DEF Inv
<1>2. Inv /\ [Next]_vars => Inv'
  BY TypeNext, ShapeNext, FilesNext DEF Inv
<1> QED
  BY <1>1, <1>2, PTL DEF Spec

\* No two calls are between reading and replacing the file.
THEOREM LockExcludes ==
  Spec => [](\A o, p \in Ops : pc[o] \in UnderLock /\ pc[p] \in UnderLock => o = p)
<1>1. Inv => \A o, p \in Ops : pc[o] \in UnderLock /\ pc[p] \in UnderLock => o = p
  BY DEF Inv, LockShape
<1> QED
  BY <1>1, InvHolds, PTL

-----------------------------------------------------------------------------
(* The store implements SecretVault.                                       *)

Kept == {Content(b.blob) : b \in backups}

LEMMA VaultInit == Init => Vault!Init
<1> SUFFICES ASSUME Init PROVE Vault!Init
  OBVIOUS
<1>1. PICK k \in Keys, set \in SUBSET Names :
        store = [n \in Names |-> IF n \in set THEN [key |-> k, val |-> 0] ELSE Unset]
  BY Zenon DEF Init
<1>2. \A n \in Names : Content(store)[n] \in {0, Absent}
  BY <1>1 DEF Content, Unset
<1>3. 0 \notin Ops /\ Absent \notin Ops
  BY BoundsAssumption DEF Ops, Absent
<1>4. Kept \subseteq {Content(store)}
  <2>1. backups = {} \/ backups = {[pass |-> mem, blob |-> store]}
    BY Zenon DEF Init
  <2>2. \A b \in backups : b.blob = store
    BY <2>1
  <2> QED
    BY <2>2 DEF Kept
<1>5. \A c \in Kept \cup {Content(store)}, n \in Names : c[n] \notin Ops
  BY <1>2, <1>3, <1>4
<1>6. written = {}
  BY DEF Init
<1> QED
  BY <1>5, <1>6 DEF Vault!Init, Kept

\* A step that changes neither content nor backups is a stutter of the vault.
LEMMA VaultStutter ==
  ASSUME Content(store)' = Content(store), written' = written, backups' = backups
  PROVE  UNCHANGED Vault!vars
BY DEF Vault!vars

LEMMA VaultWork ==
  ASSUME Inv, NEW o \in Ops, Acquire(o) \/ Work(o)
  PROVE  [Vault!Next]_(Vault!vars)
<1>1. /\ seen[o] \in Files /\ job[o].name \in Names
      /\ Proper(seen[o])
  BY DEF Inv, TypeOK, Jobs, FilesMatch
<1>2. ASSUME UNCHANGED <<store, written, backups>> PROVE UNCHANGED Vault!vars
  BY <1>2, VaultStutter DEF Content
<1>3. CASE SetWrite(o)
  <2>1. /\ seen[o] = store /\ o \notin written /\ job[o].key # NoKey
        /\ store' = [seen[o] EXCEPT ![job[o].name] = [key |-> job[o].key, val |-> o]]
        /\ written' = written \cup {o} /\ backups' = backups
    BY <1>3 DEF SetWrite, WriteStore, Holds, Inv, FilesMatch, LockShape, Keyed
  <2>2. Content(store)' = [Content(store) EXCEPT ![job[o].name] = o]
    BY <1>1, <2>1 DEF Content, Files
  <2>3. Vault!Put(o, job[o].name)
    BY <2>1, <2>2 DEF Vault!Put
  <2> QED
    BY <1>1, <2>3 DEF Vault!Next
<1>4. CASE DeleteWrite(o)
  <2>1. /\ seen[o] = store /\ store' = [seen[o] EXCEPT ![job[o].name] = Unset]
        /\ written' = written /\ backups' = backups
    BY <1>4 DEF DeleteWrite, WriteStore, Holds, Inv, FilesMatch
  <2>2. Content(store)' = [Content(store) EXCEPT ![job[o].name] = Absent]
    BY <1>1, <2>1 DEF Content, Files, Unset
  <2>3. Vault!Remove(job[o].name)
    BY <2>1, <2>2 DEF Vault!Remove
  <2> QED
    BY <1>1, <2>3 DEF Vault!Next
<1>5. CASE MetaWrite(o)
  <2>1. seen[o] = store
    BY <1>5 DEF MetaWrite, Holds, Inv, FilesMatch
  <2> QED
    BY <1>2, <1>5, <2>1 DEF MetaWrite, WriteStore
<1>6. CASE RestoreWrite(o)
  <2>1. /\ \E b \in backups : seen[o] = b.blob
        /\ store' = seen[o] /\ written' = written /\ backups' = backups
    BY <1>6 DEF RestoreWrite, Holds, Inv, FilesMatch
  <2>2. Content(store)' \in Kept /\ Kept' = Kept
    BY <2>1 DEF Kept, Content
  <2>3. Vault!Recall
    BY <2>1, <2>2 DEF Vault!Recall, Kept
  <2> QED
    BY <2>3 DEF Vault!Next
<1>7. CASE RotateSwap(o)
  <2>1. Content(store)' = Content(store)
    BY <1>7 DEF RotateSwap, Holds, Inv, FilesMatch, Content
  <2> QED
    BY <1>7, <2>1, VaultStutter DEF RotateSwap, history
<1>8. ASSUME NEW ok \in BOOLEAN, RunBackupHook(o, ok)
      PROVE  [Vault!Next]_(Vault!vars)
  <2>1. UNCHANGED <<store, written>>
    BY <1>8 DEF RunBackupHook, history
  <2>2. CASE ok /\ mem # NoKey
    <3>1. backups' = backups \cup {[pass |-> mem, blob |-> store]}
      BY <1>8, <2>2 DEF RunBackupHook
    <3>2. Content(store)' = Content(store)
      BY <2>1 DEF Content
    <3>3. PICK z : z.blob = store /\ backups' = backups \cup {z}
      BY <3>1
    <3>4. Kept' = Kept \cup {Content(store)}
      BY <3>3 DEF Kept, Content
    <3>5. Vault!Keep
      BY <2>1, <3>2, <3>4 DEF Vault!Keep, Kept
    <3> QED
      BY <3>5 DEF Vault!Next
  <2>3. CASE ~(ok /\ mem # NoKey)
    BY <1>2, <1>8, <2>1, <2>3 DEF RunBackupHook
  <2> QED
    BY <2>2, <2>3
<1>9. ASSUME NEW ok \in BOOLEAN,
             RotateActivate(o, ok) \/ UnlockLoad(o, ok) \/ ArchiveRotatedKey(o, ok)
      PROVE  UNCHANGED Vault!vars
  BY <1>2, <1>9 DEF RotateActivate, UnlockLoad, ArchiveRotatedKey, disk, history
<1>10. CASE \/ UnlockProbe(o) \/ Acquire(o) \/ LeaveUnchanged(o) \/ RotateEncrypt(o)
            \/ RotateEmpty(o) \/ RotateAbort(o)
  BY <1>2, <1>10 DEF UnlockProbe, Acquire, LeaveUnchanged, RotateEncrypt, RotateEmpty,
                     RotateAbort, disk, history
<1> QED
  BY <1>3, <1>4, <1>5, <1>6, <1>7, <1>8, <1>9, <1>10 DEF Work

LEMMA VaultNext == Inv /\ [Next]_vars => [Vault!Next]_(Vault!vars)
<1> SUFFICES ASSUME Inv, [Next]_vars PROVE [Vault!Next]_(Vault!vars)
  OBVIOUS
<1>1. ASSUME UNCHANGED <<store, written, backups>> PROVE UNCHANGED Vault!vars
  BY <1>1, VaultStutter DEF Content
<1>2. ASSUME NEW o \in Ops, Call(o) PROVE UNCHANGED Vault!vars
  <2>1. PICK place \in {"queued", "probe"}, d \in Jobs, f \in Files : Starts(o, place, d, f)
    BY <1>2, EveryCallStarts DEF CallStarts, Inv
  <2> QED
    BY <1>1, <2>1 DEF Starts, Begin, disk, history
<1>3. CASE Crash
  BY <1>1, <1>3 DEF Crash, disk
<1>4. CASE Boot
  BY <1>1, <1>4 DEF Boot, history
<1>5. CASE UNCHANGED vars
  BY <1>1, <1>5 DEF vars, disk, history
<1> QED
  BY <1>2, <1>3, <1>4, <1>5, VaultWork DEF Next

\* The encrypted store, with its lock, its keys, its files and crashes, is the
\* map of secrets that SecretVault describes.
THEOREM ImplementsVault == Spec => VaultIsKept
<1>1. Init => Vault!Init
  BY VaultInit
<1>2. Inv /\ [Next]_vars => [Vault!Next]_(Vault!vars)
  BY VaultNext
<1> QED
  BY <1>1, <1>2, InvHolds, PTL DEF Spec, VaultIsKept, Vault!Spec

-----------------------------------------------------------------------------
(* Keys and files fit.                                                     *)

KeysFit ==
  /\ \A o \in Ops : pc[o] = "verify" => Opens(job[o].new, tmp)
  /\ \A o \in Ops : pc[o] = "swapped" => Opens(job[o].new, store)
  /\ \A o \in Ops : pc[o] \in {"queued", "locked"} /\ job[o].kind = "unlock"
                      => IsEmpty(seen[o]) \/ job[o].key \in UsedKeys(seen[o])
  /\ up /\ ~unsaved => mem = BootKey
  /\ ~up => mem = NoKey
  /\ StoreOpens
  /\ BootFindsKey
  /\ BackupsOpen

\* What a writer needs of the file it leaves behind.
Fits == misuse = {} => IF mem = NoKey THEN IsEmpty(store) ELSE Opens(mem, store)

LEMMA HolderSwaps ==
  ASSUME LockShape, NEW o \in Ops, pc[o] \in UnderLock \ {"swapped"}
  PROVE  ~Swapped
BY DEF LockShape, Swapped, UnderLock

LEMMA KeysInit == Init => KeysFit
<1> SUFFICES ASSUME Init PROVE KeysFit
  OBVIOUS
<1>1. PICK k \in Keys, set \in SUBSET Names :
        /\ store = [n \in Names |-> IF n \in set THEN [key |-> k, val |-> 0] ELSE Unset]
        /\ set # {} => BootKey = k
  BY Zenon DEF Init
<1>2. \A o \in Ops : pc[o] = "idle"
  BY DEF Init
<1>3. mem = BootKey
  BY DEF Init
<1>4. \A n \in Names : IsSet(store, n) => mem = k /\ store[n].key = k
  BY <1>1, <1>3 DEF IsSet, Unset
<1>5. IF mem = NoKey THEN IsEmpty(store) ELSE Opens(mem, store)
  BY <1>4, KeysAssumption DEF IsEmpty, Opens
<1>6. BackupsOpen
  <2>1. backups = {} \/ (~IsEmpty(store) /\ backups = {[pass |-> mem, blob |-> store]})
    BY Zenon DEF Init
  <2>2. mem = NoKey => IsEmpty(store)
    BY <1>5
  <2>3. \A b \in backups : b.pass = mem /\ b.blob = store /\ ~IsEmpty(store)
    BY <2>1
  <2> QED
    BY <1>5, <2>2, <2>3 DEF BackupsOpen
<1>7. up = TRUE
  BY DEF Init
<1> QED
  BY <1>2, <1>3, <1>5, <1>6, <1>7 DEF KeysFit, StoreOpens, BootFindsKey

LEMMA KeysCall ==
  ASSUME Inv, KeysFit, NEW o \in Ops, Call(o)
  PROVE  KeysFit'
<1>1. PICK place \in {"queued", "probe"}, d \in Jobs, f \in Files : Starts(o, place, d, f)
  BY EveryCallStarts DEF CallStarts, Inv
<1>2. \A p \in Ops : p # o => pc'[p] = pc[p] /\ job'[p] = job[p] /\ seen'[p] = seen[p]
  BY <1>1 DEF Starts, Begin, TypeOK, Inv
<1>3. pc'[o] = place /\ job'[o] = d /\ seen'[o] = f /\ pc[o] = "idle"
  BY <1>1 DEF Starts, Begin, TypeOK, Inv
<1>4. UNCHANGED <<up, store, tmp, envFile, backups, processEnv, mem, misuse, unsaved>>
  BY <1>1 DEF Starts, Begin, disk, history
<1>5. Swapped' = Swapped
  BY <1>2, <1>3 DEF Swapped
<1>6. place = "queued" => d.kind # "unlock"
  BY <1>1 DEF Starts
<1>7. StoreOpens' /\ BootFindsKey' /\ BackupsOpen'
  BY <1>4, <1>5 DEF KeysFit, StoreOpens, BootFindsKey, BackupsOpen, BootKey, IsEmpty, Opens, IsSet
<1> QED
  BY <1>2, <1>3, <1>4, <1>6, <1>7 DEF KeysFit, Opens, IsSet, IsEmpty, UsedKeys, BootKey

\* A call under the lock leaves files and keys fitting: the other calls are
\* not under it, so only the file, the key and the causes matter.
LEMMA KeysStep ==
  ASSUME Inv, KeysFit, NEW o \in Ops, lock = o, up, up',
         NEW place \in {"backup", "done", "archive"}, pc' = [pc EXCEPT ![o] = place],
         UNCHANGED <<job, seen>>, Fits', BackupsOpen',
         ~unsaved' => mem' = BootKey'
  PROVE  KeysFit'
<1>1. \A p \in Ops : p # o => pc[p] \notin UnderLock /\ pc'[p] = pc[p]
  BY DEF Inv, LockShape, TypeOK
<1>2. pc'[o] = place
  BY DEF Inv, TypeOK
<1>3. \A p \in Ops : pc'[p] \notin {"verify", "swapped", "locked"}
  BY <1>1, <1>2 DEF UnderLock
<1>4. StoreOpens'
  BY DEF StoreOpens, Fits
<1>5. BootFindsKey'
  BY DEF BootFindsKey
<1> QED
  BY <1>1, <1>2, <1>3, <1>4, <1>5 DEF KeysFit, IsEmpty, IsSet, UsedKeys

\* A step that leaves files and keys alone and does not end a rotation.
LEMMA KeysMove ==
  ASSUME Inv, KeysFit, UNCHANGED <<up, store, envFile, processEnv, backups, mem, misuse, unsaved>>,
         NEW o \in Ops, pc[o] # "swapped",
         NEW place \in {"done", "locked", "queued"}, pc' = [pc EXCEPT ![o] = place], job' = job,
         tmp' = tmp \/ \A p \in Ops : pc'[p] # "verify",
         \A p \in Ops : job[p].kind = "unlock" /\ pc'[p] \in {"queued", "locked"}
                          => IsEmpty(seen'[p]) \/ job[p].key \in UsedKeys(seen'[p])
  PROVE  KeysFit'
<1>1. \A p \in Ops : pc'[p] = IF p = o THEN place ELSE pc[p]
  BY DEF Inv, TypeOK
<1>2. Swapped' = Swapped
  BY <1>1 DEF Swapped
<1>3. StoreOpens' /\ BootFindsKey' /\ BackupsOpen'
  BY <1>2 DEF KeysFit, StoreOpens, BootFindsKey, BackupsOpen, BootKey, IsEmpty, Opens, IsSet
<1>4. \A p \in Ops : pc'[p] = "verify" => Opens(job'[p].new, tmp')
  BY <1>1 DEF KeysFit
<1>5. \A p \in Ops : pc'[p] = "swapped" => Opens(job'[p].new, store')
  BY <1>1 DEF KeysFit
<1> QED
  BY <1>3, <1>4, <1>5 DEF KeysFit, BootKey

LEMMA KeysWork ==
  ASSUME Inv, KeysFit, NEW o \in Ops, Acquire(o) \/ Work(o)
  PROVE  KeysFit'
<1>1. pc[o] \in UnderLock => lock = o
  BY DEF Inv, LockShape
<1>2. pc[o] \in UnderLock \ {"swapped"} /\ up => Fits
  BY HolderSwaps DEF Fits, KeysFit, StoreOpens, Inv
<1>3. /\ seen[o] \in Files /\ job[o].name \in Names /\ store \in Files
      /\ job[o].kind \in Keyed => job[o].key # NoKey
      /\ job[o].kind = "rotate" => job[o].new # NoKey
      /\ misuse \subseteq Causes
  BY DEF Inv, TypeOK, LockShape, Jobs
<1>4. BackupsOpen /\ (up /\ ~unsaved => mem = BootKey)
  BY DEF KeysFit
<1>5. ASSUME backups' = backups, misuse \subseteq misuse' PROVE BackupsOpen'
  BY <1>4, <1>5 DEF BackupsOpen, Opens, IsSet
<1> USE DEF Holds, UnderLock
<1>6. CASE UnlockProbe(o)
  <2>1. PICK place \in {"queued", "done"} :
          /\ pc' = [pc EXCEPT ![o] = place]
          /\ place = "queued" => (IsEmpty(store) \/ job[o].key \in UsedKeys(store))
                                   /\ seen' = [seen EXCEPT ![o] = store]
          /\ place = "done" => seen' = seen
    BY <1>6 DEF UnlockProbe
  <2>2. \A p \in Ops : job[p].kind = "unlock" /\ pc'[p] \in {"queued", "locked"}
                          => IsEmpty(seen'[p]) \/ job[p].key \in UsedKeys(seen'[p])
    <3>1. ASSUME NEW p \in Ops, p # o PROVE pc'[p] = pc[p] /\ seen'[p] = seen[p]
      BY <2>1, <3>1 DEF Inv, TypeOK
    <3>2. pc'[o] = place /\ (place = "queued" => seen'[o] = store)
      BY <2>1 DEF Inv, TypeOK
    <3> QED
      BY <2>1, <3>1, <3>2 DEF KeysFit
  <2> QED
    BY <1>6, <2>1, <2>2, KeysMove DEF UnlockProbe, disk, world, history
<1>7. CASE Acquire(o)
  <2>1. \A p \in Ops : pc'[p] # "verify"
    BY <1>7 DEF Acquire, Inv, LockShape, TypeOK, Ops
  <2>2. \A p \in Ops : job[p].kind = "unlock" /\ pc'[p] \in {"queued", "locked"}
                          => IsEmpty(seen'[p]) \/ job[p].key \in UsedKeys(seen'[p])
    <3>1. ASSUME NEW p \in Ops, job[p].kind = "unlock" PROVE seen'[p] = seen[p]
      BY <1>7, <3>1 DEF Acquire, Inv, TypeOK
    <3>2. ASSUME NEW p \in Ops, pc'[p] \in {"queued", "locked"}
          PROVE  pc[p] \in {"queued", "locked"}
      BY <1>7, <3>2 DEF Acquire, Inv, TypeOK
    <3> QED
      BY <3>1, <3>2 DEF KeysFit
  <2> QED
    BY <1>7, <2>1, <2>2, KeysMove DEF Acquire, world, history
<1>8. CASE SetWrite(o)
  <2>1. /\ seen[o] = store /\ job[o].key # NoKey /\ Fits /\ lock = o
        /\ store' = [seen[o] EXCEPT ![job[o].name] = [key |-> job[o].key, val |-> o]]
        /\ UNCHANGED <<up, envFile, processEnv, backups, mem, job, seen, unsaved>>
        /\ misuse \subseteq misuse'
        /\ pc' = [pc EXCEPT ![o] = "backup"]
    BY <1>1, <1>2, <1>3, <1>8 DEF SetWrite, WriteStore, Inv, FilesMatch, Keyed, world
  <2>2. misuse' = {} => misuse = {} /\ job[o].key = mem
    BY <1>8 DEF SetWrite
  <2>3. Fits'
    BY <1>3, <2>1, <2>2 DEF Fits, Opens, IsSet, IsEmpty, Files
  <2> QED
    BY <1>4, <1>5, <1>8, <2>1, <2>3, KeysStep DEF SetWrite, BootKey
<1>9. CASE DeleteWrite(o)
  <2>1. /\ seen[o] = store /\ Fits /\ lock = o
        /\ store' = [seen[o] EXCEPT ![job[o].name] = Unset]
        /\ UNCHANGED <<up, envFile, processEnv, backups, mem, job, seen, misuse, unsaved>>
        /\ pc' = [pc EXCEPT ![o] = "backup"]
    BY <1>1, <1>2, <1>9 DEF DeleteWrite, WriteStore, Inv, FilesMatch, world
  <2>2. Fits'
    BY <1>3, <2>1 DEF Fits, Opens, IsSet, IsEmpty, Files, Unset
  <2> QED
    BY <1>4, <1>5, <1>9, <2>1, <2>2, KeysStep DEF DeleteWrite, BootKey
<1>10. CASE MetaWrite(o)
  <2>1. /\ Fits /\ lock = o /\ store' = store
        /\ UNCHANGED <<up, envFile, processEnv, backups, mem, job, seen, misuse, unsaved>>
        /\ pc' = [pc EXCEPT ![o] = "backup"]
    BY <1>1, <1>2, <1>10 DEF MetaWrite, WriteStore, Inv, FilesMatch, world
  <2>2. Fits'
    BY <2>1 DEF Fits, Opens, IsSet, IsEmpty
  <2> QED
    BY <1>4, <1>5, <1>10, <2>1, <2>2, KeysStep DEF MetaWrite, BootKey
<1>11. CASE RestoreWrite(o)
  <2>1. /\ lock = o /\ job[o].key # NoKey /\ store' = seen[o]
        /\ \E b \in backups : seen[o] = b.blob /\ job[o].key = b.pass
        /\ UNCHANGED <<up, envFile, processEnv, backups, mem, job, seen, unsaved>>
        /\ misuse \subseteq misuse'
        /\ pc' = [pc EXCEPT ![o] = "done"]
    BY <1>1, <1>3, <1>11 DEF RestoreWrite, Release, Inv, FilesMatch, Keyed, world
  <2>2. misuse' = {} => misuse = {} /\ job[o].key = mem
    BY <1>11 DEF RestoreWrite
  <2>3. Fits'
    BY <1>4, <2>1, <2>2 DEF Fits, BackupsOpen, Opens, IsSet
  <2>21. up /\ up' /\ BackupsOpen'
    BY <1>5, <1>11, <2>1, <2>3 DEF RestoreWrite
  <2>22. ~unsaved' => mem' = BootKey'
    BY <1>4, <1>11, <2>1, <2>3 DEF RestoreWrite, BootKey
  <2> QED
    BY <2>1, <2>3, <2>21, <2>22, KeysStep
<1>12. CASE LeaveUnchanged(o)
  <2>1. /\ Fits /\ lock = o
        /\ UNCHANGED <<up, store, envFile, processEnv, backups, mem, job, seen, misuse, unsaved>>
        /\ pc' = [pc EXCEPT ![o] = "done"]
    BY <1>1, <1>2, <1>12 DEF LeaveUnchanged, Release, disk, world, history
  <2>2. Fits'
    BY <2>1 DEF Fits, Opens, IsSet, IsEmpty
  <2>21. up /\ up' /\ BackupsOpen'
    BY <1>5, <1>12, <2>1, <2>2 DEF LeaveUnchanged
  <2>22. ~unsaved' => mem' = BootKey'
    BY <1>4, <1>12, <2>1, <2>2 DEF LeaveUnchanged, BootKey
  <2> QED
    BY <2>1, <2>2, <2>21, <2>22, KeysStep
<1>13. CASE RotateEncrypt(o)
  <2>1. /\ job[o].new # NoKey /\ lock = o /\ Proper(seen[o]) /\ job[o].new \in MaybeKey
        /\ \A p \in Ops : pc'[p] = IF p = o THEN "verify" ELSE pc[p]
    BY <1>1, <1>3, <1>13 DEF RotateEncrypt, Inv, LockShape, FilesMatch, TypeOK, Jobs
  <2>2. Opens(job[o].new, tmp')
    BY <1>3, <1>13, <2>1, Resealed DEF RotateEncrypt
  <2>3. \A p \in Ops : p # o => pc[p] \notin {"verify", "swapped"}
    BY <2>1 DEF Inv, LockShape
  <2>4. UNCHANGED <<up, store, envFile, processEnv, backups, mem, job, seen, misuse, unsaved>>
    BY <1>13 DEF RotateEncrypt, world, history
  <2>5. Swapped' = Swapped
    BY <1>13, <2>1 DEF Swapped, RotateEncrypt
  <2>6. StoreOpens' /\ BootFindsKey' /\ BackupsOpen'
    BY <2>4, <2>5 DEF KeysFit, StoreOpens, BootFindsKey, BackupsOpen, BootKey, IsEmpty, Opens, IsSet
  <2> QED
    BY <2>1, <2>2, <2>3, <2>4, <2>6 DEF KeysFit, BootKey, IsEmpty, IsSet, UsedKeys, Opens
<1>14. ASSUME \/ RotateEmpty(o) /\ Opens(job[o].new, store')
              \/ RotateSwap(o) /\ Opens(job[o].new, store')
       PROVE  KeysFit'
  <2>1. /\ lock = o /\ up
        /\ UNCHANGED <<up, envFile, processEnv, backups, mem, job, seen, misuse, unsaved>>
        /\ \A p \in Ops : pc'[p] = IF p = o THEN "swapped" ELSE pc[p]
    BY <1>1, <1>14 DEF RotateEmpty, RotateSwap, Inv, TypeOK, disk, world, history
  <2>2. \A p \in Ops : p # o => pc[p] \notin {"verify", "swapped", "locked"}
    BY <2>1 DEF Inv, LockShape
  <2>3. Swapped'
    BY <2>1 DEF Swapped
  <2>4. StoreOpens' /\ BootFindsKey' /\ BackupsOpen'
    BY <1>5, <2>1, <2>3 DEF StoreOpens, BootFindsKey
  <2> QED
    BY <1>14, <2>1, <2>2, <2>4 DEF KeysFit, BootKey, IsEmpty, IsSet, UsedKeys
<1>15. CASE RotateEmpty(o)
  <2>1. seen[o] = store /\ IsEmpty(seen[o]) /\ store' = store
    BY <1>15 DEF RotateEmpty, Inv, FilesMatch, disk
  <2> QED
    BY <1>14, <1>15, <2>1 DEF IsEmpty, Opens, IsSet
<1>16. CASE RotateSwap(o)
  <2>1. Opens(job[o].new, store')
    BY <1>16 DEF RotateSwap, KeysFit
  <2> QED
    BY <1>14, <1>16, <2>1
<1>17. CASE RotateAbort(o)
  <2>1. /\ Fits /\ lock = o
        /\ UNCHANGED <<up, store, envFile, processEnv, backups, mem, job, seen, misuse, unsaved>>
        /\ pc' = [pc EXCEPT ![o] = "done"]
    BY <1>1, <1>2, <1>17 DEF RotateAbort, Release, world, history
  <2>2. Fits'
    BY <2>1 DEF Fits, Opens, IsSet, IsEmpty
  <2>3. up /\ up'
    BY <1>17, <2>1 DEF RotateAbort
  <2> QED
    BY <1>4, <1>5, <2>1, <2>2, <2>3, KeysStep DEF BootKey
<1>18. ASSUME NEW ok \in BOOLEAN, RotateActivate(o, ok) PROVE KeysFit'
  <2>1. /\ lock = o /\ job[o].new # NoKey
        /\ UNCHANGED <<up, store, backups, job, seen, misuse>>
        /\ mem' = job[o].new /\ unsaved' = (BootKey' # mem')
        /\ pc' = [pc EXCEPT ![o] = "backup"]
    BY <1>1, <1>3, <1>18 DEF RotateActivate, Load
  <2>2. Fits'
    BY <1>18, <2>1 DEF RotateActivate, KeysFit, Fits, Opens, IsSet
  <2>21. up /\ up' /\ BackupsOpen'
    BY <1>5, <1>18, <2>1, <2>2 DEF RotateActivate
  <2>22. ~unsaved' => mem' = BootKey'
    BY <1>4, <1>18, <2>1, <2>2
  <2> QED
    BY <2>1, <2>2, <2>21, <2>22, KeysStep
<1>19. ASSUME NEW ok \in BOOLEAN, RunBackupHook(o, ok) PROVE KeysFit'
  <2>1. PICK place \in {"archive", "done"} : pc' = [pc EXCEPT ![o] = place]
    BY <1>19 DEF RunBackupHook, Release
  <2>2. /\ Fits /\ lock = o
        /\ UNCHANGED <<up, store, envFile, processEnv, mem, job, seen, misuse, unsaved>>
        /\ backups' = backups
           \/ (mem # NoKey /\ backups' = backups \cup {[pass |-> mem, blob |-> store]})
    BY <1>1, <1>2, <1>19 DEF RunBackupHook, Release, world, history
  <2>3. Fits'
    BY <2>2 DEF Fits, Opens, IsSet, IsEmpty
  <2>4. BackupsOpen'
    BY <1>4, <2>2 DEF BackupsOpen, Fits, Opens, IsSet
  <2>21. up /\ up' /\ BackupsOpen'
    BY <1>5, <1>19, <2>1, <2>2, <2>3, <2>4 DEF RunBackupHook
  <2>22. ~unsaved' => mem' = BootKey'
    BY <1>4, <1>19, <2>1, <2>2, <2>3, <2>4 DEF RunBackupHook, BootKey
  <2> QED
    BY <2>1, <2>2, <2>3, <2>4, <2>21, <2>22, KeysStep
<1>20. ASSUME NEW ok \in BOOLEAN, UnlockLoad(o, ok) PROVE KeysFit'
  <2>1. /\ lock = o /\ job[o].key # NoKey /\ Fits
        /\ UNCHANGED <<up, store, backups, job, seen>>
        /\ mem' = job[o].key /\ unsaved' = (BootKey' # mem')
        /\ misuse \subseteq misuse'
        /\ pc' = [pc EXCEPT ![o] = "done"]
    BY <1>1, <1>2, <1>3, <1>20 DEF UnlockLoad, Load, Release, Keyed
  <2>2. misuse' = {} => misuse = {} /\ UsedKeys(store) = UsedKeys(seen[o])
    BY <1>20 DEF UnlockLoad
  <2>3. IsEmpty(seen[o]) \/ job[o].key \in UsedKeys(seen[o])
    BY <1>20 DEF UnlockLoad, KeysFit
  <2>4. IsEmpty(seen[o]) => UsedKeys(seen[o]) = {}
    BY DEF IsEmpty, UsedKeys, IsSet
  <2>5. ASSUME UsedKeys(store) = {} PROVE Opens(job[o].key, store)
    BY <2>5 DEF UsedKeys, Opens, IsSet
  <2>6. ASSUME Opens(mem, store), job[o].key \in UsedKeys(store) PROVE job[o].key = mem
    BY <2>6 DEF UsedKeys, Opens, IsSet
  <2>7. IsEmpty(store) => UsedKeys(store) = {}
    BY DEF IsEmpty, UsedKeys, IsSet
  <2>8. misuse' = {} => Opens(job[o].key, store)
    BY <2>1, <2>2, <2>3, <2>4, <2>5, <2>6, <2>7 DEF Fits
  <2>9. Fits'
    BY <2>1, <2>8 DEF Fits, Opens, IsSet
  <2>21. up /\ up' /\ BackupsOpen'
    BY <1>5, <1>20, <2>1, <2>9 DEF UnlockLoad
  <2>22. ~unsaved' => mem' = BootKey'
    BY <1>4, <1>20, <2>1, <2>9
  <2> QED
    BY <2>1, <2>9, <2>21, <2>22, KeysStep
<1>21. ASSUME NEW ok \in BOOLEAN, ArchiveRotatedKey(o, ok) PROVE KeysFit'
  <2>1. \A p \in Ops : job[p].kind = "unlock" /\ pc'[p] \in {"queued", "locked"}
                          => IsEmpty(seen'[p]) \/ job[p].key \in UsedKeys(seen'[p])
    BY <1>21 DEF ArchiveRotatedKey, KeysFit, Inv, TypeOK
  <2> QED
    BY <1>21, <2>1, KeysMove DEF ArchiveRotatedKey, disk, history
<1> QED
  BY <1>6, <1>7, <1>8, <1>9, <1>10, <1>11, <1>12, <1>13, <1>15, <1>16, <1>17, <1>18,
     <1>19, <1>20, <1>21 DEF Work

LEMMA KeysNext == Inv /\ KeysFit /\ [Next]_vars => KeysFit'
<1> SUFFICES ASSUME Inv, KeysFit, [Next]_vars PROVE KeysFit'
  OBVIOUS
<1> USE DEF StoreOpens, BootFindsKey, BackupsOpen, Opens, IsEmpty, IsSet
<1>1. ASSUME NEW o \in Ops, Call(o) \/ Acquire(o) \/ Work(o) PROVE KeysFit'
  BY <1>1, KeysCall, KeysWork
<1>2. CASE Crash
  <2>1. /\ UNCHANGED <<store, envFile, processEnv, backups>> /\ mem' = NoKey
        /\ ~up' /\ \A o \in Ops : pc'[o] \in {"idle", "done"}
    BY <1>2 DEF Crash, disk, world
  <2>2. misuse' = {} => misuse = {} /\ ~Swapped /\ ~unsaved
    BY <1>2 DEF Crash
  <2>3. misuse' = {} => mem = BootKey
    BY <1>2, <2>2 DEF Crash, KeysFit
  <2>4. BootFindsKey'
    BY <1>2, <2>1, <2>2, <2>3 DEF KeysFit, BootKey, Crash
  <2>5. BackupsOpen'
    BY <2>1, <2>2 DEF KeysFit
  <2> QED
    BY <2>1, <2>4, <2>5 DEF KeysFit
<1>3. CASE Boot
  <2>1. /\ UNCHANGED <<store, envFile, processEnv, backups, pc, job, seen, misuse>>
        /\ mem' = BootKey /\ BootKey' = BootKey /\ ~up /\ up'
    BY <1>3 DEF Boot, BootKey, world, calls, history
  <2>2. \A o \in Ops : pc'[o] \in {"idle", "done"}
    BY <2>1 DEF Inv, LockShape
  <2> QED
    BY <2>1, <2>2 DEF KeysFit
<1>4. CASE UNCHANGED vars
  BY <1>4 DEF vars, disk, world, calls, history, KeysFit, BootKey, Swapped, UsedKeys
<1> QED
  BY <1>1, <1>2, <1>3, <1>4 DEF Next

LEMMA KeysFitHolds == Spec => []KeysFit
<1>1. Init => KeysFit
  BY KeysInit
<1>2. Inv /\ KeysFit /\ [Next]_vars => KeysFit'
  BY KeysNext
<1> QED
  BY <1>1, <1>2, InvHolds, PTL DEF Spec

\* The key in the process opens the file, unless one of the Causes has occurred.
THEOREM StoreOpensAlways == Spec => []StoreOpens
<1>1. KeysFit => StoreOpens
  BY DEF KeysFit
<1> QED
  BY <1>1, KeysFitHolds, PTL

\* The next boot finds a key that opens the file, unless one of the Causes has occurred.
THEOREM BootFindsKeyAlways == Spec => []BootFindsKey
<1>1. KeysFit => BootFindsKey
  BY DEF KeysFit
<1> QED
  BY <1>1, KeysFitHolds, PTL

\* Every backup opens with its own key, unless one of the Causes has occurred.
THEOREM BackupsOpenAlways == Spec => []BackupsOpen
<1>1. KeysFit => BackupsOpen
  BY DEF KeysFit
<1> QED
  BY <1>1, KeysFitHolds, PTL
=============================================================================
