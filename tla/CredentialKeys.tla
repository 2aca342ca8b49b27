--------------------------- MODULE CredentialKeys ---------------------------
(***************************************************************************)
(* The credential store (secrets.enc.json) and its master key: set, delete,*)
(* metadata writes, backup and restore, unlock with the key of the         *)
(* Bitwarden item, rotation of the key, crash and boot.                    *)
(*                                                                         *)
(* Every call runs part of its way before it waits for the write lock of   *)
(* CredentialStore.  What it has read there - the master key, the key it   *)
(* has probed, the artefact it has decrypted - is used after the wait.     *)
(*                                                                         *)
(* An encrypted entry is the key it is sealed with and the write it comes  *)
(* from.  The salt is left out: every writer uses the salt of the file it  *)
(* replaces, and rotate re-seals all entries under a fresh one.            *)
(***************************************************************************)
EXTENDS Naturals

CONSTANTS
  Names,     \* names of credential entries
  Keys,      \* master keys
  NoKey,     \* no master key
  MaxOps,    \* bound: number of calls
  MaxCrashes \* bound: number of process crashes

ASSUME NamesAssumption == Names # {}
ASSUME KeysAssumption == NoKey \notin Keys
ASSUME BoundsAssumption == MaxOps \in Nat /\ MaxCrashes \in Nat

Ops    == 1..MaxOps
Kinds  == {"set", "delete", "meta", "restore", "rotate", "unlock"}
Places == {"idle", "probe", "queued", "locked", "verify", "swapped", "backup",
           "archive", "done"}
Causes == {"late-set", "late-restore", "late-unlock", "cut-rotation", "unsaved-key"}

MaybeKey == Keys \cup {NoKey}
Absent   == MaxOps + 1
Unset    == [key |-> NoKey, val |-> Absent]
Entries  == [key : MaybeKey, val : 0..Absent]
Files    == [Names -> Entries]
NoFile   == [n \in Names |-> Unset]
SomeName == CHOOSE n \in Names : TRUE
Jobs     == [kind : Kinds, name : Names, key : MaybeKey, new : MaybeKey]
Artefacts == [pass : Keys, blob : Files]

VARIABLES
  up,         \* the server process is running
  store,      \* secrets.enc.json
  tmp,        \* secrets.enc.json.rotate-tmp (NoFile: it is not there)
  envFile,    \* master key in the file CRED_ENV_PATH
  processEnv, \* master key in the environment of the container
  item,       \* Bitwarden: password of the master key item
  backups,    \* backup artefacts, here and off host
  mem,        \* #masterKeyRaw
  lock,       \* #writeLock: the call that holds it, 0 for nobody
  pc,         \* where a call stands
  job,        \* its arguments; key: the master key it goes by
  seen,       \* the file a call has read: store, probe or artefact
  written,    \* history: set calls that have taken effect
  misuse,     \* history: what has gone wrong with keys so far
  unsaved,    \* history: a boot would not find the key last loaded
  crashes

disk  == <<store, tmp, envFile, backups>>
world == <<processEnv, item>>
calls == <<pc, job, seen>>
history == <<written, misuse, unsaved, crashes>>
vars  == <<up, disk, world, mem, lock, calls, history>>

TypeOK ==
  /\ up \in BOOLEAN
  /\ store \in Files
  /\ tmp \in Files
  /\ envFile \in MaybeKey
  /\ processEnv \in MaybeKey
  /\ item \in MaybeKey
  /\ backups \subseteq Artefacts
  /\ mem \in MaybeKey
  /\ lock \in Ops \cup {0}
  /\ pc \in [Ops -> Places]
  /\ job \in [Ops -> Jobs]
  /\ seen \in [Ops -> Files]
  /\ written \subseteq Ops
  /\ misuse \subseteq Causes
  /\ unsaved \in BOOLEAN
  /\ crashes \in 0..MaxCrashes

IsSet(f, n) == f[n].key # NoKey
IsEmpty(f)  == \A n \in Names : ~IsSet(f, n)
Opens(k, f) == \A n \in Names : IsSet(f, n) => f[n].key = k
UsedKeys(f) == {f[n].key : n \in Names} \ {NoKey}

\* the key a boot finds: the process environment comes before the file
BootKey == IF processEnv # NoKey THEN processEnv ELSE envFile

\* a running server: locked over an empty store, or unlocked by its boot key
Init ==
  /\ up = TRUE
  /\ tmp = NoFile
  /\ \E k \in Keys, set \in SUBSET Names :
       /\ envFile \in {k, NoKey}
       /\ processEnv \in {k, NoKey}
       /\ item \in {k, NoKey}
       /\ (set # {} => BootKey = k)
       /\ store = [n \in Names |->
                     IF n \in set THEN [key |-> k, val |-> 0] ELSE Unset]
       /\ job = [o \in Ops |-> [kind |-> "meta", name |-> SomeName,
                                key |-> NoKey, new |-> NoKey]]
  /\ mem = BootKey
  /\ \/ backups = {}
     \/ ~IsEmpty(store) /\ backups = {[pass |-> mem, blob |-> store]}
  /\ lock = 0
  /\ pc = [o \in Ops |-> "idle"]
  /\ seen = [o \in Ops |-> NoFile]
  /\ written = {}
  /\ misuse = {}
  /\ unsaved = FALSE
  /\ crashes = 0

-----------------------------------------------------------------------------
(* The part of a call before it waits for the write lock.                  *)

\* the next unused call starts: what it is, where it goes first, what it read
Begin(o, place, description, file) ==
  /\ up
  /\ pc[o] = "idle"
  /\ \A p \in Ops : p < o => pc[p] # "idle"
  /\ pc' = [pc EXCEPT ![o] = place]
  /\ job' = [job EXCEPT ![o] = description]
  /\ seen' = [seen EXCEPT ![o] = file]
  /\ UNCHANGED <<up, disk, processEnv, mem, lock, history>>

\* #ensureKey is called before #withWriteLock
CallSet(o, n) ==
  /\ mem # NoKey
  /\ Begin(o, "queued", [kind |-> "set", name |-> n, key |-> mem, new |-> NoKey], NoFile)
  /\ UNCHANGED item

CallDelete(o, n) ==
  /\ Begin(o, "queued", [kind |-> "delete", name |-> n, key |-> NoKey, new |-> NoKey], NoFile)
  /\ UNCHANGED item

\* public keys, workspace path, Obsidian paths: no master key needed
CallMeta(o) ==
  /\ Begin(o, "queued", [kind |-> "meta", name |-> SomeName, key |-> NoKey, new |-> NoKey], NoFile)
  /\ UNCHANGED item

\* the artefact is decrypted before the lock; with another key it is refused
CallRestore(o, b) ==
  /\ mem # NoKey
  /\ b.pass = mem
  /\ Begin(o, "queued", [kind |-> "restore", name |-> SomeName, key |-> mem, new |-> NoKey], b.blob)
  /\ UNCHANGED item

\* the old key is noted before the lock
CallRotate(o, k) ==
  /\ mem \notin {k, NoKey}
  /\ Begin(o, "queued", [kind |-> "rotate", name |-> SomeName, key |-> mem, new |-> k], NoFile)
  /\ UNCHANGED item

\* acquireMasterKey: the key of the Bitwarden item goes to unlock
CallUnlock(o) ==
  /\ item # NoKey
  /\ Begin(o, "probe", [kind |-> "unlock", name |-> SomeName, key |-> item, new |-> NoKey], NoFile)
  /\ UNCHANGED item

\* createMasterKey, offered when there is no item: a random key, then unlock
CallCreate(o, k) ==
  /\ item = NoKey
  /\ Begin(o, "probe", [kind |-> "unlock", name |-> SomeName, key |-> k, new |-> NoKey], NoFile)
  /\ item' = k

\* unlock decrypts the first entry of the file, outside the lock (which entry
\* is the first is left open)
UnlockProbe(o) ==
  /\ up
  /\ pc[o] = "probe"
  /\ \/ /\ IsEmpty(store) \/ job[o].key \in UsedKeys(store)
        /\ pc' = [pc EXCEPT ![o] = "queued"]
        /\ seen' = [seen EXCEPT ![o] = store]
     \/ /\ UsedKeys(store) \ {job[o].key} # {}
        /\ pc' = [pc EXCEPT ![o] = "done"]
        /\ UNCHANGED seen
  /\ UNCHANGED <<up, disk, world, mem, lock, job, history>>

-----------------------------------------------------------------------------
(* Under the write lock.                                                   *)

\* mutant: the file is read and replaced without waiting for the lock
AcquireShared(o) ==
  /\ up
  /\ pc[o] = "queued"
  /\ lock' = o
  /\ pc' = [pc EXCEPT ![o] = "locked"]
  /\ seen' = IF job[o].kind \in {"restore", "unlock"}
             THEN seen ELSE [seen EXCEPT ![o] = store]
  /\ UNCHANGED <<up, disk, world, mem, job, history>>

\* #withWriteLock; writers read the file, rotate removes a left-over tmp first
Acquire(o) ==
  /\ up
  /\ pc[o] = "queued"
  /\ lock = 0
  /\ lock' = o
  /\ pc' = [pc EXCEPT ![o] = "locked"]
  /\ seen' = IF job[o].kind \in {"restore", "unlock"}
             THEN seen ELSE [seen EXCEPT ![o] = store]
  /\ tmp' = IF job[o].kind = "rotate" THEN NoFile ELSE tmp
  /\ UNCHANGED <<up, store, envFile, backups, world, mem, job, history>>

Holds(o, kind, place) == up /\ pc[o] = place /\ job[o].kind = kind

Release(o, place) ==
  /\ lock' = 0
  /\ pc' = [pc EXCEPT ![o] = place]

\* the file is replaced; what follows is the backup hook
WriteStore(o, file) ==
  /\ store' = file
  /\ pc' = [pc EXCEPT ![o] = "backup"]
  /\ UNCHANGED <<up, tmp, envFile, backups, world, mem, lock, job, seen,
                 unsaved, crashes>>

SetWrite(o) ==
  /\ Holds(o, "set", "locked")
  /\ WriteStore(o, [seen[o] EXCEPT ![job[o].name] = [key |-> job[o].key, val |-> o]])
  /\ written' = written \cup {o}
  /\ misuse' = misuse \cup (IF job[o].key # mem THEN {"late-set"} ELSE {})

DeleteWrite(o) ==
  /\ Holds(o, "delete", "locked")
  /\ IsSet(seen[o], job[o].name)
  /\ WriteStore(o, [seen[o] EXCEPT ![job[o].name] = Unset])
  /\ UNCHANGED <<written, misuse>>

MetaWrite(o) ==
  /\ Holds(o, "meta", "locked")
  /\ WriteStore(o, seen[o])
  /\ UNCHANGED <<written, misuse>>

\* the blob of the artefact replaces the file; no backup follows
RestoreWrite(o) ==
  /\ Holds(o, "restore", "locked")
  /\ store' = seen[o]
  /\ misuse' = misuse \cup (IF job[o].key # mem THEN {"late-restore"} ELSE {})
  /\ Release(o, "done")
  /\ UNCHANGED <<up, tmp, envFile, backups, world, mem, job, seen, written,
                 unsaved, crashes>>

\* mutant: an early return keeps the lock
LeaveUnchangedLocked(o) ==
  /\ \E kind \in {"set", "delete", "meta", "restore"} : Holds(o, kind, "locked")
  /\ pc' = [pc EXCEPT ![o] = "done"]
  /\ UNCHANGED <<up, disk, world, mem, lock, job, seen, history>>

\* nothing to delete, nothing to restore, or the write of the file throws
LeaveUnchanged(o) ==
  /\ \E kind \in {"set", "delete", "meta", "restore"} : Holds(o, kind, "locked")
  /\ Release(o, "done")
  /\ UNCHANGED <<up, disk, world, mem, job, seen, history>>

\* (b) every entry is sealed again with the new key, into a file of its own
RotateEncrypt(o) ==
  /\ Holds(o, "rotate", "locked")
  /\ ~IsEmpty(seen[o])
  /\ Opens(job[o].key, seen[o])
  /\ tmp' = [n \in Names |-> IF IsSet(seen[o], n)
                             THEN [seen[o][n] EXCEPT !.key = job[o].new] ELSE Unset]
  /\ pc' = [pc EXCEPT ![o] = "verify"]
  /\ UNCHANGED <<up, store, envFile, backups, world, mem, lock, job, seen,
                 history>>

\* a store without entries is not touched, the new key just becomes active
RotateEmpty(o) ==
  /\ Holds(o, "rotate", "locked")
  /\ IsEmpty(seen[o])
  /\ pc' = [pc EXCEPT ![o] = "swapped"]
  /\ UNCHANGED <<up, disk, world, mem, lock, job, seen, history>>

\* (a) an entry does not open with the old key; (b)-(d) the file cannot be
\* written, read back, verified or renamed
RotateAbort(o) ==
  /\ \/ Holds(o, "rotate", "locked") /\ ~IsEmpty(seen[o])
     \/ Holds(o, "rotate", "verify")
  /\ tmp' = NoFile
  /\ Release(o, "done")
  /\ UNCHANGED <<up, store, envFile, backups, world, mem, job, seen, history>>

\* mutant: the new key is saved before the file under it is in place
RotateSwapSaved(o) ==
  /\ Holds(o, "rotate", "verify")
  /\ envFile' = job[o].new
  /\ \/ store' = tmp /\ tmp' = NoFile /\ pc' = [pc EXCEPT ![o] = "swapped"]
     \/ UNCHANGED <<store, tmp, pc>>
  /\ UNCHANGED <<up, backups, world, mem, lock, job, seen, history>>

\* (d) after the verification: the rename, point of no return
RotateSwap(o) ==
  /\ Holds(o, "rotate", "verify")
  /\ store' = tmp
  /\ tmp' = NoFile
  /\ pc' = [pc EXCEPT ![o] = "swapped"]
  /\ UNCHANGED <<up, envFile, backups, world, mem, lock, job, seen, history>>

\* #persistKeyToEnv may fail; the key becomes active in the process anyway
Load(k, persisted) ==
  /\ envFile' = IF persisted THEN k ELSE envFile
  /\ UNCHANGED processEnv
  /\ mem' = k
  /\ unsaved' = (BootKey' # k)

\* mutant: a key that could not be saved does not become active
RotateActivateSaved(o, persisted) ==
  /\ Holds(o, "rotate", "swapped")
  /\ pc' = [pc EXCEPT ![o] = "backup"]
  /\ \/ persisted /\ Load(job[o].new, TRUE)
     \/ ~persisted /\ UNCHANGED <<envFile, processEnv, mem, unsaved>>
  /\ UNCHANGED <<up, store, tmp, backups, item, lock, job, seen, written,
                 misuse, crashes>>

RotateActivate(o, persisted) ==
  /\ Holds(o, "rotate", "swapped")
  /\ Load(job[o].new, persisted)
  /\ pc' = [pc EXCEPT ![o] = "backup"]
  /\ UNCHANGED <<up, store, tmp, backups, item, lock, job, seen, written,
                 misuse, crashes>>

\* mutant: the artefact is encrypted with the key the call began with
RunBackupHookOldKey(o, ok) ==
  /\ up
  /\ pc[o] = "backup"
  /\ backups' = IF ok /\ job[o].key # NoKey
                THEN backups \cup {[pass |-> job[o].key, blob |-> store]} ELSE backups
  /\ Release(o, IF job[o].kind = "rotate" THEN "archive" ELSE "done")
  /\ UNCHANGED <<up, store, tmp, envFile, world, mem, job, seen, history>>

\* #runBackupHook: encrypts with the key in memory; a failure is reported only
RunBackupHook(o, ok) ==
  /\ up
  /\ pc[o] = "backup"
  /\ backups' = IF ok /\ mem # NoKey
                THEN backups \cup {[pass |-> mem, blob |-> store]} ELSE backups
  /\ Release(o, IF job[o].kind = "rotate" THEN "archive" ELSE "done")
  /\ UNCHANGED <<up, store, tmp, envFile, world, mem, job, seen, history>>

\* the validated key goes into the file and into the process
UnlockLoad(o, persisted) ==
  /\ Holds(o, "unlock", "locked")
  /\ Load(job[o].key, persisted)
  /\ misuse' = misuse \cup (IF UsedKeys(store) # UsedKeys(seen[o])
                            THEN {"late-unlock"} ELSE {})
  /\ Release(o, "done")
  /\ UNCHANGED <<up, store, tmp, backups, item, job, seen, written, crashes>>

\* stage 2 of the rotation route, after the lock: the item gets the new key,
\* unless the login data are missing, there is no item, or Bitwarden fails
ArchiveRotatedKey(o, ok) ==
  /\ up
  /\ pc[o] = "archive"
  /\ pc' = [pc EXCEPT ![o] = "done"]
  /\ item' = IF ok /\ item # NoKey THEN job[o].new ELSE item
  /\ UNCHANGED <<up, disk, processEnv, mem, lock, job, seen, history>>

-----------------------------------------------------------------------------
(* Crash and boot.                                                         *)

Swapped == \E o \in Ops : pc[o] = "swapped"

Crash ==
  /\ up
  /\ crashes < MaxCrashes
  /\ crashes' = crashes + 1
  /\ up' = FALSE
  /\ mem' = NoKey
  /\ lock' = 0
  /\ pc' = [o \in Ops |-> IF pc[o] = "idle" THEN "idle" ELSE "done"]
  /\ misuse' = misuse \cup (IF Swapped THEN {"cut-rotation"} ELSE {})
                      \cup (IF unsaved THEN {"unsaved-key"} ELSE {})
  /\ unsaved' = FALSE
  /\ UNCHANGED <<disk, world, job, seen, written>>

\* the key is read; entries without any key end the boot (fail-fast); the
\* left-over rotate-tmp is removed
Boot ==
  /\ ~up
  /\ IsEmpty(store) \/ BootKey # NoKey
  /\ up' = TRUE
  /\ mem' = BootKey
  /\ tmp' = NoFile
  /\ UNCHANGED <<store, envFile, backups, world, lock, calls, history>>

-----------------------------------------------------------------------------
Call(o) ==
  \/ \E n \in Names : CallSet(o, n) \/ CallDelete(o, n)
  \/ CallMeta(o)
  \/ CallUnlock(o)
  \/ \E b \in backups : CallRestore(o, b)
  \/ \E k \in Keys : CallRotate(o, k) \/ CallCreate(o, k)

Work(o) ==
  \/ UnlockProbe(o)
  \/ SetWrite(o) \/ DeleteWrite(o) \/ MetaWrite(o) \/ RestoreWrite(o)
  \/ LeaveUnchanged(o)
  \/ RotateEncrypt(o) \/ RotateEmpty(o) \/ RotateAbort(o) \/ RotateSwap(o)
  \/ \E ok \in BOOLEAN : \/ RotateActivate(o, ok)
                         \/ RunBackupHook(o, ok)
                         \/ UnlockLoad(o, ok)
                         \/ ArchiveRotatedKey(o, ok)

Next ==
  \/ \E o \in Ops : Call(o) \/ Acquire(o) \/ Work(o)
  \/ Crash
  \/ Boot

Spec == Init /\ [][Next]_vars

\* File operations return, a gpg process is killed after 30 s, an upload is
\* aborted after 30 s and tried a bounded number of times, and a waiting call
\* is woken by every release of the lock.
Fairness == \A o \in Ops : WF_vars(Acquire(o)) /\ WF_vars(Work(o))

FairSpec == Spec /\ Fairness

-----------------------------------------------------------------------------
(* Properties.                                                             *)

Content(f) == [n \in Names |-> f[n].val]

Vault == INSTANCE SecretVault WITH
  Writes  <- Ops,
  content <- Content(store),
  taken   <- written,
  kept    <- {Content(b.blob) : b \in backups}

\* However calls, rotations, crashes and boots interleave, the secrets behave
\* like one map: no write is lost or undone by another call, a rotation and a
\* crash change no secret, only a restore brings back older ones.
VaultIsKept == Vault!Spec

\* Unless one of the Causes has occurred, the key in the process opens every
\* entry of the file - except between the swap and the activation of a rotation -
\* and a locked store is an empty one.
StoreOpens ==
  misuse = {} /\ up /\ ~Swapped
    => IF mem = NoKey THEN IsEmpty(store) ELSE Opens(mem, store)

\* Unless one of the Causes has occurred, a stopped server will find, at its
\* next boot, a key that opens every entry of the file.
BootFindsKey ==
  misuse = {} /\ ~up => IF BootKey = NoKey THEN IsEmpty(store) ELSE Opens(BootKey, store)

\* Unless one of the Causes has occurred, a backup is of one piece: the key that
\* decrypts the artefact opens every entry of the file in it.
BackupsOpen == misuse = {} => \A b \in backups : Opens(b.pass, b.blob)

\* Every call gets the lock and comes to its end, unless the process dies.
CallsEnd == \A o \in Ops : pc[o] = "queued" ~> pc[o] = "done"

(* What the specs of the repository say and the code does not do. *)

\* "no partial or mixed state": all entries are sealed with one key
NoMixedStore == \A m, n \in Names :
  IsSet(store, m) /\ IsSet(store, n) => store[m].key = store[n].key
=============================================================================
