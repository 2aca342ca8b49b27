------------------------------ MODULE IdeaInbox ------------------------------
(***************************************************************************)
(* The inbox of ideas of a project: BoardWriter.createIdea, which takes a  *)
(* story number while the board CLI takes numbers from the same counter    *)
(* without a common lock, the owner's resolveIdea, and IdeaSpecifyFinalizer,*)
(* which has an agent turn an idea into requirements and, when the run is  *)
(* over, decides what becomes of the idea.                                 *)
(*                                                                         *)
(* The headless run itself is what HeadlessJob promises.                   *)
(***************************************************************************)
EXTENDS Naturals

CONSTANTS
  Max,          \* bound: story numbers
  MaxCaptures,  \* bound: ideas captured
  MaxAdds,      \* bound: stories added by the board CLI
  MaxRuns,      \* bound: finalizer runs
  MaxFaults,    \* bound: failing reads and writes
  Attempts      \* MAX_ID_ALLOCATION_RETRIES

ASSUME InboxAssumption ==
  /\ {Max, MaxCaptures, MaxAdds, MaxRuns, MaxFaults} \subseteq Nat
  /\ Attempts \in Nat \ {0}

Numbers == 1..Max
Runs    == 1..MaxRuns

\* what a file S-<n>.yaml says: which capture wrote it, and its status
NoFile == [by |-> 0, status |-> "none"]
Texts  == [by : 1..MaxCaptures, status : {"Idee", "To Do", "Done"}]
Names  == {"S-n", "S-n-title"} \X Numbers

VARIABLES
  counter,   \* next_story_id in board.yaml
  story,     \* the files S-<n>.yaml
  titled,    \* numbers of the files S-<n>-<title>.yaml of the board CLI
  capture,   \* the createIdea call that holds #createIdeaLock
  captures,  \* number of createIdea calls so far
  add,       \* the board CLI between its read and its write of the counter
  adds,      \* number of stories it was asked for
  resolve,   \* a resolveIdea call between its read and its write
  run,       \* status of the finalizer's runs, as the runner answers it
  net,       \* where a run stands with the finalizer
  idea,      \* the idea a run was started for
  baseline,  \* story files seen before the run, until they are compared
  text,      \* the text an archiving has read
  noop,      \* #noOpJobs
  faults,
  raced,     \* history: the board CLI and a capture had the same counter
  trouble    \* history: runs whose idea could not be read or written

boardVars   == <<counter, story, titled>>
captureVars == <<capture, captures>>
addVars     == <<add, adds>>
netVars     == <<run, net, idea, baseline, text, noop>>
inboxVars   == <<boardVars, captureVars, addVars, resolve, netVars, faults, raced,
                 trouble>>

Runner == INSTANCE HeadlessJob
            WITH Projects <- {"clone"}, Jobs <- Runs, job <- run,
                 project <- [j \in Runs |-> "clone"]

Idle == [stage |-> "idle", number |-> 0, attempt |-> 0]
None == [number |-> 0, text |-> NoFile]

InboxTypeOK ==
  /\ counter \in 1..(Max + 1)
  /\ story \in [Numbers -> Texts \cup {NoFile}]
  /\ titled \subseteq Numbers
  /\ capture \in [stage : {"idle", "retry", "reserve", "create"},
                  number : 0..Max, attempt : 0..Attempts]
  /\ captures \in 0..MaxCaptures
  /\ add \in 0..Max /\ adds \in 0..MaxAdds
  /\ resolve \in [number : 0..Max, text : Texts \cup {NoFile}]
  /\ run \in [Runs -> Runner!Terminal \cup {"none", "running"}]
  /\ net \in [Runs -> {"idle", "baseline", "started", "status", "archive",
                      "write", "over"}]
  /\ idea \in [Runs -> 0..Max]
  /\ baseline \in [Runs -> SUBSET Names]
  /\ text \in [Runs -> Texts \cup {NoFile}]
  /\ noop \subseteq Runs /\ trouble \subseteq Runs
  /\ faults \in 0..MaxFaults
  /\ raced \in BOOLEAN

InboxInit ==
  /\ counter = 1
  /\ story = [n \in Numbers |-> NoFile]
  /\ titled = {}
  /\ capture = Idle /\ captures = 0
  /\ add = 0 /\ adds = 0
  /\ resolve = None
  /\ run = [j \in Runs |-> "none"]
  /\ net = [j \in Runs |-> "idle"]
  /\ idea = [j \in Runs |-> 0]
  /\ baseline = [j \in Runs |-> {}]
  /\ text = [j \in Runs |-> NoFile]
  /\ noop = {} /\ trouble = {}
  /\ faults = 0
  /\ raced = FALSE

Exists(n) == story[n] # NoFile

Fault == faults < MaxFaults /\ faults' = faults + 1

-----------------------------------------------------------------------------
(* BoardWriter.createIdea: one call at a time, waiting at every step.      *)

\* a call gets its turn and reads the counter, or reads it again
ReadCounter ==
  /\ counter <= Max
  /\ \/ /\ capture = Idle /\ captures < MaxCaptures
        /\ capture' = [stage |-> "reserve", number |-> counter, attempt |-> 1]
        /\ captures' = captures + 1
     \/ /\ capture.stage = "retry"
        /\ capture' = [stage |-> "reserve", number |-> counter,
                       attempt |-> capture.attempt + 1]
        /\ UNCHANGED captures
  /\ raced' = (raced \/ add # 0)
  /\ UNCHANGED <<boardVars, addVars, resolve, netVars, faults, trouble>>

\* mutant: the counter is written back as it was read
ReserveNothing ==
  /\ capture.stage = "reserve"
  /\ counter' = capture.number
  /\ capture' = [capture EXCEPT !.stage = "create"]
  /\ UNCHANGED <<story, titled, captures, addVars, resolve, netVars, faults,
                 raced, trouble>>

\* the number is taken before its file is made
Reserve ==
  /\ capture.stage = "reserve"
  /\ counter' = capture.number + 1
  /\ capture' = [capture EXCEPT !.stage = "create"]
  /\ UNCHANGED <<story, titled, captures, addVars, resolve, netVars, faults,
                 raced, trouble>>

\* a read or write fails: 500, nothing is undone
CreateFails ==
  /\ capture.stage # "idle"
  /\ Fault
  /\ capture' = Idle
  /\ UNCHANGED <<boardVars, captures, addVars, resolve, netVars, raced, trouble>>

NewIdea == [by |-> captures, status |-> "Idee"]

\* mutant: the file is put in place by rename, as all others are
CreateByRename ==
  /\ capture.stage = "create"
  /\ story' = [story EXCEPT ![capture.number] = NewIdea]
  /\ capture' = Idle
  /\ UNCHANGED <<counter, titled, captures, addVars, resolve, netVars, faults,
                 raced, trouble>>

\* link() makes S-<n>.yaml only where there is none; on EEXIST the next number
\* is tried, up to MAX_ID_ALLOCATION_RETRIES times
ExclusiveCreate ==
  /\ capture.stage = "create"
  /\ IF Exists(capture.number)
     THEN /\ capture' = IF capture.attempt < Attempts
                        THEN [capture EXCEPT !.stage = "retry"]
                        ELSE Idle
          /\ UNCHANGED story
     ELSE /\ story' = [story EXCEPT ![capture.number] = NewIdea]
          /\ capture' = Idle
  /\ UNCHANGED <<counter, titled, captures, addVars, resolve, netVars, faults,
                 raced, trouble>>

-----------------------------------------------------------------------------
(* The board CLI and the agents, in processes of their own.                *)

AddRead ==
  /\ add = 0 /\ adds < MaxAdds /\ counter <= Max
  /\ add' = counter /\ adds' = adds + 1
  /\ raced' = (raced \/ capture.stage = "reserve")
  /\ UNCHANGED <<boardVars, captureVars, resolve, netVars, faults, trouble>>

AddWrite ==
  /\ add # 0
  /\ counter' = add + 1
  /\ titled' = titled \cup {add}
  /\ add' = 0
  /\ UNCHANGED <<story, captureVars, adds, resolve, netVars, faults, raced, trouble>>

\* an agent makes a story of an idea in its own file
TakeOver(n) ==
  /\ story[n].status = "Idee"
  /\ story' = [story EXCEPT ![n].status = "To Do"]
  /\ UNCHANGED <<counter, titled, captureVars, addVars, resolve, netVars, faults,
                 raced, trouble>>

-----------------------------------------------------------------------------
(* Patching a story file: it is found by the id in its text.               *)

\* `ambiguous-story`: two files with that id
Ambiguous(n) == Exists(n) /\ n \in titled

Resolvable(n) == story[n].status = "Idee" /\ ~Ambiguous(n)

Resolved(t) == [t EXCEPT !.status = "Done"]

ResolveRead(n) ==
  /\ resolve = None
  /\ Resolvable(n)
  /\ resolve' = [number |-> n, text |-> story[n]]
  /\ UNCHANGED <<boardVars, captureVars, addVars, netVars, faults, raced, trouble>>

\* the whole text read before is written back, whatever happened to the file
ResolveWrite ==
  /\ resolve # None
  /\ \/ /\ story' = [story EXCEPT ![resolve.number] = Resolved(resolve.text)]
        /\ UNCHANGED faults
     \/ Fault /\ UNCHANGED story
  /\ resolve' = None
  /\ UNCHANGED <<counter, titled, captureVars, addVars, netVars, raced, trouble>>

-----------------------------------------------------------------------------
(* IdeaSpecifyFinalizer: start.                                            *)

Files == {<<"S-n", n>> : n \in {m \in Numbers : Exists(m)}}
           \cup {<<"S-n-title", n>> : n \in titled}

\* what readdir gives; an error gives no file at all
Listing(files) ==
  \/ files = Files /\ UNCHANGED faults
  \/ files = {} /\ Fault

Go(j, stage) == net' = [net EXCEPT ![j] = stage]

HasRunningJobForIdea(n) == \E j \in Runs : idea[j] = n /\ run[j] = "running"

StartRun(j, n) ==
  /\ net[j] = "idle" /\ \A i \in Runs : i < j => net[i] # "idle"
  /\ Exists(n)
  /\ ~HasRunningJobForIdea(n)
  /\ Go(j, "baseline")
  /\ idea' = [idea EXCEPT ![j] = n]
  /\ UNCHANGED <<boardVars, captureVars, addVars, resolve, run, baseline, text,
                 noop, faults, raced, trouble>>

\* the snapshot is there and the runner is asked to start
Begin(j) ==
  /\ net[j] = "baseline"
  /\ \E files \in {Files, {}}, status \in {"running", "failed"} :
       /\ Listing(files)
       /\ Runner!Begin(j, "clone", status)
       /\ baseline' = [baseline EXCEPT ![j] = files]
  /\ Go(j, "started")
  /\ UNCHANGED <<boardVars, captureVars, addVars, resolve, idea, text, noop,
                 raced, trouble>>

\* a run of another idea has begun meanwhile: 409
Refused(j) ==
  /\ net[j] = "baseline"
  /\ Runner!RunningIn("clone") # {}
  /\ Go(j, "idle")
  /\ idea' = [idea EXCEPT ![j] = 0]
  /\ UNCHANGED <<boardVars, captureVars, addVars, resolve, run, baseline, text,
                 noop, faults, raced, trouble>>

\* `auth-expired` and `budget-limited` are to the finalizer what `failed` is
RunEnds(j) ==
  /\ \E status \in {"done", "failed"} : Runner!End(j, status)
  /\ UNCHANGED <<boardVars, captureVars, addVars, resolve, net, idea, baseline,
                 text, noop, faults, raced, trouble>>

-----------------------------------------------------------------------------
(* IdeaSpecifyFinalizer: the safety net of a run that is `done`.           *)

\* mutant: a run without a trace is taken for done
GetJobUnverified(j) ==
  /\ run[j] = "done" /\ net[j] = "started"
  /\ \E after \in {Files, {}} :
       /\ Listing(after)
       /\ \/ Go(j, IF after \subseteq baseline[j] THEN "over" ELSE "archive")
          \/ Go(j, "archive")
  /\ baseline' = [baseline EXCEPT ![j] = {}]   \* not looked at again
  /\ UNCHANGED <<boardVars, captureVars, addVars, resolve, run, idea, text, noop,
                 raced, trouble>>

\* the first poll that sees a run `done`, later ones find #safetyNetChecked; any
\* new name counts, beside story files also features, specs and temporary files
GetJob(j) ==
  /\ run[j] = "done" /\ net[j] = "started"
  /\ \E after \in {Files, {}} :
       /\ Listing(after)
       /\ \/ Go(j, IF after \subseteq baseline[j] THEN "status" ELSE "archive")
          \/ Go(j, "archive")
  /\ baseline' = [baseline EXCEPT ![j] = {}]   \* not looked at again
  /\ UNCHANGED <<boardVars, captureVars, addVars, resolve, run, idea, text, noop,
                 raced, trouble>>

\* readIdeaStatus: of the first file with that id, whichever that is
ReadIdeaStatus(j) ==
  /\ net[j] = "status"
  /\ LET n == idea[j]
     IN \/ /\ story[n].status = "Idee"
           /\ noop' = noop \cup {j} /\ UNCHANGED <<faults, trouble>>
        \/ /\ story[n].status # "Idee" \/ Ambiguous(n)
           /\ UNCHANGED <<noop, faults, trouble>>
        \/ Fault /\ trouble' = trouble \cup {j} /\ UNCHANGED noop
  /\ Go(j, "over")
  /\ UNCHANGED <<boardVars, captureVars, addVars, resolve, run, idea, baseline,
                 text, raced>>

\* archiveSupersededIdea: find the file, read it and look at its status
ArchiveRead(j) ==
  /\ net[j] = "archive"
  /\ \/ /\ Resolvable(idea[j])
        /\ Go(j, "write") /\ text' = [text EXCEPT ![j] = story[idea[j]]]
        /\ UNCHANGED <<faults, trouble>>
     \/ /\ ~Resolvable(idea[j])
        /\ Go(j, "over") /\ UNCHANGED <<text, faults, trouble>>
     \/ /\ Fault /\ trouble' = trouble \cup {j}
        /\ Go(j, "over") /\ UNCHANGED text
  /\ UNCHANGED <<boardVars, captureVars, addVars, resolve, run, idea, baseline,
                 noop, raced>>

ArchiveWrite(j) ==
  /\ net[j] = "write"
  /\ \/ /\ story' = [story EXCEPT ![idea[j]] = Resolved(text[j])]
        /\ UNCHANGED <<faults, trouble>>
     \/ Fault /\ trouble' = trouble \cup {j} /\ UNCHANGED story
  /\ Go(j, "over")
  /\ text' = [text EXCEPT ![j] = NoFile]
  /\ UNCHANGED <<counter, titled, captureVars, addVars, resolve, run, idea,
                 baseline, noop, raced>>

-----------------------------------------------------------------------------

Capture == ReadCounter \/ Reserve \/ CreateFails \/ ExclusiveCreate

Outside == AddRead \/ AddWrite \/ \E n \in Numbers : TakeOver(n)

Resolve == ResolveWrite \/ \E n \in Numbers : ResolveRead(n)

Finalize(j) ==
  \/ \E n \in Numbers : StartRun(j, n)
  \/ Begin(j) \/ Refused(j) \/ RunEnds(j)

SafetyNet(j) ==
  GetJob(j) \/ ReadIdeaStatus(j) \/ ArchiveRead(j) \/ ArchiveWrite(j)

InboxNext ==
  \/ Capture \/ Outside \/ Resolve
  \/ \E j \in Runs : Finalize(j) \/ SafetyNet(j)

InboxSpec == InboxInit /\ [][InboxNext]_inboxVars

-----------------------------------------------------------------------------
(* Properties.                                                             *)

\* An idea once captured keeps its file, and one that was settled is never an
\* idea again: no later capture takes its place, although the board CLI may set
\* the counter back, and no stale text of a resolve or of an archiving revives it.
CapturesAreKept ==
  [][\A n \in Numbers :
       Exists(n) => /\ story'[n].by = story[n].by
                    /\ story[n].status # "Idee" => story'[n].status # "Idee"]_inboxVars

\* As long as the board CLI and a capture have not read the same counter, no two
\* story files share an id - whatever writes of the capture have failed.
IdsUniqueUnlessRaced == ~raced => \A n \in Numbers : ~Ambiguous(n)

\* When the safety net has come to its end, the idea has been settled or the run
\* is reported as `no-op`: no run ends as `done` with its idea still in the inbox.
\* The exceptions are an idea whose id two files have, and a failing read or write.
CheckedIdeaIsSettled ==
  \A j \in Runs :
    net[j] = "over" /\ j \notin trouble /\ ~Ambiguous(idea[j])
      => j \in noop \/ story[idea[j]].status # "Idee"

=============================================================================
