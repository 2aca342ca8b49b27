--------------------------- MODULE NightWatchProofs ---------------------------
(***************************************************************************)
(* The theorems about NightWatch, for any number of projects and any       *)
(* length of the day, the interval and the buffers: its types, when drains *)
(* start, that a budget pause stays in its night, and that a night watch   *)
(* stopped between two ticks is silent.                                    *)
(***************************************************************************)
EXTENDS NightWatch, TLAPS, FiniteSetTheorems

PauseType ==
  [at : {"none", "round", "run", "pause"},
   until : (Floor - ResetBuffer)..Day,
   wake : 0..(Day + ResumeBuffer)]

\* How far each deadline may lie ahead: a day, or a day and its buffer.
Types ==
  /\ hour \in Hours
  /\ settings \in [on : BOOLEAN, window : Windows, slots : Slots]
  /\ timer \in (0..Interval) \cup {None}
  /\ tick \in {"idle", "reading", "waiting", "scan"}
  /\ plan \in [end : (-ResetBuffer - 1)..Day, slots : 0..3, free : 0..3]
  /\ sleep \in 0..(Day + ResetBuffer) /\ waited \in BOOLEAN
  /\ text \in Hours \cup {None}
  /\ limit \in (-ResetBuffer..Day) \cup {None}
  /\ due \in (-ResetBuffer..Day) \cup {None}
  /\ noted \in (Floor..Day) \cup {None}
  /\ work \subseteq Projects /\ open \subseteq Projects
  /\ heard \subseteq open
  /\ drains \in [Projects -> PauseType]
  /\ stopped \in BOOLEAN /\ quiet \in BOOLEAN
  /\ changes \in 0..MaxChanges

\* The wait for a reset ends at most one buffer after the window the tick has
\* read; whoever comes to the board without a wait is before its end.
PlanInv ==
  /\ tick = "waiting" => waited /\ sleep <= plan.end + ResetBuffer
  /\ tick = "scan" => \/ plan.end > 0
                      \/ waited /\ plan.end >= -ResetBuffer

\* A stopped chain has neither a timeout nor a tick left.
QuietInv == quiet => timer = None /\ tick = "idle"

IInv == Types /\ PlanInv /\ QuietInv /\ PausesStayInNight

-----------------------------------------------------------------------------
(* Constants and helpers                                                   *)

LEMMA Bounds ==
  /\ N \in Nat /\ Day \in Nat \ {0} /\ Interval \in Nat \ {0}
  /\ ResetBuffer \in Nat \ {0} /\ ResumeBuffer \in Nat \ {0}
  /\ MaxChanges \in Nat
  /\ None \notin Int
  /\ Floor \in Int /\ Floor = -ResumeBuffer
BY NightAssumption DEF Floor

LEMMA ModRange ==
  ASSUME NEW x \in Int, NEW d \in Nat \ {0}
  PROVE  x % d \in 0..(d - 1)
OBVIOUS

\* A printed reset lies within the next day.
LEMMA NextAtRange ==
  ASSUME NEW h \in Hours, hour \in Hours
  PROVE  NextAt(h) \in 1..Day
<1>1. Day \in Nat \ {0}
  BY NightAssumption
<1>2. h - hour - 1 \in Int
  BY <1>1 DEF Hours
<1>3. (h - hour - 1) % Day \in 0..(Day - 1)
  BY <1>1, <1>2, ModRange
<1> QED
  BY <1>1, <1>3 DEF NextAt

\* Inside a window, its end is ahead and less than a day away.
LEMMA WindowEndAhead ==
  ASSUME hour \in Hours, settings.window \in Windows,
         IsWithinWindow(hour, settings.window)
  PROVE  WindowEnd \in 1..Day
<1>1. settings.window.start \in Hours /\ settings.window.end \in Hours
  BY NightAssumption DEF Hours
<1> QED
  BY <1>1, Bounds DEF WindowEnd, ComputeWindowEnd, IsWithinWindow, Hours

LEMMA AtLeastZeroRange ==
  ASSUME NEW x \in Int
  PROVE  AtLeastZero(x) \in Nat /\ AtLeastZero(x) >= x /\ (x >= 0 => AtLeastZero(x) = x)
BY DEF AtLeastZero

LEMMA DownRange ==
  ASSUME NEW low \in Int, NEW high \in Int, NEW x \in (low..high) \cup {None}
  PROVE  Down(x, low) \in (low..high) \cup {None}
BY Bounds DEF Down

LEMMA ActiveCount == Cardinality(Active) \in Nat
<1>1. IsFiniteSet(Projects)
  BY Bounds, FS_Interval DEF Projects
<1>2. IsFiniteSet(Active)
  BY <1>1, FS_Subset DEF Active
<1> QED
  BY <1>2, FS_CardinalityType

LEMMA TypesImplyTypeOK == Types => TypeOK
BY Bounds DEF Types, TypeOK, Left, PauseType, Floor

-----------------------------------------------------------------------------
(* Parts of steps                                                          *)

ChainTypes ==
  /\ timer \in (0..Interval) \cup {None}
  /\ tick \in {"idle", "reading", "waiting", "scan"}
  /\ plan \in [end : (-ResetBuffer - 1)..Day, slots : 0..3, free : 0..3]
  /\ sleep \in 0..(Day + ResetBuffer) /\ waited \in BOOLEAN

LEMMA EndTickKeeps ==
  ASSUME EndTick
  PROVE  ChainTypes' /\ PlanInv' /\ tick' = "idle"
<1>1. NoPlan \in [end : (-ResetBuffer - 1)..Day, slots : 0..3, free : 0..3]
  BY Bounds DEF NoPlan
<1>2. timer' \in (0..Interval) \cup {None}
  BY Bounds DEF EndTick
<1>3. sleep' \in 0..(Day + ResetBuffer)
  BY Bounds DEF EndTick
<1>5. waited' \in BOOLEAN
  BY Zenon DEF EndTick
<1>4. plan' = NoPlan /\ tick' = "idle"
  BY DEF EndTick
<1> QED
  BY <1>1, <1>2, <1>3, <1>4, <1>5 DEF ChainTypes, PlanInv

LEMMA TakeSlotsKeeps ==
  ASSUME IInv, NEW end \in (-ResetBuffer - 1)..Day, NEW slots \in 0..3,
         end > 0 \/ (waited /\ end >= -ResetBuffer),
         TakeSlots(end, slots)
  PROVE  ChainTypes' /\ PlanInv'
<1> DEFINE free == AtLeastZero(slots - Cardinality(Active))
<1>1. free \in 0..3
  BY ActiveCount DEF AtLeastZero
<1>2. CASE free = 0 /\ EndTick
  BY <1>2, EndTickKeeps
<1>3. CASE /\ free > 0
           /\ tick' = "scan"
           /\ plan' = [end |-> end, slots |-> 0, free |-> free]
           /\ UNCHANGED <<timer, sleep, waited>>
  <2>1. plan' \in [end : (-ResetBuffer - 1)..Day, slots : 0..3, free : 0..3]
        /\ plan'.end = end
    BY <1>1, <1>3
  <2> QED
    BY <1>3, <2>1 DEF IInv, Types, ChainTypes, PlanInv
<1> QED
  BY <1>2, <1>3 DEF TakeSlots

\* A drain goes to another phase, within the night it was given.
LEMMA PhaseKeeps ==
  ASSUME IInv, NEW p \in Projects, NEW at \in {"none", "round", "run", "pause"},
         NEW wake \in 0..(Day + ResumeBuffer),
         at = "pause" /\ wake > 0 => wake <= drains[p].until,
         ToPhase(p, at, wake)
  PROVE  drains' \in [Projects -> PauseType] /\ PausesStayInNight'
<1>1. drains \in [Projects -> PauseType]
  BY DEF IInv, Types
<1>2. drains' = [drains EXCEPT ![p] = [drains[p] EXCEPT !.at = at, !.wake = wake]]
  BY <1>1 DEF ToPhase, PauseType
<1>3. [drains[p] EXCEPT !.at = at, !.wake = wake] \in PauseType
  BY <1>1 DEF PauseType
<1>4. drains' \in [Projects -> PauseType]
  BY <1>1, <1>2, <1>3
<1>5. ASSUME NEW q \in Projects, drains'[q].at = "pause", drains'[q].wake > 0
      PROVE  drains'[q].wake <= drains'[q].until
  <2>1. CASE q = p
    BY <1>1, <1>2, <1>5, <2>1 DEF PauseType
  <2>2. CASE q # p
    BY <1>1, <1>2, <1>5, <2>2 DEF IInv, PausesStayInNight
  <2> QED
    BY <2>1, <2>2
<1> QED
  BY <1>4, <1>5 DEF PausesStayInNight

LEMMA EndKeeps ==
  ASSUME IInv, NEW p \in Projects, DrainEnds(p)
  PROVE  drains' \in [Projects -> PauseType] /\ PausesStayInNight'
<1>1. drains \in [Projects -> PauseType]
  BY DEF IInv, Types
<1>2. NoDrain \in PauseType
  BY Bounds DEF NoDrain, PauseType
<1>3. drains' = [drains EXCEPT ![p] = NoDrain]
  BY DEF DrainEnds
<1>4. NoDrain.at # "pause"
  BY DEF NoDrain
<1> QED
  BY <1>1, <1>2, <1>3, <1>4 DEF PausesStayInNight, IInv

-----------------------------------------------------------------------------
(* The inductive invariant                                                 *)

LEMMA InitHolds == Init => IInv
<1> SUFFICES ASSUME Init PROVE IInv
  OBVIOUS
<1>1. NoDrain \in PauseType
  BY Bounds DEF NoDrain, PauseType
<1>2. NoPlan \in [end : (-ResetBuffer - 1)..Day, slots : 0..3, free : 0..3]
  BY Bounds DEF NoPlan
<1>3. Types
  <2>1. ChainTypes
    <3>1. waited \in BOOLEAN
      BY Zenon DEF Init
    <3>2. timer \in 0..Interval /\ sleep \in 0..(Day + ResetBuffer)
      BY Bounds DEF Init
    <3>3. tick = "idle" /\ plan = NoPlan
      BY DEF Init
    <3> QED
      BY <1>2, <3>1, <3>2, <3>3 DEF ChainTypes
  <2>2. drains \in [Projects -> PauseType]
    BY <1>1 DEF Init
  <2>3. stopped \in BOOLEAN /\ quiet \in BOOLEAN
    BY Zenon DEF Init
  <2>4. changes \in 0..MaxChanges
    BY Bounds DEF Init
  <2> QED
    BY <2>1, <2>2, <2>3, <2>4 DEF Init, Types, ChainTypes
<1>4. PausesStayInNight
  BY DEF Init, PausesStayInNight, NoDrain
<1> QED
  BY <1>3, <1>4 DEF Init, IInv, PlanInv, QuietInv

LEMMA ElapseKeeps == IInv /\ Elapse => IInv'
<1> SUFFICES ASSUME IInv, Elapse PROVE IInv'
  OBVIOUS
<1> USE DEF IInv
<1>1. hour' \in Hours
  <2>1. hour + 1 \in Int /\ Day \in Nat \ {0}
    BY Bounds DEF Types, Hours
  <2> QED
    BY <2>1, ModRange DEF Elapse, Hours
<1>2. timer' \in (0..Interval) \cup {None} /\ (timer = None => timer' = None)
  <2>1. timer' = Down(timer, 0)
    BY DEF Elapse
  <2>2. Down(timer, 0) \in (0..Interval) \cup {None}
    BY Bounds, DownRange DEF Types
  <2> QED
    BY <2>1, <2>2 DEF Down
<1>3. sleep' \in 0..(Day + ResetBuffer) /\ (sleep > 0 => sleep' = sleep - 1)
  <2>1. sleep \in 0..(Day + ResetBuffer) /\ sleep # None
    BY Bounds DEF Types
  <2>2. sleep' = IF sleep <= 0 THEN sleep ELSE sleep - 1
    BY <2>1 DEF Elapse, Down
  <2> QED
    BY <2>1, <2>2, Bounds
<1>4. plan' \in [end : (-ResetBuffer - 1)..Day, slots : 0..3, free : 0..3]
  <2>1. plan \in [end : (-ResetBuffer - 1)..Day, slots : 0..3, free : 0..3]
    BY DEF Types
  <2>2. Down(plan.end, -ResetBuffer - 1) \in (-ResetBuffer - 1)..Day
    BY <2>1, Bounds DEF Down
  <2> QED
    BY <2>1, <2>2 DEF Elapse
<1>5. /\ limit' \in (-ResetBuffer..Day) \cup {None}
      /\ due' \in (-ResetBuffer..Day) \cup {None}
      /\ noted' \in (Floor..Day) \cup {None}
  <2>1. /\ limit' = Down(limit, -ResetBuffer)
        /\ due' = Down(due, -ResetBuffer)
        /\ noted' = Down(noted, Floor)
    BY DEF Elapse
  <2>2. -ResetBuffer \in Int /\ Floor \in Int /\ Day \in Int
    BY Bounds
  <2>3. Down(limit, -ResetBuffer) \in (-ResetBuffer..Day) \cup {None}
    BY <2>2, DownRange DEF Types
  <2>4. Down(due, -ResetBuffer) \in (-ResetBuffer..Day) \cup {None}
    BY <2>2, DownRange DEF Types
  <2>5. Down(noted, Floor) \in (Floor..Day) \cup {None}
    BY <2>2, DownRange DEF Types
  <2> QED
    BY <2>1, <2>3, <2>4, <2>5
<1>6. ASSUME NEW p \in Projects
      PROVE  /\ drains'[p] \in PauseType
             /\ drains'[p].at = "pause" /\ drains'[p].wake > 0
                  => drains'[p].wake <= drains'[p].until
  <2>1. drains[p] \in PauseType
    BY DEF Types
  <2>2. CASE drains[p].at = "none"
    <3>1. drains'[p] = drains[p]
      BY <2>2 DEF Elapse
    <3> QED
      BY <2>1, <2>2, <3>1
  <2>3. CASE drains[p].at # "none"
    <3> DEFINE u == Down(drains[p].until, Floor)
               w == Down(drains[p].wake, 0)
    <3>1. drains'[p] = [[drains[p] EXCEPT !.until = u] EXCEPT !.wake = w]
      BY <2>1, <2>3 DEF Elapse, PauseType
    <3>2. /\ u \in (Floor - ResetBuffer)..Day
          /\ drains[p].until > Floor => u = drains[p].until - 1
      BY <2>1, Bounds DEF Down, PauseType
    <3>3. /\ w \in 0..(Day + ResumeBuffer)
          /\ w > 0 => drains[p].wake = w + 1
      BY <2>1, Bounds DEF Down, PauseType
    <3>4. /\ drains'[p].at = drains[p].at
          /\ drains'[p].until = u
          /\ drains'[p].wake = w
          /\ drains'[p] \in PauseType
      BY <2>1, <3>1, <3>2, <3>3 DEF PauseType
    <3>5. ASSUME drains[p].at = "pause", w > 0 PROVE w <= u
      <4>1. drains[p].wake > 0 /\ drains[p].wake <= drains[p].until
        BY <2>1, <3>3, <3>5 DEF PausesStayInNight, PauseType
      <4>2. drains[p].until > Floor
        BY <2>1, <4>1, Bounds DEF PauseType
      <4> QED
        BY <2>1, <3>2, <3>3, <3>5, <4>1, <4>2 DEF PauseType
    <3> QED
      BY <3>4, <3>5
  <2> QED
    BY <2>2, <2>3
<1>7. drains' \in [Projects -> PauseType]
  BY <1>6 DEF Elapse
<1>8. PausesStayInNight'
  BY <1>6 DEF PausesStayInNight
<1>9. PlanInv'
  <2>1. tick' = tick /\ waited' = waited /\ tick # "scan"
    BY DEF Elapse, Urgent
  <2>2. ASSUME tick = "waiting" PROVE waited /\ sleep' <= plan'.end + ResetBuffer
    <3>1. sleep # 0 /\ sleep \in Nat
      <4>1. sleep # 0
        BY <2>2, Zenon DEF Elapse, Urgent
      <4>2. sleep \in Nat
        BY Bounds DEF Types
      <4> QED
        BY <4>1, <4>2
    <3>2. waited /\ sleep <= plan.end + ResetBuffer
      BY <2>2 DEF PlanInv
    <3>3. plan \in [end : (-ResetBuffer - 1)..Day, slots : 0..3, free : 0..3]
      BY DEF Types
    <3>4. plan.end > -ResetBuffer - 1 /\ plan.end \in Int /\ plan.end # None
      BY <3>1, <3>2, <3>3, Bounds
    <3>5. plan'.end = Down(plan.end, -ResetBuffer - 1)
      BY <2>2, <3>3 DEF Elapse
    <3>6. plan'.end = plan.end - 1
      BY <3>4, <3>5, Bounds DEF Down
    <3> QED
      BY <1>3, <3>1, <3>2, <3>4, <3>6, Bounds
  <2> QED
    BY <2>1, <2>2 DEF PlanInv
<1>10. QuietInv'
  BY <1>2 DEF QuietInv, Elapse, ending
<1>11. Types'
  BY <1>1, <1>2, <1>3, <1>4, <1>5, <1>7 DEF Types, Elapse, world, ending
<1> QED
  BY <1>8, <1>9, <1>10, <1>11

\* Steps that leave the chain and the drains alone.
LEMMA OthersKeep ==
  IInv /\ (\/ Output \/ BufferScrolls \/ SettingsWritten
           \/ \E h \in Hours : LimitMessage(h)
           \/ \E p \in Projects : BoardChanges(p) \/ SessionOpens(p) \/ SessionEnds(p))
  => IInv'
<1> SUFFICES ASSUME IInv,
                    \/ Output \/ BufferScrolls \/ SettingsWritten
                    \/ \E h \in Hours : LimitMessage(h)
                    \/ \E p \in Projects :
                         BoardChanges(p) \/ SessionOpens(p) \/ SessionEnds(p)
             PROVE  IInv'
  OBVIOUS
<1> USE DEF IInv
<1>0. Changed => changes' \in 0..MaxChanges
  BY Bounds DEF Changed, Types
<1>1. UNCHANGED <<timer, tick, plan, sleep, waited, quiet, drains>>
  BY DEF Output, BufferScrolls, SettingsWritten, LimitMessage, BoardChanges,
         SessionOpens, SessionEnds, clock, rest, ending
<1>2. Types'
  <2>1. CASE Output
    <3>1. limit' \in 1..Day
      BY <2>1, NextAtRange DEF Output, Types
    <3> QED
      BY <1>0, <2>1, <3>1, Bounds DEF Output, Types, clock, world, rest, ending
  <2>2. CASE BufferScrolls
    BY <2>2 DEF BufferScrolls, Types, clock, world, rest, ending
  <2>3. CASE SettingsWritten
    BY <1>0, <2>3 DEF SettingsWritten, Types, clock, watcher, rest, ending
  <2>4. ASSUME NEW h \in Hours, LimitMessage(h) PROVE Types'
    <3>1. limit' \in 1..Day /\ due' \in 1..Day
      BY <2>4, NextAtRange DEF LimitMessage, Types
    <3> QED
      BY <1>0, <2>4, <3>1, Bounds DEF LimitMessage, Types, clock, world, rest, ending
  <2>5. ASSUME NEW p \in Projects, BoardChanges(p) PROVE Types'
    BY <1>0, <2>5 DEF BoardChanges, Types, clock, watcher, rest, ending
  <2>6. ASSUME NEW p \in Projects, SessionOpens(p) PROVE Types'
    BY <2>6 DEF SessionOpens, Types, clock, watcher, rest, ending
  <2>7. ASSUME NEW p \in Projects, SessionEnds(p) PROVE Types'
    BY <2>7 DEF SessionEnds, Types, clock, watcher, rest, ending
  <2> QED
    BY <2>1, <2>2, <2>3, <2>4, <2>5, <2>6, <2>7
<1> QED
  BY <1>1, <1>2 DEF PlanInv, QuietInv, PausesStayInNight

LEMMA StopKeeps == IInv /\ Stop => IInv'
<1> SUFFICES ASSUME IInv, Stop PROVE IInv'
  OBVIOUS
<1> USE DEF IInv
<1>1. changes' \in 0..MaxChanges
  BY Bounds DEF Stop, Changed, Types
<1>2. stopped' \in BOOLEAN /\ quiet' \in BOOLEAN
  BY Zenon DEF Stop
<1>3. Types'
  BY <1>1, <1>2 DEF Stop, Types, watcher, world, rest
<1>4. PlanInv' /\ PausesStayInNight'
  BY DEF Stop, PlanInv, PausesStayInNight, rest
<1>5. QuietInv'
  BY DEF Stop, QuietInv
<1> QED
  BY <1>3, <1>4, <1>5

\* The steps of a tick: it is not a stopped chain that makes them.
LEMMA TickAwake == IInv /\ TickStep => ~quiet /\ quiet' = quiet
<1> SUFFICES ASSUME IInv, TickStep PROVE ~quiet /\ quiet' = quiet
  OBVIOUS
<1>1. timer = 0 \/ tick # "idle"
  BY DEF TickStep, TimerFires, TickSkipped, TickOff, LimitStop, WaitForReset,
         NoLimit, WaitEnds, ScanFails, StartDrains, InNight
<1>2. ~quiet
  BY <1>1, Bounds DEF IInv, QuietInv
<1>3. quiet' = quiet
  BY DEF TickStep, TimerFires, TickSkipped, TickOff, LimitStop, WaitForReset,
         NoLimit, WaitEnds, ScanFails, StartDrains, ending
<1> QED
  BY <1>2, <1>3

\* What a tick does to the rest of the state, apart from StartDrains.
LEMMA TickKeepsRest ==
  ASSUME IInv, ChainTypes', PlanInv', ~quiet, quiet' = quiet,
         limit' \in {limit, None}, text' \in {text, None}, due' \in {due, None},
         changes' \in 0..MaxChanges,
         UNCHANGED <<hour, world, rest, stopped>>
  PROVE  IInv'
<1>1. Types'
  BY DEF IInv, Types, ChainTypes, world, rest
<1>2. PausesStayInNight' /\ QuietInv'
  BY DEF IInv, PausesStayInNight, QuietInv, rest
<1> QED
  BY <1>1, <1>2 DEF IInv

LEMMA TickKeeps == IInv /\ TickStep => IInv'
<1> SUFFICES ASSUME IInv, TickStep PROVE IInv'
  OBVIOUS
<1>1. ~quiet /\ quiet' = quiet
  BY TickAwake
<1>2. Types /\ PlanInv
  BY DEF IInv
<1>3. Changed => changes' \in 0..MaxChanges
  BY <1>2, Bounds DEF Changed, Types
<1>4. changes \in 0..MaxChanges
  BY <1>2 DEF Types
<1>5. ASSUME InNight PROVE WindowEnd \in 1..Day /\ settings.slots \in 0..3
  <2>1. settings.window \in Windows /\ settings.slots \in Slots /\ hour \in Hours
    BY <1>2 DEF Types
  <2>2. settings.slots \in 0..3
    <3>1. ASSUME NEW n \in Slots PROVE n \in 0..3
      BY NightAssumption
    <3>2. settings.slots \in Slots
      BY <2>1
    <3> QED
      BY <3>1, <3>2, Zenon
  <2>3. WindowEnd \in 1..Day
    BY <1>5, <2>1, WindowEndAhead DEF InNight
  <2> QED
    BY <2>2, <2>3
<1>6. CASE TimerFires
  <2>1. timer' = None /\ tick' = "reading" /\ UNCHANGED <<plan, sleep, waited>>
    BY <1>6 DEF TimerFires
  <2>2. ChainTypes'
    BY <1>2, <2>1 DEF ChainTypes, Types
  <2>3. PlanInv'
    BY <2>1 DEF PlanInv
  <2> QED
    BY <1>1, <1>4, <1>6, <2>2, <2>3, TickKeepsRest DEF TimerFires, watcher, ending
<1>7. CASE TickSkipped
  BY <1>1, <1>3, <1>7, EndTickKeeps, TickKeepsRest DEF TickSkipped, watcher, ending
<1>8. CASE TickOff
  BY <1>1, <1>4, <1>8, EndTickKeeps, TickKeepsRest DEF TickOff, watcher, ending
<1>9. CASE LimitStop
  BY <1>1, <1>4, <1>9, EndTickKeeps, TickKeepsRest DEF LimitStop, watcher, ending
<1>10. CASE ScanFails
  BY <1>1, <1>3, <1>10, EndTickKeeps, TickKeepsRest DEF ScanFails, watcher, ending
<1>11. CASE WaitForReset
  <2>1. limit \in -ResetBuffer..Day /\ limit <= WindowEnd /\ WindowEnd \in 1..Day
        /\ settings.slots \in 0..3
    BY <1>2, <1>5, <1>11, Bounds DEF WaitForReset, ExceedsWindow, Types
  <2>2. /\ sleep' = AtLeastZero(limit + ResetBuffer)
        /\ sleep' = limit + ResetBuffer
        /\ sleep' \in 0..(Day + ResetBuffer)
    BY <1>11, <2>1, Bounds DEF WaitForReset, AtLeastZero
  <2>3. plan' = [end |-> WindowEnd, slots |-> settings.slots, free |-> 0]
        /\ tick' = "waiting" /\ timer' = timer /\ waited' = TRUE
    BY <1>11 DEF WaitForReset
  <2>4. plan' \in [end : (-ResetBuffer - 1)..Day, slots : 0..3, free : 0..3]
        /\ plan'.end = WindowEnd
    BY <2>1, <2>3, Bounds
  <2>5. waited'
    BY <2>3
  <2>6. waited' \in BOOLEAN
    BY <2>3, Zenon
  <2>7. ChainTypes'
    BY <1>2, <2>2, <2>3, <2>4, <2>6 DEF ChainTypes, Types
  <2>8. PlanInv'
    BY <2>1, <2>2, <2>3, <2>4, <2>5, Bounds DEF PlanInv
  <2> QED
    BY <1>1, <1>4, <1>11, <2>7, <2>8, TickKeepsRest DEF WaitForReset, watcher, ending
<1>12. CASE NoLimit
  <2>1. WindowEnd \in (-ResetBuffer - 1)..Day /\ WindowEnd > 0 /\ settings.slots \in 0..3
    BY <1>5, <1>12, Bounds DEF NoLimit
  <2>2. ChainTypes' /\ PlanInv'
    BY <1>12, <2>1, TakeSlotsKeeps DEF NoLimit
  <2> QED
    BY <1>1, <1>4, <1>12, <2>2, TickKeepsRest DEF NoLimit, watcher, ending
<1>13. CASE WaitEnds
  <2>1. plan.end \in (-ResetBuffer - 1)..Day /\ plan.slots \in 0..3
    BY <1>2 DEF Types
  <2>2. waited /\ plan.end >= -ResetBuffer
    BY <1>2, <1>13, <2>1, Bounds DEF WaitEnds, PlanInv
  <2>3. ChainTypes' /\ PlanInv'
    BY <1>13, <2>1, <2>2, TakeSlotsKeeps DEF WaitEnds
  <2> QED
    BY <1>1, <1>4, <1>13, <2>3, TickKeepsRest DEF WaitEnds, rest, ending
<1>14. CASE StartDrains
  <2>1. plan.end \in (Floor - ResetBuffer)..Day
    BY <1>2, Bounds DEF Types
  <2>2. [at |-> "round", until |-> plan.end, wake |-> 0] \in PauseType
    BY <2>1, Bounds DEF PauseType
  <2>3. drains' \in [Projects -> PauseType]
    BY <1>2, <1>14, <2>2 DEF StartDrains, Types
  <2>4. PausesStayInNight'
    BY <1>14 DEF StartDrains, PausesStayInNight, IInv
  <2>5. ChainTypes' /\ PlanInv'
    BY <1>14, EndTickKeeps DEF StartDrains
  <2>6. heard' \subseteq open'
    BY <1>2, <1>14 DEF StartDrains, Types
  <2>7. Types'
    BY <1>2, <1>14, <2>3, <2>5, <2>6 DEF StartDrains, Types, ChainTypes, watcher, ending
  <2> QED
    BY <1>1, <2>4, <2>5, <2>7 DEF IInv, QuietInv
<1> QED
  BY <1>6, <1>7, <1>8, <1>9, <1>10, <1>11, <1>12, <1>13, <1>14 DEF TickStep

LEMMA DrainKeeps ==
  ASSUME NEW p \in Projects, IInv,
         DrainStep(p) \/ \E h \in Hours : RunLimited(p, h)
  PROVE  IInv'
<1>1. Types /\ drains[p] \in PauseType
  BY DEF IInv, Types
<1>2. Changed => changes' \in 0..MaxChanges
  BY <1>1, Bounds DEF Changed, Types
<1>3. 0 \in 0..(Day + ResumeBuffer)
  BY Bounds
<1>4. ASSUME drains' \in [Projects -> PauseType], PausesStayInNight',
             noted' \in (Floor..Day) \cup {None}, changes' \in 0..MaxChanges,
             work' \subseteq Projects,
             UNCHANGED <<hour, clock, watcher, settings, open, heard, ending>>
      PROVE  IInv'
  <2>1. Types'
    BY <1>1, <1>4 DEF Types, clock, watcher, ending
  <2>2. PlanInv' /\ QuietInv'
    BY <1>4 DEF IInv, PlanInv, QuietInv, clock, ending
  <2> QED
    BY <1>4, <2>1, <2>2 DEF IInv
<1>5. noted \in (Floor..Day) \cup {None} /\ changes \in 0..MaxChanges /\ work \subseteq Projects
  BY <1>1 DEF Types
<1>6. CASE DrainConverges(p)
  BY <1>4, <1>5, <1>6, EndKeeps DEF DrainConverges, world
<1>7. CASE ProactivePause(p)
  <2> DEFINE w == AtLeastZero(noted + ResumeBuffer)
  <2>1. UNCHANGED <<hour, clock, watcher, world, noted, ending, changes>>
    BY <1>7 DEF ProactivePause
  <2>2. CASE DrainEnds(p)
    BY <1>4, <1>5, <2>1, <2>2, EndKeeps DEF world
  <2>3. ASSUME noted # None, FALSE \in PastWindow(noted, drains[p].until),
               ToPhase(p, "pause", w)
        PROVE  IInv'
    <3>1. noted \in Floor..Day
      BY <1>5, <2>3
    <3>2. w \in 0..(Day + ResumeBuffer) /\ w = noted + ResumeBuffer
      BY <3>1, Bounds DEF AtLeastZero
    <3>3. w > 0 => w <= drains[p].until
      <4> DEFINE late == noted + ResumeBuffer > drains[p].until
      <4>1. drains[p].until \in Int
        BY <1>1, Bounds DEF PauseType
      <4>2. CASE noted = Floor /\ drains[p].until < Floor + ResumeBuffer
        BY <3>2, <4>2, Bounds
      <4>3. CASE ~(noted = Floor /\ drains[p].until < Floor + ResumeBuffer)
        <5>1. PastWindow(noted, drains[p].until) = {late}
          BY <4>3, Zenon DEF PastWindow
        <5>2. late = FALSE
          BY <2>3, <5>1, Zenon
        <5> HIDE DEF late
        <5>3. ~late
          BY <5>2
        <5> QED
          BY <3>1, <3>2, <4>1, <5>3, Bounds DEF late
      <4> QED
        BY <4>2, <4>3
    <3>4. drains' \in [Projects -> PauseType] /\ PausesStayInNight'
      BY <2>3, <3>2, <3>3, PhaseKeeps
    <3> QED
      BY <1>4, <1>5, <2>1, <3>4 DEF world
  <2>4. CASE noted = None
    BY <1>7, <2>2, <2>4 DEF ProactivePause
  <2>5. CASE noted # None
    <3>1. PICK past \in PastWindow(noted, drains[p].until) :
            IF past THEN DrainEnds(p) ELSE ToPhase(p, "pause", w)
      BY <1>7, <2>5, Zenon DEF ProactivePause
    <3>2. past \in BOOLEAN
      <4> DEFINE late == noted + ResumeBuffer > drains[p].until
      <4>1. late \in BOOLEAN
        BY DEF late
      <4> HIDE DEF late
      <4>2. PastWindow(noted, drains[p].until) = BOOLEAN
            \/ PastWindow(noted, drains[p].until) = {late}
        BY Zenon DEF PastWindow, late
      <4> QED
        BY <3>1, <4>1, <4>2
    <3>3. CASE past = TRUE
      BY <2>2, <3>1, <3>3
    <3>4. CASE past = FALSE
      <4>1. FALSE \in PastWindow(noted, drains[p].until)
        BY <3>1, <3>4, Zenon
      <4>2. ToPhase(p, "pause", w)
        BY <3>1, <3>4, Zenon
      <4> QED
        BY <2>3, <2>5, <4>1, <4>2
    <3> QED
      BY <3>2, <3>3, <3>4
  <2> QED
    BY <2>4, <2>5
<1>8. CASE StartRun(p)
  <2>1. drains' \in [Projects -> PauseType] /\ PausesStayInNight'
    BY <1>3, <1>8, PhaseKeeps DEF StartRun
  <2> QED
    BY <1>4, <1>5, <1>8, <2>1 DEF StartRun, world
<1>9. CASE RunEnds(p)
  <2>1. drains' \in [Projects -> PauseType] /\ PausesStayInNight'
    BY <1>3, <1>9, PhaseKeeps DEF RunEnds
  <2>2. work' \subseteq Projects
    BY <1>5, <1>9 DEF RunEnds
  <2> QED
    BY <1>4, <1>5, <1>9, <2>1, <2>2 DEF RunEnds
<1>10. CASE PauseEnds(p)
  <2>1. drains' \in [Projects -> PauseType] /\ PausesStayInNight'
    BY <1>3, <1>10, PhaseKeeps DEF PauseEnds
  <2> QED
    BY <1>4, <1>5, <1>10, <2>1 DEF PauseEnds, world
<1>11. ASSUME NEW h \in Hours, RunLimited(p, h) PROVE IInv'
  <2>1. NextAt(h) \in 1..Day
    BY <1>1, NextAtRange DEF Types
  <2>2. noted' \in (Floor..Day) \cup {None} /\ changes' \in 0..MaxChanges
    BY <1>2, <1>11, <2>1, Bounds DEF RunLimited
  <2>3. UNCHANGED <<hour, clock, watcher, world, ending>>
    BY <1>11 DEF RunLimited
  <2>4. CASE DrainEnds(p)
    BY <1>4, <1>5, <2>2, <2>3, <2>4, EndKeeps DEF world
  <2>5. CASE /\ ~(NextAt(h) + ResumeBuffer > drains[p].until)
             /\ ToPhase(p, "pause", NextAt(h) + ResumeBuffer)
    <3>1. NextAt(h) + ResumeBuffer \in 0..(Day + ResumeBuffer)
      BY <2>1, Bounds
    <3>2. NextAt(h) + ResumeBuffer <= drains[p].until
      BY <1>1, <2>5, <3>1, Bounds DEF PauseType
    <3>3. drains' \in [Projects -> PauseType] /\ PausesStayInNight'
      BY <2>5, <3>1, <3>2, PhaseKeeps
    <3> QED
      BY <1>4, <1>5, <2>2, <2>3, <3>3 DEF world
  <2> QED
    BY <1>11, <2>4, <2>5 DEF RunLimited
<1> QED
  BY <1>6, <1>7, <1>8, <1>9, <1>10, <1>11 DEF DrainStep

LEMMA NextKeeps == IInv /\ [Next]_vars => IInv'
<1> SUFFICES ASSUME IInv, [Next]_vars PROVE IInv'
  OBVIOUS
<1>1. CASE Next
  BY <1>1, ElapseKeeps, StopKeeps, TickKeeps, OthersKeep, DrainKeeps DEF Next
<1>2. CASE UNCHANGED vars
  <2>1. Types'
    BY <1>2 DEF IInv, Types, vars, clock, watcher, world, rest, ending
  <2>2. PlanInv' /\ QuietInv' /\ PausesStayInNight'
    BY <1>2 DEF IInv, PlanInv, QuietInv, PausesStayInNight, vars, clock, rest, ending
  <2> QED
    BY <2>1, <2>2 DEF IInv
<1> QED
  BY <1>1, <1>2

LEMMA InvariantHolds == Spec => []IInv
BY InitHolds, NextKeeps, PTL DEF Spec

-----------------------------------------------------------------------------
(* The theorems                                                            *)

\* Every variable keeps its type, every deadline its range.
THEOREM TypeCorrect == Spec => []TypeOK
<1>1. IInv => TypeOK
  BY TypesImplyTypeOK DEF IInv
<1> QED
  BY <1>1, InvariantHolds, PTL

\* No budget pause of a night drain reaches past the end of the window it was
\* given, whichever drain noted the reset, and in whichever night.
THEOREM PausesStayInNightCorrect == Spec => []PausesStayInNight
<1>1. IInv => PausesStayInNight
  BY DEF IInv
<1> QED
  BY <1>1, InvariantHolds, PTL

\* A step that starts a drain is the end of a scan.
LEMMA OnlyScansStart ==
  ASSUME IInv, [Next]_vars, NEW p \in Projects, Starts(p)
  PROVE  StartDrains
<1>1. drains \in [Projects -> PauseType] /\ drains[p].at = "none" /\ drains'[p].at # "none"
  BY DEF IInv, Types, Starts
<1>2. drains' # drains
  BY <1>1
<1>3. ~Elapse
  BY <1>1 DEF Elapse
<1>4. ASSUME NEW q \in Projects, DrainStep(q) \/ \E h \in Hours : RunLimited(q, h)
      PROVE  FALSE
  <2>1. drains[q].at # "none"
    BY <1>4 DEF DrainStep, DrainConverges, ProactivePause, StartRun, RunEnds,
                PauseEnds, RunLimited
  <2>2. q # p
    BY <1>1, <2>1
  <2>3. drains'[p] = drains[p]
    <3>1. ASSUME NEW at, NEW wake, ToPhase(q, at, wake) PROVE drains'[p] = drains[p]
      BY <1>1, <2>2, <3>1 DEF ToPhase
    <3>2. ASSUME DrainEnds(q) PROVE drains'[p] = drains[p]
      BY <1>1, <2>2, <3>2 DEF DrainEnds
    <3> QED
      BY <1>4, <3>1, <3>2 DEF DrainStep, DrainConverges, ProactivePause,
                              StartRun, RunEnds, PauseEnds, RunLimited
  <2> QED
    BY <1>1, <2>3
<1>5. \/ Stop \/ Output \/ BufferScrolls \/ SettingsWritten
      \/ \E h \in Hours : LimitMessage(h)
      \/ \E q \in Projects : BoardChanges(q) \/ SessionOpens(q) \/ SessionEnds(q)
      \/ UNCHANGED vars
      \/ TickStep /\ ~StartDrains
      => drains' = drains
  BY DEF Stop, Output, BufferScrolls, SettingsWritten, LimitMessage, BoardChanges,
         SessionOpens, SessionEnds, vars, rest, TickStep, TimerFires, TickSkipped,
         TickOff, LimitStop, WaitForReset, NoLimit, WaitEnds, ScanFails
<1> QED
  BY <1>2, <1>3, <1>4, <1>5 DEF Next

\* A drain starts before the end of the window its tick has read, or at most
\* one buffer later when the tick has waited for a reset.
THEOREM StartsInNightCorrect == Spec => StartsInNight
<1>1. ASSUME IInv, [Next]_vars, NEW p \in Projects, Starts(p)
      PROVE  plan.end > 0 \/ (waited /\ plan.end >= -ResetBuffer)
  <2>1. tick = "scan"
    BY <1>1, OnlyScansStart DEF StartDrains
  <2> QED
    BY <1>1, <2>1 DEF IInv, PlanInv
<1>2. IInv /\ [Next]_vars =>
        [\A p \in Projects : Starts(p) =>
           \/ plan.end > 0
           \/ waited /\ plan.end >= -ResetBuffer]_vars
  BY <1>1
<1> QED
  BY <1>2, InvariantHolds, PTL DEF Spec, StartsInNight

\* After a stop that found no tick running no drain starts any more.
THEOREM StoppedStaysQuietCorrect == Spec => StoppedStaysQuiet
<1>1. ASSUME IInv, [Next]_vars, quiet, NEW p \in Projects, Starts(p)
      PROVE  FALSE
  <2>1. tick = "scan"
    BY <1>1, OnlyScansStart DEF StartDrains
  <2> QED
    BY <1>1, <2>1 DEF IInv, QuietInv
<1>2. IInv /\ [Next]_vars => [quiet => \A p \in Projects : ~Starts(p)]_vars
  BY <1>1
<1> QED
  BY <1>2, InvariantHolds, PTL DEF Spec, StoppedStaysQuiet
===============================================================================
