------------------------------ MODULE NightWatch ------------------------------
(***************************************************************************)
(* The night watch: the timer chain of NightWatchScheduler, the gates of   *)
(* one tick (settings, window, container login, token limit, slots, board) *)
(* and the night drains it starts, with the two budget pauses of           *)
(* ProjectDrain (BudgetGuard).  TokenLimitWatcher is modelled down to its  *)
(* text buffer: what it knows is re-read from the buffer at every chunk of *)
(* output, against the clock of that moment.                               *)
(*                                                                         *)
(* Time is discrete and cyclic.  One unit is the minute after a reset that *)
(* a tick still waits; every deadline is kept as the time left to it,      *)
(* clipped once it no longer matters how long it has passed.  Timers fire  *)
(* on time and a tick's reads take less than a unit (Urgent); a run takes  *)
(* any time.                                                               *)
(***************************************************************************)
EXTENDS Integers, FiniteSets

CONSTANTS N,            \* projects 1..N, in the order of the board index
          Day,          \* units of a day
          Interval,     \* settings.intervalMinutes
          ResetBuffer,  \* DEFAULT_RESET_BUFFER_MS
          ResumeBuffer, \* BUDGET_RESUME_BUFFER_MS
          Windows,      \* the night windows the owner may set
          Slots,        \* the values of settings.maxParallel
          Attended,     \* projects somebody opens a terminal session of
          MaxChanges,   \* bound on changes from outside: settings, board,
                        \* output, failed reads, shutdown
          None

ASSUME NightAssumption ==
  /\ {N, Day, Interval, ResetBuffer, ResumeBuffer} \subseteq Nat \ {0}
  /\ Slots \subseteq 1..3
  /\ Attended \subseteq 1..N
  /\ MaxChanges \in Nat
  /\ \A w \in Windows : {w.start, w.end} \subseteq 0..(Day - 1)
  /\ None \notin Int

Projects == 1..N
Hours == 0..(Day - 1)

\* Times that have passed are clipped here; below it only "long ago" is known.
Floor == -ResumeBuffer

VARIABLES
  hour,      \* the wall clock
  settings,  \* ticker-settings.json: [on, window, slots]
  timer,     \* #timer: time left, None when no timeout is pending
  tick,      \* the running tick: "idle", "reading", "waiting", "scan"
  plan,      \* what the tick still needs of it: [end, slots, free]
  sleep,     \* time left of the wait for the reset
  waited,    \* history: this tick has waited for a reset
  text,      \* wall-clock time of the first limit message in #buffer
  limit,     \* #state.resetAt of the TokenLimitWatcher, as time left
  due,       \* history: time left to the reset the message in #buffer told
  noted,     \* #resetAt of the BudgetGuard, as time left
  work,      \* projects the board shows a drain target for
  open,      \* projects with a live PTY session
  heard,     \* projects whose session the watcher listens to
  drains,    \* per project [at, until, wake]; at # "none" iff in #activeDrains
  stopped,   \* stop() has been called
  quiet,     \* history: stop() found no tick running
  changes

clock == <<timer, tick, plan, sleep, waited>>
watcher == <<text, limit, due>>
world == <<settings, work, open, heard>>
rest == <<noted, drains>>
ending == <<stopped, quiet>>
vars == <<hour, clock, watcher, world, rest, ending, changes>>

Left == -(ResetBuffer + ResumeBuffer)..(2 * Day + ResetBuffer + ResumeBuffer)
NoDrain == [at |-> "none", until |-> 0, wake |-> 0]
Active == {p \in Projects : drains[p].at # "none"}

TypeOK ==
  /\ hour \in Hours
  /\ settings \in [on : BOOLEAN, window : Windows, slots : Slots]
  /\ timer \in (0..Interval) \cup {None}
  /\ tick \in {"idle", "reading", "waiting", "scan"}
  /\ plan \in [end : Left, slots : 0..3, free : 0..3]
  /\ sleep \in Left /\ waited \in BOOLEAN
  /\ text \in Hours \cup {None}
  /\ {limit, due, noted} \subseteq Left \cup {None}
  /\ work \subseteq Projects /\ open \subseteq Projects
  /\ heard \subseteq open
  /\ drains \in [Projects -> [at : {"none", "round", "run", "pause"},
                              until : Left, wake : Left]]
  /\ stopped \in BOOLEAN /\ quiet \in BOOLEAN
  /\ changes \in 0..MaxChanges

-----------------------------------------------------------------------------
(* Pure helpers                                                            *)

\* now >= start and now < end; over midnight now >= start or now < end;
\* start = end is never night.
IsWithinWindow(h, w) ==
  \/ w.start < w.end /\ w.start <= h /\ h < w.end
  \/ w.start > w.end /\ (w.start <= h \/ h < w.end)

\* The end of the window that holds now: tomorrow only in the evening half.
ComputeWindowEnd(h, w) ==
  IF w.start < w.end \/ h < w.start THEN w.end - h ELSE w.end + Day - h

\* A reset is printed as a time of day: the next such time, a full day away
\* when it is that time now.
NextAt(h) == ((h - hour - 1) % Day) + 1

AtLeastZero(x) == IF x < 0 THEN 0 ELSE x

\* mutant: the buffer after the reset is not counted.
PastWindowUnbuffered(n, until) ==
  IF n = Floor /\ until < Floor + ResumeBuffer THEN BOOLEAN ELSE {n > until}

\* Whether a pause up to ResumeBuffer after the reset n ends after `until`;
\* both answers when the two lie too far back to be told apart.
PastWindow(n, until) ==
  IF n = Floor /\ until < Floor + ResumeBuffer THEN BOOLEAN
  ELSE {n + ResumeBuffer > until}

Changed == changes < MaxChanges /\ changes' = changes + 1

-----------------------------------------------------------------------------
(* Time                                                                    *)

Down(x, low) == IF x = None \/ x <= low THEN x ELSE x - 1

Urgent ==
  \/ timer = 0
  \/ tick \in {"reading", "scan"}
  \/ tick = "waiting" /\ sleep = 0
  \/ \E p \in Projects : drains[p].at = "pause" /\ drains[p].wake = 0

Elapse ==
  /\ ~Urgent
  /\ hour' = (hour + 1) % Day
  /\ timer' = Down(timer, 0)
  /\ sleep' = Down(sleep, 0)
  /\ plan' = IF tick = "idle" THEN plan
             ELSE [plan EXCEPT !.end = Down(@, -ResetBuffer - 1)]
  /\ limit' = Down(limit, -ResetBuffer)
  /\ due' = Down(due, -ResetBuffer)
  /\ noted' = Down(noted, Floor)
  /\ drains' = [p \in Projects |->
                  IF drains[p].at = "none" THEN drains[p]
                  ELSE [drains[p] EXCEPT !.until = Down(@, Floor),
                                         !.wake = Down(@, 0)]]
  /\ UNCHANGED <<tick, waited, text, world, ending, changes>>

-----------------------------------------------------------------------------
(* The timer chain                                                         *)

NoPlan == [end |-> 0, slots |-> 0, free |-> 0]

\* start() at boot: the first tick at once.
Init ==
  /\ hour \in Hours
  /\ settings \in [on : BOOLEAN, window : Windows, slots : Slots]
  /\ timer = 0
  /\ tick = "idle" /\ plan = NoPlan /\ sleep = 0 /\ waited = FALSE
  /\ text = None /\ limit = None /\ due = None /\ noted = None
  /\ work \in SUBSET Projects /\ open = {} /\ heard = {}
  /\ drains = [p \in Projects |-> NoDrain]
  /\ stopped = FALSE /\ quiet = FALSE
  /\ changes = 0

TimerFires ==
  /\ timer = 0 /\ tick = "idle"
  /\ timer' = None
  /\ tick' = "reading"
  /\ UNCHANGED <<hour, plan, sleep, waited, watcher, world, rest, ending,
                 changes>>

\* However a tick ends, the chain arms its next timeout, also after stop().
EndTick ==
  /\ tick' = "idle" /\ plan' = NoPlan /\ sleep' = 0 /\ waited' = FALSE
  /\ timer' = Interval

\* mutant: the handle is dropped, the timeout is not cleared.
StopKeepsTimeout ==
  /\ ~stopped /\ Changed
  /\ stopped' = TRUE
  /\ quiet' = (tick = "idle")
  /\ UNCHANGED <<hour, clock, watcher, world, rest>>

\* stop(): clears a pending timeout.  A running tick is not told.
Stop ==
  /\ ~stopped /\ Changed
  /\ stopped' = TRUE
  /\ quiet' = (tick = "idle")
  /\ timer' = None
  /\ UNCHANGED <<hour, tick, plan, sleep, waited, watcher, world, rest>>

-----------------------------------------------------------------------------
(* One tick                                                                *)

\* mutant: a tick that fails breaks the chain.
TickSkippedForGood ==
  /\ tick = "reading"
  /\ Changed
  /\ tick' = "idle"
  /\ UNCHANGED <<hour, timer, plan, sleep, waited, watcher, world, rest, ending>>

\* The settings cannot be read, or the container login has expired.
TickSkipped ==
  /\ tick = "reading"
  /\ Changed
  /\ EndTick
  /\ UNCHANGED <<hour, watcher, world, rest, ending>>

TickOff ==
  /\ tick = "reading"
  /\ ~settings.on \/ ~IsWithinWindow(hour, settings.window)
  /\ EndTick
  /\ UNCHANGED <<hour, watcher, world, rest, ending, changes>>

InNight == /\ tick = "reading"
           /\ settings.on
           /\ IsWithinWindow(hour, settings.window)

WindowEnd == ComputeWindowEnd(hour, settings.window)

\* mutant: waits for every reset.
NeverExceeds == FALSE

ExceedsWindow == limit > WindowEnd

\* The reset lies behind the window: nothing starts before the next night.
LimitStop ==
  /\ InNight
  /\ limit # None /\ ExceedsWindow
  /\ EndTick
  /\ UNCHANGED <<hour, watcher, world, rest, ending, changes>>

WaitForReset ==
  /\ InNight
  /\ limit # None /\ ~ExceedsWindow
  /\ tick' = "waiting"
  /\ plan' = [end |-> WindowEnd, slots |-> settings.slots, free |-> 0]
  /\ sleep' = AtLeastZero(limit + ResetBuffer)
  /\ waited' = TRUE
  /\ UNCHANGED <<hour, timer, watcher, world, rest, ending, changes>>

\* What follows the gates: the slots are counted, then the board is read.
TakeSlots(end, slots) ==
  LET free == AtLeastZero(slots - Cardinality(Active)) IN
    \/ free = 0 /\ EndTick
    \/ /\ free > 0
       /\ tick' = "scan"
       /\ plan' = [end |-> end, slots |-> 0, free |-> free]
       /\ UNCHANGED <<timer, sleep, waited>>

NoLimit ==
  /\ InNight
  /\ limit = None
  /\ TakeSlots(WindowEnd, settings.slots)
  /\ UNCHANGED <<hour, watcher, world, rest, ending, changes>>

\* clear(): whatever the watcher knows by now is forgotten.
WaitEnds ==
  /\ tick = "waiting" /\ sleep = 0
  /\ limit' = None /\ text' = None /\ due' = None
  /\ TakeSlots(plan.end, plan.slots)
  /\ UNCHANGED <<hour, world, rest, ending, changes>>

ScanFails ==
  /\ tick = "scan"
  /\ Changed
  /\ EndTick
  /\ UNCHANGED <<hour, watcher, world, rest, ending>>

\* The first projects of the index that have a target and no drain running.
Chosen ==
  LET candidates == work \ Active IN
    {p \in candidates :
       Cardinality({q \in candidates : q < p}) < plan.free}

\* A project with an open session counts as started, but drainProject answers
\* 'already-busy' at once.  The watcher is attached to a session that exists;
\* none is created.
StartDrains ==
  /\ tick = "scan"
  /\ drains' = [p \in Projects |->
                  IF p \in Chosen \ open
                  THEN [at |-> "round", until |-> plan.end, wake |-> 0]
                  ELSE drains[p]]
  /\ heard' = heard \cup (Chosen \cap open)
  /\ EndTick
  /\ UNCHANGED <<hour, watcher, settings, work, open, noted, ending, changes>>

-----------------------------------------------------------------------------
(* A night drain                                                           *)

ToPhase(p, at, wake) ==
  drains' = [drains EXCEPT ![p].at = at, ![p].wake = wake]

\* The drain returns and its promise leaves #activeDrains.
DrainEnds(p) == drains' = [drains EXCEPT ![p] = NoDrain]

\* No target left, or one of the loop's own reasons to end.
DrainConverges(p) ==
  /\ drains[p].at = "round"
  /\ DrainEnds(p)
  /\ UNCHANGED <<hour, clock, watcher, world, noted, ending, changes>>

\* checkProactive reports the budget as used up: wait for the noted reset,
\* end when none is known or when the pause would pass the window.
ProactivePause(p) ==
  /\ drains[p].at = "round" /\ p \in work
  /\ IF noted = None THEN DrainEnds(p)
     ELSE \E past \in PastWindow(noted, drains[p].until) :
            IF past THEN DrainEnds(p)
            ELSE ToPhase(p, "pause", AtLeastZero(noted + ResumeBuffer))
  /\ UNCHANGED <<hour, clock, watcher, world, noted, ending, changes>>

StartRun(p) ==
  /\ drains[p].at = "round" /\ p \in work
  /\ ToPhase(p, "run", 0)
  /\ UNCHANGED <<hour, clock, watcher, world, noted, ending, changes>>

RunEnds(p) ==
  /\ drains[p].at = "run"
  /\ ToPhase(p, "round", 0)
  /\ work' \in {work, work \ {p}}
  /\ UNCHANGED <<hour, clock, watcher, settings, open, heard, noted, ending,
                 changes>>

\* The run reports 'budget-limited' with the reset at wall-clock time h.
RunLimited(p, h) ==
  /\ drains[p].at = "run"
  /\ Changed
  /\ noted' = NextAt(h)
  /\ IF NextAt(h) + ResumeBuffer > drains[p].until
     THEN DrainEnds(p)
     ELSE ToPhase(p, "pause", NextAt(h) + ResumeBuffer)
  /\ UNCHANGED <<hour, clock, watcher, world, ending>>

PauseEnds(p) ==
  /\ drains[p].at = "pause" /\ drains[p].wake = 0
  /\ ToPhase(p, "round", 0)
  /\ UNCHANGED <<hour, clock, watcher, world, noted, ending, changes>>

-----------------------------------------------------------------------------
(* Output of a session the watcher listens to                              *)

\* A limit message enters an empty buffer.  (A later one is not seen while
\* the first is still in the buffer: the first match wins.)
LimitMessage(h) ==
  /\ heard # {} /\ text = None
  /\ Changed
  /\ text' = h
  /\ limit' = NextAt(h) /\ due' = NextAt(h)
  /\ UNCHANGED <<hour, clock, world, rest, ending>>

\* Any other chunk: the buffer is parsed again, relative to now.
Output ==
  /\ heard # {} /\ text # None
  /\ Changed
  /\ limit' = NextAt(text)
  /\ UNCHANGED <<hour, clock, text, due, world, rest, ending>>

\* The message has left the rolling buffer; the state stays.
BufferScrolls ==
  /\ heard # {} /\ text # None
  /\ text' = None
  /\ UNCHANGED <<hour, clock, limit, due, world, rest, ending, changes>>

-----------------------------------------------------------------------------
(* Changes from outside                                                    *)

SettingsWritten ==
  /\ Changed
  /\ settings' \in [on : BOOLEAN, window : Windows, slots : Slots] \ {settings}
  /\ UNCHANGED <<hour, clock, watcher, work, open, heard, rest, ending>>

BoardChanges(p) ==
  /\ Changed
  /\ work' = IF p \in work THEN work \ {p} ELSE work \cup {p}
  /\ UNCHANGED <<hour, clock, watcher, settings, open, heard, rest, ending>>

SessionOpens(p) ==
  /\ p \in Attended \ open
  /\ open' = open \cup {p}
  /\ UNCHANGED <<hour, clock, watcher, settings, work, heard, rest, ending,
                 changes>>

SessionEnds(p) ==
  /\ p \in open
  /\ open' = open \ {p} /\ heard' = heard \ {p}
  /\ UNCHANGED <<hour, clock, watcher, settings, work, rest, ending, changes>>

-----------------------------------------------------------------------------
TickStep == \/ TimerFires \/ TickSkipped \/ TickOff \/ LimitStop
            \/ WaitForReset \/ NoLimit \/ WaitEnds \/ ScanFails \/ StartDrains

DrainStep(p) == \/ DrainConverges(p) \/ ProactivePause(p) \/ StartRun(p)
                \/ RunEnds(p) \/ PauseEnds(p)

Next ==
  \/ Elapse
  \/ Stop
  \/ TickStep
  \/ Output \/ BufferScrolls \/ SettingsWritten
  \/ \E h \in Hours : LimitMessage(h)
  \/ \E p \in Projects :
       \/ DrainStep(p)
       \/ \E h \in Hours : RunLimited(p, h)
       \/ BoardChanges(p) \/ SessionOpens(p) \/ SessionEnds(p)

\* Time passes (also while a drain over budget repeats pauses of length 0),
\* timers fire and reads return; runs end (their own timeouts) and promises
\* settle.
Fairness ==
  /\ SF_vars(Elapse)
  /\ WF_vars(TickStep)
  /\ \A p \in Projects : WF_vars(DrainStep(p))

Spec == Init /\ [][Next]_vars

FairSpec == Spec /\ Fairness

-----------------------------------------------------------------------------
(* Properties                                                              *)

Starts(p) == drains[p].at = "none" /\ drains'[p].at # "none"

\* A drain starts only before the end of the window its tick has read, or, in
\* a tick that waited for a reset, within ResetBuffer after it: settings and
\* window are read before that wait and used after it.
StartsInNight ==
  [][\A p \in Projects : Starts(p) =>
       \/ plan.end > 0
       \/ waited /\ plan.end >= -ResetBuffer]_vars

\* No budget pause reaches past the end of the window the drain was given,
\* whatever reset the guard has noted, for this drain or for another one.
PausesStayInNight ==
  \A p \in Projects :
    drains[p].at = "pause" /\ drains[p].wake > 0
      => drains[p].wake <= drains[p].until

\* stop() with no tick running is final: no drain starts any more.
StoppedStaysQuiet == [][quiet => \A p \in Projects : ~Starts(p)]_vars

LongNight == (settings.window.end - settings.window.start) % Day >= Interval

\* While the night watch stays on, with a window no tick can miss and a slot
\* the other drains leave, the first project of the index that has work is
\* drained again and again: no failed read, expired login, passed token limit
\* or tick that found all slots taken ends it.
NightWorkStarts ==
  \A p \in Projects :
    <>[](/\ ~stopped /\ settings.on /\ LongNight
         /\ p \in work \ open /\ \A q \in work : p <= q
         /\ Cardinality(Active \ {p}) < settings.slots)
      => []<>(p \in Active)
=============================================================================
