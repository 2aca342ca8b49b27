---------------------------- MODULE DrainSession ----------------------------
(***************************************************************************)
(* What a drain is to its users: a session on the lane of one engine and   *)
(* project, which works in rounds, at most one on a lane.  It ends for     *)
(* good, and once it has been asked to stop it begins no further round.    *)
(***************************************************************************)
CONSTANTS
  Ids,
  Engines,  \* a drain started by hand or by the night watch
  Projects

Lanes == Engines \X Projects

VARIABLES
  where,  \* "new", between rounds ("idle"), in a "round", or "over"
  lane,   \* engine and project of a session
  asked   \* sessions whose stop has been answered with 202

vars == <<where, lane, asked>>

Open(d) == where[d] \in {"idle", "round"}

Free(l) == \A d \in Ids : Open(d) => lane[d] # l

Goes(d, from, to) == where[d] = from /\ where' = [where EXCEPT ![d] = to]

Init ==
  /\ where = [d \in Ids |-> "new"]
  /\ lane \in [Ids -> Lanes]
  /\ asked = {}

Begin(d, l) ==
  /\ Goes(d, "new", "idle")
  /\ Free(l)
  /\ lane' = [lane EXCEPT ![d] = l]
  /\ UNCHANGED asked

\* an id handed out for a drain that finds its project busy
Refuse(d, l) ==
  /\ Goes(d, "new", "over")
  /\ lane' = [lane EXCEPT ![d] = l]
  /\ UNCHANGED asked

Round(d) == d \notin asked /\ Goes(d, "idle", "round") /\ UNCHANGED <<lane, asked>>

Return(d) == Goes(d, "round", "idle") /\ UNCHANGED <<lane, asked>>

Ask(d) == Open(d) /\ asked' = asked \cup {d} /\ UNCHANGED <<where, lane>>

Close(d) == Open(d) /\ Goes(d, where[d], "over") /\ UNCHANGED <<lane, asked>>

\* the process is gone, and with it every session that was open
Outage ==
  /\ where' = [d \in Ids |-> IF Open(d) THEN "over" ELSE where[d]]
  /\ UNCHANGED <<lane, asked>>

Next ==
  \/ \E d \in Ids, l \in Lanes : Begin(d, l) \/ Refuse(d, l)
  \/ \E d \in Ids : Round(d) \/ Return(d) \/ Ask(d) \/ Close(d)
  \/ Outage

Spec == Init /\ [][Next]_vars

\* Every session that has been asked to stop comes to its end.
AskedEnd == <>[](\A d \in asked : where[d] = "over")
=============================================================================
