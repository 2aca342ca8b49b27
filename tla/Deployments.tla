------------------------------ MODULE Deployments ------------------------------
(***************************************************************************)
(* Deployments on one VPS behind one Cloudflare tunnel: the sagas of       *)
(* DeployOrchestrator (deploy with compensation, undeploy), the            *)
(* reconciliation of ReconciliationJob and the read-modify-write with      *)
(* which CloudflareApi edits the tunnel's one list of routes.  The only    *)
(* memory of a deployment is the hostname label of its container and the   *)
(* route of that hostname; there is no lock but the job's own.             *)
(*                                                                         *)
(* Every remote step (SSH to Docker, HTTPS to Cloudflare) is an action of  *)
(* its own, since each is awaited.  It succeeds, or it fails without       *)
(* effect, or it takes effect and only its answer is lost.                 *)
(***************************************************************************)
EXTENDS Integers, FiniteSets

CONSTANTS Hosts,        \* hostnames the LockoutGuard does not protect
          Protected,    \* hostnames it does; their apps are not of this code
          LastPort,     \* host ports 1..LastPort, 1 is HOST_PORT_START
          Calls,        \* requests; a container is named after its request
          Deployed,     \* the hostname of each container of earlier days
          Job,          \* the reconciliation
          MaxTrouble,   \* bound on failing remote steps, crashes and
                        \* containers stopped and started by hand
          None

ASSUME DeployAssumption ==
  /\ IsFiniteSet(Hosts)
  /\ Hosts \cap Protected = {}
  /\ LastPort \in Nat \ {0}
  /\ IsFiniteSet(Calls \cup DOMAIN Deployed)
  /\ Calls \cap DOMAIN Deployed = {}
  /\ \A k \in DOMAIN Deployed : Deployed[k] \in Hosts
  /\ Job \notin Calls
  /\ MaxTrouble \in Nat
  /\ None \notin Hosts \cup Protected \cup Nat

Names == Hosts \cup Protected
Ports == 1..LastPort
Before == DOMAIN Deployed
Containers == Calls \cup Before
Actors == Calls \cup {Job}

VARIABLES
  containers,  \* docker ps -a: per container its label, port and state
  routes,      \* ingress rules of the tunnel: the port per hostname, or None
  dns,         \* hostnames with a CNAME
  actors,      \* what each request and the job are about to do
  view,        \* what the job keeps of psAll, per hostname (Looked)
  orphans,     \* routes the job has still to remove
  heals,       \* hostnames whose route it has still to create
  trouble

job == <<view, orphans, heals>>
remote == <<containers, routes, dns>>
vars == <<remote, actors, job, trouble>>

NoContainer == [host |-> None, port |-> 1, state |-> "none"]

\* alone: history, nobody else has been active since it began.
Resting(at) ==
  [op |-> "none", host |-> None, at |-> at, port |-> 1, old |-> {},
   seen |-> [h \in Names |-> None], alone |-> FALSE]

Waits == {"ready", "ended", "off"}

Active(a) == actors[a].at \notin Waits

ContainerType == [host : Hosts \cup {None}, port : Ports,
                  state : {"none", "running", "stopped"}]

ActorType ==
  [op : {"none", "deploy", "rollback", "undeploy", "orphan", "heal"},
   host : Names \cup {None},
   at : Waits \cup {"list", "replace", "run", "get", "put", "dns", "undo",
                    "undoAll", "find", "rm", "ps", "next"},
   port : Ports,
   old : SUBSET Containers,
   seen : [Names -> Ports \cup {None}],
   alone : BOOLEAN]

TypeOK ==
  /\ containers \in [Containers -> ContainerType]
  /\ routes \in [Names -> Ports \cup {None}]
  /\ dns \subseteq Hosts
  /\ actors \in [Actors -> ActorType]
  /\ view \in [Names -> {None} \cup 0..LastPort]
  /\ orphans \subseteq Hosts /\ heals \subseteq Hosts
  /\ trouble \in 0..MaxTrouble

-----------------------------------------------------------------------------
(* Reads                                                                   *)

\* docker ps -a and docker ps, by hostname label.
Of(docker, h) == {k \in Containers : docker[k].host = h}
RunningOf(docker, h) == {k \in Of(docker, h) : docker[k].state = "running"}

Occupied ==
  {containers[k].port : k \in {c \in Containers :
                                 containers[c].state = "running"}}

\* The first port not in use, the start of the range when all are.
FreeHostPort(used) ==
  IF Ports \subseteq used THEN {1}
  ELSE {p \in Ports \ used : \A q \in Ports \ used : p <= q}

-----------------------------------------------------------------------------
(* Remote steps                                                            *)

Answers ==
  {[done |-> TRUE, ok |-> TRUE]} \cup
  (IF trouble < MaxTrouble THEN [done : BOOLEAN, ok : {FALSE}] ELSE {})

Counted(r) == trouble' = IF r.ok THEN trouble ELSE trouble + 1

Go(a, s) == actors' = [actors EXCEPT ![a] = s]

\* A request ends; the job goes to its next piece of work.
EndOf(a) ==
  IF a = Job THEN [Resting("next") EXCEPT !.alone = actors[a].alone]
  ELSE Resting("ended")

At(a, label) == [actors[a] EXCEPT !.at = label]

Begin(a, s) ==
  actors' = [b \in Actors |->
               IF b = a THEN [s EXCEPT !.alone = \A c \in Actors : ~Active(c)]
               ELSE IF Active(b) THEN [actors[b] EXCEPT !.alone = FALSE]
               ELSE actors[b]]

Remove(k) == [containers EXCEPT ![k] = NoContainer]

-----------------------------------------------------------------------------
(* Editing the list of routes: read all, write all                         *)

Adds(a) == actors[a].op \in {"deploy", "heal"}

Edited(a) ==
  [actors[a].seen EXCEPT
     ![actors[a].host] = IF Adds(a) THEN actors[a].port ELSE None]

\* What follows the edit: DNS; after a failed one the compensation of a
\* deploy, the end of an undeploy or of a rollback, the job's next item.
AfterEdit(a, ok) ==
  CASE ok /\ actors[a].op # "rollback" -> At(a, "dns")
    [] ~ok /\ actors[a].op = "deploy" -> At(a, "undo")
    [] OTHER -> EndOf(a)

GetRoutes(a) ==
  /\ actors[a].at = "get"
  /\ \E r \in Answers :
       /\ Counted(r)
       /\ Go(a, IF r.ok THEN [At(a, "put") EXCEPT !.seen = routes]
                   ELSE AfterEdit(a, FALSE))
  /\ UNCHANGED <<remote, job>>

PutRoutes(a) ==
  /\ actors[a].at = "put"
  /\ \E r \in Answers :
       /\ Counted(r)
       /\ routes' = IF r.done THEN Edited(a) ELSE routes
       /\ Go(a, [AfterEdit(a, r.ok) EXCEPT
                      !.seen = [h \in Names |-> None]])
  /\ UNCHANGED <<containers, dns, job>>

\* A deploy fails without its CNAME, everybody else carries on.
EditDns(a) ==
  /\ actors[a].at = "dns"
  /\ \E r \in Answers :
       /\ Counted(r)
       /\ dns' = IF ~r.done THEN dns
                 ELSE IF Adds(a) THEN dns \cup {actors[a].host}
                 ELSE dns \ {actors[a].host}
       /\ Go(a, CASE actors[a].op = "undeploy" -> At(a, "find")
                     [] actors[a].op = "deploy" /\ ~r.ok -> At(a, "undoAll")
                     [] OTHER -> EndOf(a))
  /\ UNCHANGED <<containers, routes, job>>

-----------------------------------------------------------------------------
(* Deploy                                                                  *)

\* LockoutGuard, zone, tunnel, readiness and pull come first; a deploy that
\* fails at one of them has changed nothing and is no step.
StartDeploy(c, h) ==
  /\ actors[c].at = "ready" /\ h \notin Protected
  /\ Begin(c, [Resting("list") EXCEPT !.op = "deploy", !.host = h])
  /\ UNCHANGED <<remote, job, trouble>>

\* mutant: the read hides stopped containers
ExistingRunning(h) == RunningOf(containers, h)

\* A redeploy replaces every container of its hostname, stopped ones too.
Existing(h) == Of(containers, h)

\* When the list of all containers cannot be read, nothing is replaced.
ListOld(c) ==
  /\ actors[c].at = "list"
  /\ \E r \in Answers :
       /\ Counted(r)
       /\ Go(c, [At(c, "replace") EXCEPT
                   !.old = IF r.ok THEN Existing(actors[c].host) ELSE {}])
  /\ UNCHANGED <<remote, job>>

\* Best effort: the next one is tried whatever came of this one.
RemoveOld(c) ==
  /\ actors[c].at = "replace"
  /\ \E k \in actors[c].old, r \in Answers :
       /\ Counted(r)
       /\ containers' = IF r.done THEN Remove(k) ELSE containers
       /\ Go(c, [actors[c] EXCEPT !.old = @ \ {k}])
  /\ UNCHANGED <<routes, dns, job>>

\* Only running containers count; none when they cannot be listed.
SelectPort(c) ==
  /\ actors[c].at = "replace" /\ actors[c].old = {}
  /\ \E r \in Answers : \E p \in FreeHostPort(IF r.ok THEN Occupied ELSE {}) :
       /\ Counted(r)
       /\ Go(c, [At(c, "run") EXCEPT !.port = p])
  /\ UNCHANGED <<remote, job>>

RunContainer(c) ==
  /\ actors[c].at = "run" /\ actors[c].port \notin Occupied
  /\ \E r \in Answers :
       /\ Counted(r)
       /\ containers' =
            IF r.done
            THEN [containers EXCEPT
                    ![c] = [host |-> actors[c].host, port |-> actors[c].port,
                            state |-> "running"]]
            ELSE containers
       /\ Go(c, IF r.ok THEN At(c, "get") ELSE Resting("ended"))
  /\ UNCHANGED <<routes, dns, job>>

\* Docker creates the container before it finds that its port is taken; run
\* then fails, and the created container stays or has never come to be.
PortTaken(c) ==
  /\ actors[c].at = "run" /\ actors[c].port \in Occupied
  /\ containers' \in
       {containers,
        [containers EXCEPT
           ![c] = [host |-> actors[c].host, port |-> actors[c].port,
                   state |-> "stopped"]]}
  /\ actors' = [actors EXCEPT ![c] = Resting("ended")]
  /\ UNCHANGED <<routes, dns, job, trouble>>

\* Compensation, best effort: the container; after a DNS failure the route too.
RollbackContainer(c) ==
  /\ actors[c].at \in {"undo", "undoAll"}
  /\ \E r \in Answers :
       /\ Counted(r)
       /\ containers' = IF r.done THEN Remove(c) ELSE containers
       /\ Go(c, IF actors[c].at = "undo" THEN Resting("ended")
                   ELSE [At(c, "get") EXCEPT !.op = "rollback"])
  /\ UNCHANGED <<routes, dns, job>>

-----------------------------------------------------------------------------
(* Undeploy: route, DNS, then the first running container of the hostname  *)

StartUndeploy(c, h) ==
  /\ actors[c].at = "ready" /\ h \notin Protected
  /\ Begin(c, [Resting("get") EXCEPT !.op = "undeploy", !.host = h])
  /\ UNCHANGED <<remote, job, trouble>>

FindRunning(c) ==
  /\ actors[c].at = "find"
  /\ LET found == RunningOf(containers, actors[c].host)
     IN \E r \in Answers :
          /\ Counted(r)
          /\ IF ~r.ok THEN Go(c, Resting("ended"))
             ELSE IF found = {} THEN Go(c, Resting("ended"))
             ELSE \E k \in found :
                    Go(c, [At(c, "rm") EXCEPT !.old = {k}])
  /\ UNCHANGED <<remote, job>>

RemoveFound(c) ==
  /\ actors[c].at = "rm"
  /\ \E k \in actors[c].old, r \in Answers :
       /\ Counted(r)
       /\ containers' = IF r.done THEN Remove(k) ELSE containers
       /\ Go(c, Resting("ended"))
  /\ UNCHANGED <<routes, dns, job>>

-----------------------------------------------------------------------------
(* Reconciliation                                                          *)

\* Cron or button; a second run while one is going is skipped.
StartJob ==
  /\ actors[Job].at = "off"
  /\ Begin(Job, Resting("ps"))
  /\ UNCHANGED <<remote, job, trouble>>

EndJob ==
  /\ view' = [h \in Names |-> None]
  /\ orphans' = {} /\ heals' = {}

\* mutants: the read hides stopped containers; a stopped one makes its hostname
\* ambiguous.
LookedRunning(h) ==
  IF RunningOf(containers, h) = {} THEN None
  ELSE IF Cardinality(RunningOf(containers, h)) # 1 THEN 0
  ELSE containers[CHOOSE k \in RunningOf(containers, h) : TRUE].port

LookedTotal(h) ==
  IF Of(containers, h) = {} THEN None
  ELSE IF Cardinality(Of(containers, h)) # 1 THEN 0
  ELSE containers[CHOOSE k \in Of(containers, h) : TRUE].port

\* Per hostname: no container, containers but not exactly one running (0), or
\* the port of the one that runs.
Looked(h) ==
  IF Of(containers, h) = {} THEN None
  ELSE IF Cardinality(RunningOf(containers, h)) # 1 THEN 0
  ELSE containers[CHOOSE k \in RunningOf(containers, h) : TRUE].port

ReadContainers ==
  /\ actors[Job].at = "ps"
  /\ \E r \in Answers :
       /\ Counted(r)
       /\ IF r.ok
          THEN /\ view' = [h \in Names |-> Looked(h)]
               /\ Go(Job, At(Job, "list"))
               /\ UNCHANGED <<orphans, heals>>
          ELSE EndJob /\ Go(Job, Resting("off"))
  /\ UNCHANGED <<remote>>

\* Running or stopped, a container keeps its route.
Orphans == {h \in Names \ Protected : routes[h] # None /\ view[h] = None}

\* One running container and no route; two are ambiguous, a stopped one is
\* left as it is.
Unrouted == {h \in Names \ Protected : routes[h] = None /\ view[h] \in Ports}

ReadRoutes ==
  /\ actors[Job].at = "list"
  /\ \E r \in Answers :
       /\ Counted(r)
       /\ IF r.ok
          THEN /\ orphans' = Orphans /\ heals' = Unrouted
               /\ Go(Job, At(Job, "next"))
               /\ view' = [h \in Names |->
                             IF h \in Unrouted THEN view[h] ELSE None]
          ELSE EndJob /\ Go(Job, Resting("off"))
  /\ UNCHANGED <<remote>>

RemoveOrphanedRoute ==
  /\ actors[Job].at = "next"
  /\ \E h \in orphans :
       /\ orphans' = orphans \ {h}
       /\ actors' = [actors EXCEPT
            ![Job] = [At(Job, "get") EXCEPT !.op = "orphan", !.host = h]]
  /\ UNCHANGED <<remote, view, heals, trouble>>

\* addRouteOnly with the port the container had when the job looked.
HealMissingRoute ==
  /\ actors[Job].at = "next" /\ orphans = {}
  /\ \E h \in heals :
       /\ heals' = heals \ {h}
       /\ view' = [view EXCEPT ![h] = None]
       /\ actors' = [actors EXCEPT
            ![Job] = [At(Job, "get") EXCEPT !.op = "heal", !.host = h,
                                            !.port = view[h]]]
  /\ UNCHANGED <<remote, orphans, trouble>>

Reported ==
  /\ actors[Job].at = "next" /\ orphans = {} /\ heals = {}
  /\ actors' = [actors EXCEPT ![Job] = Resting("off")]
  /\ EndJob
  /\ UNCHANGED <<remote, trouble>>

-----------------------------------------------------------------------------
(* People and crashes                                                      *)

Handled(k, state) ==
  /\ trouble < MaxTrouble
  /\ trouble' = trouble + 1
  /\ containers' = [containers EXCEPT ![k].state = state]
  /\ UNCHANGED <<routes, dns, actors, job>>

StopContainer(k) == containers[k].state = "running" /\ Handled(k, "stopped")

\* Docker refuses to start it when its port is taken.
StartContainer(k) ==
  /\ containers[k].state = "stopped" /\ containers[k].port \notin Occupied
  /\ Handled(k, "running")

\* The server restarts: nobody finishes or compensates what was under way.
Crash ==
  /\ trouble < MaxTrouble /\ \E a \in Actors : Active(a)
  /\ trouble' = trouble + 1
  /\ actors' = [a \in Actors |-> IF a = Job THEN Resting("off")
                                 ELSE IF Active(a) THEN Resting("ended")
                                 ELSE actors[a]]
  /\ EndJob
  /\ UNCHANGED <<remote>>

-----------------------------------------------------------------------------
Init ==
  /\ containers \in [Containers -> ContainerType]
  /\ \A k \in Calls : containers[k] = NoContainer
  /\ \A k \in Before :
       containers[k] \in {NoContainer} \cup
         [host : {Deployed[k]}, port : {1}, state : {"running", "stopped"}]
  /\ dns = {h \in Hosts : Of(containers, h) # {}}
  /\ routes = [h \in Names |->
       IF h \in Protected THEN 1
       ELSE IF Of(containers, h) = {} THEN None
       ELSE containers[CHOOSE k \in Of(containers, h) : TRUE].port]
  /\ actors = [a \in Actors |-> Resting(IF a = Job THEN "off" ELSE "ready")]
  /\ view = [h \in Names |-> None]
  /\ orphans = {} /\ heals = {}
  /\ trouble = 0

CallStep(c) ==
  \/ ListOld(c) \/ RemoveOld(c)
  \/ SelectPort(c) \/ RunContainer(c) \/ PortTaken(c) \/ RollbackContainer(c)
  \/ FindRunning(c) \/ RemoveFound(c)
  \/ GetRoutes(c) \/ PutRoutes(c) \/ EditDns(c)

JobStep ==
  \/ StartJob \/ ReadContainers \/ ReadRoutes
  \/ RemoveOrphanedRoute \/ HealMissingRoute \/ Reported
  \/ GetRoutes(Job) \/ PutRoutes(Job) \/ EditDns(Job)

Next ==
  \/ \E c \in Calls, h \in Names : StartDeploy(c, h) \/ StartUndeploy(c, h)
  \/ \E c \in Calls : CallStep(c)
  \/ JobStep
  \/ \E k \in Containers : StopContainer(k) \/ StartContainer(k)
  \/ Crash

Spec == Init /\ [][Next]_vars

FairSpec ==
  Spec /\ WF_vars(JobStep) /\ \A c \in Calls : WF_vars(CallStep(c))

-----------------------------------------------------------------------------
(* Properties                                                              *)

\* The lockout guard protects the way to dev-gui itself: although every edit
\* writes the whole list of routes, and from a list read earlier, a protected
\* route is never touched.
ProtectedKept == \A h \in Protected : routes[h] = 1

\* A deploy that succeeds, with nobody else at work and no step having
\* failed, has replaced every container of its hostname, running or stopped:
\* its own is the only one, and route and CNAME lead to it.
Succeeds(c) ==
  /\ actors[c].op = "deploy" /\ actors[c].at = "dns"
  /\ actors'[c].at = "ended"

OkMeansServed ==
  [][\A c \in Calls :
       Succeeds(c) /\ actors[c].alone /\ trouble' = 0
       => LET h == actors[c].host
          IN /\ Of(containers', h) = {c}
             /\ containers'[c].state = "running"
             /\ routes'[h] = containers'[c].port
             /\ h \in dns']_vars

\* A stop is no undeploy: a run of the job with nobody else at work removes
\* only routes of hostnames without any container, whatever fails.
StopKeepsRoute ==
  [][\A h \in Hosts :
       routes[h] # None /\ routes'[h] = None
         /\ actors[Job].at = "put" /\ actors'[Job].at # "put"
         /\ actors[Job].alone
       => Of(containers, h) = {}]_vars

\* Whatever failed, crashed, raced or was stopped: once no request is under
\* way and nothing fails any more, the nightly runs leave no route without a
\* container and no single running container without a route.
Matched(h) ==
  /\ routes[h] # None => Of(containers, h) # {}
  /\ Cardinality(RunningOf(containers, h)) = 1 => routes[h] # None

DriftIsHealed == <>[](\A h \in Hosts : Matched(h))
===============================================================================
