--------------------------- MODULE DeploymentsProofs ---------------------------
(***************************************************************************)
(* The theorems about Deployments, for any hostnames, ports, requests and  *)
(* troubles: its types, that the protected routes stay as they are, that a *)
(* run of the job on its own removes no route of a container, and that a   *)
(* deploy on its own that succeeds is served.                              *)
(***************************************************************************)
EXTENDS Deployments, TLAPS, FiniteSetTheorems

JobPlaces == {"off", "ps", "list", "next", "get", "put", "dns"}

\* What holds of an actor at any time: only hostnames that are not protected
\* are worked on, and the list it has read has the protected routes.
Good(a, s) ==
  /\ s \in ActorType
  /\ a \in Calls /\ s.at \notin Waits => s.host \in Hosts
  /\ s.at \in {"get", "put", "dns"} => s.host \in Hosts
  /\ s.at = "put" => \A h \in Protected : s.seen[h] = 1
  /\ a = Job => s.at \in JobPlaces
  /\ a = Job /\ s.at \in {"get", "put", "dns"} => s.op \in {"orphan", "heal"}

HealsKnown == \A h \in heals : view[h] \in Ports

Early == {"off", "ps", "list"}
Onward(a, s) == a = Job => s.at \notin Early

\* Before the job has compared, it has nothing to heal and nothing to remove.
NothingYet == actors[Job].at \in Early => heals = {} /\ orphans = {}

IInv ==
  /\ TypeOK
  /\ \A a \in Actors : Good(a, actors[a])
  /\ ProtectedKept
  /\ HealsKnown
  /\ NothingYet

LEMMA PortFacts == 1 \in Ports /\ None \notin Ports /\ None \notin Names /\ Ports \subseteq Nat
BY DeployAssumption DEF Ports, Names

LEMMA NotProtected == Names \ Protected = Hosts
BY DeployAssumption DEF Names

\* One actor moves, to a good state: all actors are good.
LEMMA Moves ==
  ASSUME IInv, NEW a \in Actors, NEW s, Good(a, s), Go(a, s)
  PROVE  /\ actors' \in [Actors -> ActorType]
         /\ \A b \in Actors : Good(b, actors'[b])
BY DEF IInv, TypeOK, Go, Good

LEMMA RestingTyped ==
  ASSUME NEW at \in Waits \cup {"list", "get", "ps", "next"}
  PROVE  Resting(at) \in ActorType
BY PortFacts DEF Resting, ActorType

LEMMA RestingGood ==
  /\ \A c \in Calls : Good(c, Resting("ended")) /\ Good(c, Resting("ready"))
  /\ Good(Job, Resting("off")) /\ Good(Job, Resting("ps")) /\ Good(Job, Resting("next"))
<1>1. /\ Resting("ended") \in ActorType /\ Resting("ready") \in ActorType
      /\ Resting("off") \in ActorType /\ Resting("ps") \in ActorType
      /\ Resting("next") \in ActorType
  BY RestingTyped DEF Waits
<1> QED
  BY <1>1, DeployAssumption DEF Good, Resting, Waits, JobPlaces

LEMMA EndGood ==
  ASSUME IInv, NEW a \in Actors
  PROVE  Good(a, EndOf(a)) /\ Onward(a, EndOf(a))
<1>1. CASE a = Job
  <2>1. actors[a].alone \in BOOLEAN
    BY DEF IInv, TypeOK, ActorType
  <2>2. EndOf(a) = [Resting("next") EXCEPT !.alone = actors[a].alone]
    BY <1>1 DEF EndOf
  <2> QED
    BY <1>1, <2>1, <2>2, RestingTyped, DeployAssumption
    DEF Good, Onward, Early, ActorType, Resting, JobPlaces, Waits
<1>2. CASE a # Job
  BY <1>2, RestingGood DEF EndOf, Onward, Actors
<1> QED
  BY <1>1, <1>2

\* An actor at work goes on to another place of its work.
LEMMA AtGood ==
  ASSUME IInv, NEW a \in Actors, Active(a),
         NEW l \in {"list", "replace", "run", "get", "dns", "undo", "undoAll",
                    "find", "rm", "next"},
         a = Job => l \in {"list", "next"} \/ (l = "dns" /\ actors[a].at = "put"),
         a # Job \/ l # "get"
  PROVE  Good(a, At(a, l))
<1>1. Good(a, actors[a])
  BY DEF IInv
<1>2. At(a, l) \in ActorType
  BY <1>1 DEF Good, At, ActorType
<1>3. At(a, l).at = l /\ At(a, l).host = actors[a].host /\ At(a, l).op = actors[a].op
  BY <1>1 DEF Good, At, ActorType
<1> QED
  BY <1>1, <1>2, <1>3 DEF Good, Active, Actors, JobPlaces

LEMMA AfterEditGood ==
  ASSUME IInv, NEW a \in Actors, actors[a].at \in {"get", "put"}, NEW ok \in BOOLEAN,
         actors[a].at = "put" \/ ~ok
  PROVE  Good(a, AfterEdit(a, ok)) /\ Onward(a, AfterEdit(a, ok))
<1>1. Active(a)
  BY DEF Active, Waits
<1>2. Good(a, actors[a])
  BY DEF IInv
<1>3. CASE ok /\ actors[a].op # "rollback"
  <2>1. AfterEdit(a, ok) = At(a, "dns")
    BY <1>3 DEF AfterEdit
  <2>2. At(a, "dns").at = "dns"
    BY <1>2 DEF At, Good, ActorType
  <2> QED
    BY <1>1, <1>3, <2>1, <2>2, AtGood DEF Onward, Early
<1>4. CASE ~ok /\ actors[a].op = "deploy"
  <2>1. AfterEdit(a, ok) = At(a, "undo") /\ a # Job
    BY <1>2, <1>4 DEF AfterEdit, Good
  <2> QED
    BY <1>1, <2>1, AtGood DEF Onward
<1>5. CASE ~(ok /\ actors[a].op # "rollback") /\ ~(~ok /\ actors[a].op = "deploy")
  <2>1. AfterEdit(a, ok) = EndOf(a)
    BY <1>5 DEF AfterEdit
  <2> QED
    BY <2>1, EndGood
<1> QED
  BY <1>3, <1>4, <1>5

LEMMA AnswersTyped ==
  ASSUME NEW r \in Answers
  PROVE  /\ r.done \in BOOLEAN /\ r.ok \in BOOLEAN
         /\ ~r.ok => trouble < MaxTrouble
<1>1. CASE r = [done |-> TRUE, ok |-> TRUE]
  BY <1>1
<1>2. CASE trouble < MaxTrouble /\ r \in [done : BOOLEAN, ok : {FALSE}]
  <2>1. r.done \in BOOLEAN /\ r.ok \in {FALSE}
    BY <1>2
  <2> QED
    BY <1>2, <2>1
<1>3. r = [done |-> TRUE, ok |-> TRUE]
        \/ (trouble < MaxTrouble /\ r \in [done : BOOLEAN, ok : {FALSE}])
  BY Zenon DEF Answers
<1> QED
  BY <1>1, <1>2, <1>3

\* Troubles are counted within their bound.
LEMMA CountedTyped ==
  ASSUME IInv, NEW r \in Answers, Counted(r)
  PROVE  trouble' \in 0..MaxTrouble
<1>1. trouble \in 0..MaxTrouble /\ MaxTrouble \in Nat
  BY DeployAssumption DEF IInv, TypeOK
<1>2. CASE r.ok
  BY <1>1, <1>2 DEF Counted
<1>3. CASE ~r.ok
  BY <1>1, <1>3, AnswersTyped DEF Counted
<1> QED
  BY <1>2, <1>3

Routes == [Names -> Ports \cup {None}]

\* What a step of one actor has to show, when the job's lists stay.
LEMMA StepKeeps ==
  ASSUME IInv, NEW a \in Actors, NEW s, Good(a, s), Onward(a, s), Go(a, s),
         containers' \in [Containers -> ContainerType],
         routes' \in Routes, \A h \in Protected : routes'[h] = 1,
         dns' \subseteq Hosts, trouble' \in 0..MaxTrouble, UNCHANGED job
  PROVE  IInv'
<1>1. NothingYet'
  BY DEF IInv, TypeOK, NothingYet, Onward, Go, job
<1> QED
  BY <1>1, Moves DEF IInv, TypeOK, Routes, ProtectedKept, HealsKnown, job, Good

LEMMA GetRoutesKeeps ==
  ASSUME IInv, NEW a \in Actors, GetRoutes(a)
  PROVE  IInv'
<1>1. PICK r \in Answers :
        /\ Counted(r)
        /\ Go(a, IF r.ok THEN [At(a, "put") EXCEPT !.seen = routes]
                 ELSE AfterEdit(a, FALSE))
  BY DEF GetRoutes
<1>2. Good(a, actors[a]) /\ actors[a].at = "get" /\ actors[a] \in ActorType
  BY DEF IInv, GetRoutes, Good
<1>3. /\ Good(a, [At(a, "put") EXCEPT !.seen = routes])
      /\ Onward(a, [At(a, "put") EXCEPT !.seen = routes])
  <2> DEFINE s == [At(a, "put") EXCEPT !.seen = routes]
  <2>1. /\ s \in ActorType
        /\ s.at = "put" /\ s.seen = routes
        /\ s.host = actors[a].host /\ s.op = actors[a].op
    BY <1>2 DEF IInv, TypeOK, At, ActorType
  <2>2. ProtectedKept
    BY DEF IInv
  <2> HIDE DEF s
  <2>3. Good(a, s) /\ Onward(a, s)
    BY <1>2, <2>1, <2>2 DEF ProtectedKept, Good, JobPlaces, Onward, Early
  <2> QED
    BY <2>3 DEF s
<1>4. Good(a, AfterEdit(a, FALSE)) /\ Onward(a, AfterEdit(a, FALSE))
  BY <1>2, AfterEditGood
<1> QED
  BY <1>1, <1>3, <1>4, StepKeeps, CountedTyped
  DEF GetRoutes, remote, IInv, TypeOK, Routes, ProtectedKept

LEMMA EditedTyped ==
  ASSUME IInv, NEW a \in Actors, actors[a].at = "put"
  PROVE  Edited(a) \in Routes /\ \A h \in Protected : Edited(a)[h] = 1
<1>1. Good(a, actors[a]) /\ actors[a] \in ActorType
  BY DEF IInv, Good
<1>2. /\ actors[a].seen \in Routes /\ actors[a].port \in Ports
      /\ actors[a].host \in Hosts /\ \A h \in Protected : actors[a].seen[h] = 1
  BY <1>1 DEF Good, ActorType, Routes
<1> QED
  BY <1>2, DeployAssumption DEF Edited, Routes, Names

LEMMA PutRoutesKeeps ==
  ASSUME IInv, NEW a \in Actors, PutRoutes(a)
  PROVE  IInv'
<1> DEFINE s(ok) == [AfterEdit(a, ok) EXCEPT !.seen = [h \in Names |-> None]]
<1>1. PICK r \in Answers :
        /\ Counted(r) /\ Go(a, s(r.ok))
        /\ routes' = IF r.done THEN Edited(a) ELSE routes
  BY DEF PutRoutes
<1>2. actors[a].at = "put" /\ r.ok \in BOOLEAN
  BY AnswersTyped DEF PutRoutes
<1>3. /\ Good(a, AfterEdit(a, r.ok)) /\ Onward(a, AfterEdit(a, r.ok))
      /\ AfterEdit(a, r.ok).at # "put"
  <2>1. AfterEdit(a, r.ok).at # "put"
    <3>1. actors[a] \in ActorType
      BY DEF IInv, TypeOK
    <3>2. EndOf(a).at # "put"
      BY DEF EndOf, Resting
    <3>3. At(a, "dns").at # "put" /\ At(a, "undo").at # "put"
      BY <3>1 DEF At, ActorType
    <3> QED
      BY <3>2, <3>3 DEF AfterEdit
  <2> QED
    BY <1>2, <2>1, AfterEditGood
<1>4. Good(a, s(r.ok)) /\ Onward(a, s(r.ok))
  BY <1>3 DEF Good, Onward, ActorType
<1>5. routes' \in Routes /\ \A h \in Protected : routes'[h] = 1
  BY <1>1, <1>2, EditedTyped DEF IInv, TypeOK, ProtectedKept, Routes
<1> HIDE DEF s
<1> QED
  BY <1>1, <1>4, <1>5, StepKeeps, CountedTyped DEF PutRoutes, IInv, TypeOK

LEMMA EditDnsKeeps ==
  ASSUME IInv, NEW a \in Actors, EditDns(a)
  PROVE  IInv'
<1> DEFINE s(ok) == CASE actors[a].op = "undeploy" -> At(a, "find")
                      [] actors[a].op = "deploy" /\ ~ok -> At(a, "undoAll")
                      [] OTHER -> EndOf(a)
<1>1. PICK r \in Answers :
        /\ Counted(r) /\ Go(a, s(r.ok))
        /\ dns' = IF ~r.done THEN dns
                  ELSE IF Adds(a) THEN dns \cup {actors[a].host}
                  ELSE dns \ {actors[a].host}
  BY DEF EditDns
<1>2. Good(a, actors[a]) /\ actors[a].at = "dns" /\ Active(a)
  BY DEF IInv, EditDns, Active, Waits
<1>3. Good(a, s(r.ok)) /\ Onward(a, s(r.ok))
  <2>1. CASE actors[a].op = "undeploy"
    <3>1. a # Job
      BY <1>2, <2>1 DEF Good
    <3> QED
      BY <1>2, <2>1, <3>1, AtGood DEF Onward
  <2>2. CASE actors[a].op = "deploy" /\ ~r.ok
    <3>1. a # Job
      BY <1>2, <2>2 DEF Good
    <3> QED
      BY <1>2, <2>2, <3>1, AtGood DEF Onward
  <2>3. CASE actors[a].op # "undeploy" /\ ~(actors[a].op = "deploy" /\ ~r.ok)
    BY <2>3, EndGood
  <2> QED
    BY <2>1, <2>2, <2>3
<1>4. dns' \subseteq Hosts
  BY <1>1, <1>2 DEF Good, IInv, TypeOK
<1> HIDE DEF s
<1> QED
  BY <1>1, <1>3, <1>4, StepKeeps, CountedTyped
  DEF EditDns, IInv, TypeOK, ProtectedKept, Routes

Containered == [Containers -> ContainerType]

LEMMA RemoveTyped ==
  ASSUME IInv, NEW k \in Containers
  PROVE  Remove(k) \in Containered
<1>1. NoContainer \in ContainerType
  BY PortFacts DEF NoContainer, ContainerType
<1> QED
  BY <1>1 DEF IInv, TypeOK, Remove, Containered

\* A container that a request has created.
LEMMA CreatedTyped ==
  ASSUME IInv, NEW c \in Calls, Active(c), NEW state \in {"running", "stopped"}
  PROVE  [containers EXCEPT
            ![c] = [host |-> actors[c].host, port |-> actors[c].port,
                    state |-> state]] \in Containered
<1>1. Good(c, actors[c]) /\ actors[c] \in ActorType
  BY DEF IInv, Good, Actors
<1>2. [host |-> actors[c].host, port |-> actors[c].port, state |-> state]
        \in ContainerType
  BY <1>1 DEF Good, ActorType, Active, ContainerType
<1> QED
  BY <1>2 DEF IInv, TypeOK, Containered

\* A request that begins, or the job, and everybody else no longer alone.
LEMMA BeginKeeps ==
  ASSUME IInv, NEW a \in Actors, NEW s, Begin(a, s),
         \A alone \in BOOLEAN : Good(a, [s EXCEPT !.alone = alone]),
         a = Job => actors[Job].at = "off", UNCHANGED <<remote, job, trouble>>
  PROVE  IInv'
<1>0. a = Job => actors[Job].at = "off"
  OBVIOUS
<1>1. \A b \in Actors : Good(b, [actors[b] EXCEPT !.alone = FALSE])
  <2> TAKE b \in Actors
  <2> DEFINE t == [actors[b] EXCEPT !.alone = FALSE]
  <2>1. Good(b, actors[b]) /\ actors[b] \in ActorType
    BY DEF IInv, Good
  <2>2. /\ t \in ActorType
        /\ t.at = actors[b].at /\ t.host = actors[b].host
        /\ t.op = actors[b].op /\ t.seen = actors[b].seen
    BY <2>1 DEF ActorType
  <2> HIDE DEF t
  <2>3. Good(b, t)
    BY <2>1, <2>2 DEF Good
  <2> QED
    BY <2>3 DEF t
<1>2. \A b \in Actors : Good(b, actors'[b])
  <2> TAKE b \in Actors
  <2>1. CASE b = a
    <3>1. actors'[b] = [s EXCEPT !.alone = \A c \in Actors : ~Active(c)]
      BY <2>1 DEF Begin
    <3>2. (\A c \in Actors : ~Active(c)) \in BOOLEAN
      OBVIOUS
    <3> QED
      BY <2>1, <3>1, <3>2
  <2>2. CASE b # a
    <3>1. actors'[b] = IF Active(b) THEN [actors[b] EXCEPT !.alone = FALSE]
                       ELSE actors[b]
      BY <2>2 DEF Begin
    <3> QED
      BY <1>1, <3>1 DEF IInv
  <2> QED
    BY <2>1, <2>2
<1>3. actors' \in [Actors -> ActorType]
  <2>1. actors' = [b \in Actors |-> actors'[b]]
    BY DEF Begin
  <2> QED
    BY <1>2, <2>1 DEF Good
<1>4. NothingYet'
  <2>1. a = Job => heals = {} /\ orphans = {}
    BY <1>0 DEF IInv, NothingYet, Early
  <2>2. a # Job => actors'[Job].at = actors[Job].at
    BY DEF Begin, Actors, IInv, TypeOK, ActorType
  <2> QED
    BY <2>1, <2>2 DEF IInv, NothingYet, job
<1> QED
  BY <1>2, <1>3, <1>4 DEF IInv, TypeOK, ProtectedKept, HealsKnown, remote, job

LEMMA StartKeeps ==
  ASSUME IInv, NEW c \in Calls, NEW h \in Names, StartDeploy(c, h) \/ StartUndeploy(c, h)
  PROVE  IInv'
<1>1. h \in Hosts /\ c \in Actors /\ c # Job
  BY DeployAssumption DEF StartDeploy, StartUndeploy, Names, Actors
<1>2. Resting("list") \in ActorType /\ Resting("get") \in ActorType
  BY RestingTyped
<1>3. CASE StartDeploy(c, h)
  <2> DEFINE s == [Resting("list") EXCEPT !.op = "deploy", !.host = h]
  <2>1. \A alone \in BOOLEAN : Good(c, [s EXCEPT !.alone = alone])
    BY <1>1, <1>2 DEF Good, ActorType, Resting, Waits, Names
  <2>2. Begin(c, s) /\ UNCHANGED <<remote, job, trouble>>
    BY <1>3 DEF StartDeploy
  <2> HIDE DEF s
  <2> QED
    BY <1>1, <2>1, <2>2, BeginKeeps
<1>4. CASE StartUndeploy(c, h)
  <2> DEFINE s == [Resting("get") EXCEPT !.op = "undeploy", !.host = h]
  <2>1. \A alone \in BOOLEAN : Good(c, [s EXCEPT !.alone = alone])
    BY <1>1, <1>2 DEF Good, ActorType, Resting, Waits, Names
  <2>2. Begin(c, s) /\ UNCHANGED <<remote, job, trouble>>
    BY <1>4 DEF StartUndeploy
  <2> HIDE DEF s
  <2> QED
    BY <1>1, <2>1, <2>2, BeginKeeps
<1> QED
  BY <1>3, <1>4

LEMMA ListOldKeeps ==
  ASSUME IInv, NEW c \in Calls, ListOld(c)
  PROVE  IInv'
<1> DEFINE s(ok) == [At(c, "replace") EXCEPT
                       !.old = IF ok THEN Existing(actors[c].host) ELSE {}]
<1>1. PICK r \in Answers : Counted(r) /\ Go(c, s(r.ok))
  BY DEF ListOld
<1>2. Active(c) /\ c \in Actors /\ c # Job
  BY DeployAssumption DEF ListOld, Active, Waits, Actors
<1>3. Good(c, At(c, "replace")) /\ At(c, "replace").at = "replace"
  BY <1>2, AtGood DEF At, IInv, TypeOK, ActorType
<1>4. Existing(actors[c].host) \in SUBSET Containers
  BY DEF Existing, Of
<1>5. Good(c, s(r.ok))
  BY <1>2, <1>3, <1>4 DEF Good, ActorType
<1> HIDE DEF s
<1> QED
  BY <1>1, <1>2, <1>5, StepKeeps, CountedTyped
  DEF ListOld, Onward, remote, IInv, TypeOK, Routes, ProtectedKept

LEMMA RemoveOldKeeps ==
  ASSUME IInv, NEW c \in Calls, RemoveOld(c)
  PROVE  IInv'
<1> DEFINE s(k) == [actors[c] EXCEPT !.old = @ \ {k}]
<1>1. PICK k \in actors[c].old, r \in Answers :
        /\ Counted(r) /\ Go(c, s(k))
        /\ containers' = IF r.done THEN Remove(k) ELSE containers
  BY DEF RemoveOld
<1>2. c \in Actors /\ c # Job /\ Good(c, actors[c]) /\ actors[c] \in ActorType
  BY DeployAssumption DEF IInv, Good, Actors
<1>3. k \in Containers
  BY <1>1, <1>2 DEF ActorType
<1>4. Good(c, s(k))
  BY <1>2 DEF Good, ActorType
<1>5. containers' \in [Containers -> ContainerType]
  BY <1>1, <1>3, RemoveTyped DEF IInv, TypeOK, Containered
<1> HIDE DEF s
<1> QED
  BY <1>1, <1>2, <1>4, <1>5, StepKeeps, CountedTyped
  DEF RemoveOld, Onward, IInv, TypeOK, Routes, ProtectedKept

LEMMA SelectPortKeeps ==
  ASSUME IInv, NEW c \in Calls, SelectPort(c)
  PROVE  IInv'
<1> DEFINE s(p) == [At(c, "run") EXCEPT !.port = p]
<1>0. PICK r \in Answers : \E p \in FreeHostPort(IF r.ok THEN Occupied ELSE {}) :
        Counted(r) /\ Go(c, s(p))
  BY DEF SelectPort
<1>1. PICK p \in FreeHostPort(IF r.ok THEN Occupied ELSE {}) :
        Counted(r) /\ Go(c, s(p))
  BY <1>0
<1>2. Active(c) /\ c \in Actors /\ c # Job
  BY DeployAssumption DEF SelectPort, Active, Waits, Actors
<1>3. Good(c, At(c, "run")) /\ At(c, "run").at = "run"
  BY <1>2, AtGood DEF At, IInv, TypeOK, ActorType
<1>4. p \in Ports
  BY PortFacts DEF FreeHostPort
<1>5. Good(c, s(p))
  BY <1>2, <1>3, <1>4 DEF Good, ActorType
<1> HIDE DEF s
<1> QED
  BY <1>1, <1>2, <1>5, StepKeeps, CountedTyped
  DEF SelectPort, Onward, remote, IInv, TypeOK, Routes, ProtectedKept

LEMMA RunContainerKeeps ==
  ASSUME IInv, NEW c \in Calls, RunContainer(c) \/ PortTaken(c)
  PROVE  IInv'
<1>1. Active(c) /\ c \in Actors /\ c # Job
  BY DeployAssumption DEF RunContainer, PortTaken, Active, Waits, Actors
<1>2. Good(c, At(c, "get")) /\ Good(c, Resting("ended"))
  BY <1>1, AtGood, RestingGood
<1>3. CASE RunContainer(c)
  <2>1. PICK r \in Answers :
          /\ Counted(r)
          /\ Go(c, IF r.ok THEN At(c, "get") ELSE Resting("ended"))
          /\ containers' =
               IF r.done
               THEN [containers EXCEPT
                       ![c] = [host |-> actors[c].host, port |-> actors[c].port,
                               state |-> "running"]]
               ELSE containers
    BY <1>3 DEF RunContainer
  <2>2. containers' \in [Containers -> ContainerType]
    BY <1>1, <2>1, CreatedTyped DEF IInv, TypeOK, Containered
  <2> QED
    BY <1>1, <1>2, <1>3, <2>1, <2>2, StepKeeps, CountedTyped
    DEF RunContainer, Onward, IInv, TypeOK, Routes, ProtectedKept
<1>4. CASE PortTaken(c)
  <2>1. containers' \in [Containers -> ContainerType]
    BY <1>1, <1>4, CreatedTyped DEF PortTaken, IInv, TypeOK, Containered
  <2>2. Go(c, Resting("ended"))
    BY <1>4 DEF PortTaken, Go
  <2> QED
    BY <1>1, <1>2, <1>4, <2>1, <2>2, StepKeeps
    DEF PortTaken, Onward, IInv, TypeOK, Routes, ProtectedKept
<1> QED
  BY <1>3, <1>4

LEMMA RollbackKeeps ==
  ASSUME IInv, NEW c \in Calls, RollbackContainer(c)
  PROVE  IInv'
<1> DEFINE s == [At(c, "get") EXCEPT !.op = "rollback"]
<1>1. PICK r \in Answers :
        /\ Counted(r)
        /\ Go(c, IF actors[c].at = "undo" THEN Resting("ended") ELSE s)
        /\ containers' = IF r.done THEN Remove(c) ELSE containers
  BY DEF RollbackContainer
<1>2. Active(c) /\ c \in Actors /\ c # Job /\ c \in Containers
  BY DeployAssumption DEF RollbackContainer, Active, Waits, Actors, Containers
<1>3. Good(c, At(c, "get")) /\ At(c, "get").at = "get"
  BY <1>2, AtGood DEF At, IInv, TypeOK, ActorType
<1>4. Good(c, s)
  BY <1>2, <1>3 DEF Good, ActorType
<1>5. containers' \in [Containers -> ContainerType]
  BY <1>1, <1>2, RemoveTyped DEF IInv, TypeOK, Containered
<1> HIDE DEF s
<1> QED
  BY <1>1, <1>2, <1>4, <1>5, RestingGood, StepKeeps, CountedTyped
  DEF RollbackContainer, Onward, IInv, TypeOK, Routes, ProtectedKept

LEMMA FindRunningKeeps ==
  ASSUME IInv, NEW c \in Calls, FindRunning(c)
  PROVE  IInv'
<1> DEFINE found == RunningOf(containers, actors[c].host)
           s(k) == [At(c, "rm") EXCEPT !.old = {k}]
<1>1. PICK r \in Answers :
        /\ Counted(r)
        /\ \/ Go(c, Resting("ended"))
           \/ \E k \in found : Go(c, s(k))
  BY DEF FindRunning
<1>2. Active(c) /\ c \in Actors /\ c # Job
  BY DeployAssumption DEF FindRunning, Active, Waits, Actors
<1>3. Good(c, At(c, "rm")) /\ At(c, "rm").at = "rm"
  BY <1>2, AtGood DEF At, IInv, TypeOK, ActorType
<1>4. ASSUME NEW k \in found PROVE Good(c, s(k))
  <2>1. k \in Containers
    BY <1>4 DEF RunningOf, Of
  <2> QED
    BY <1>2, <1>3, <2>1 DEF Good, ActorType
<1> HIDE DEF s, found
<1> QED
  BY <1>1, <1>2, <1>4, RestingGood, StepKeeps, CountedTyped
  DEF FindRunning, Onward, remote, IInv, TypeOK, Routes, ProtectedKept

LEMMA RemoveFoundKeeps ==
  ASSUME IInv, NEW c \in Calls, RemoveFound(c)
  PROVE  IInv'
<1>1. PICK k \in actors[c].old, r \in Answers :
        /\ Counted(r) /\ Go(c, Resting("ended"))
        /\ containers' = IF r.done THEN Remove(k) ELSE containers
  BY DEF RemoveFound
<1>2. c \in Actors /\ c # Job /\ actors[c] \in ActorType
  BY DeployAssumption DEF IInv, TypeOK, Actors
<1>3. k \in Containers
  BY <1>1, <1>2 DEF ActorType
<1>4. containers' \in [Containers -> ContainerType]
  BY <1>1, <1>3, RemoveTyped DEF IInv, TypeOK, Containered
<1> QED
  BY <1>1, <1>2, <1>4, RestingGood, StepKeeps, CountedTyped
  DEF RemoveFound, Onward, IInv, TypeOK, Routes, ProtectedKept

LEMMA CallStepKeeps ==
  ASSUME IInv, NEW c \in Calls, CallStep(c)
  PROVE  IInv'
<1>1. c \in Actors
  BY DEF Actors
<1> QED
  BY <1>1, ListOldKeeps, RemoveOldKeeps, SelectPortKeeps, RunContainerKeeps,
     RollbackKeeps, FindRunningKeeps, RemoveFoundKeeps, GetRoutesKeeps,
     PutRoutesKeeps, EditDnsKeeps
  DEF CallStep

-----------------------------------------------------------------------------
(* The job, people and crashes                                             *)

\* What a step of the job has to show, when the remote state stays.
LEMMA JobKeeps ==
  ASSUME IInv, NEW s, Good(Job, s), Go(Job, s), UNCHANGED remote,
         trouble' \in 0..MaxTrouble,
         view' \in [Names -> {None} \cup 0..LastPort],
         orphans' \subseteq Hosts, heals' \subseteq Hosts, HealsKnown',
         s.at \in Early => heals' = {} /\ orphans' = {}
  PROVE  IInv'
<1>1. Job \in Actors
  BY DEF Actors
<1>2. NothingYet'
  BY <1>1 DEF IInv, TypeOK, NothingYet, Go
<1> QED
  BY <1>1, <1>2, Moves DEF IInv, TypeOK, ProtectedKept, remote

LEMMA EndJobTyped ==
  ASSUME EndJob
  PROVE  /\ view' \in [Names -> {None} \cup 0..LastPort]
         /\ orphans' \subseteq Hosts /\ heals' \subseteq Hosts /\ HealsKnown'
         /\ heals' = {} /\ orphans' = {}
BY DEF EndJob, HealsKnown

LEMMA StartJobKeeps ==
  ASSUME IInv, StartJob
  PROVE  IInv'
<1>1. Resting("ps") \in ActorType /\ Job \in Actors /\ Job \notin Calls
  BY RestingTyped, DeployAssumption DEF Actors
<1>2. \A alone \in BOOLEAN : Good(Job, [Resting("ps") EXCEPT !.alone = alone])
  BY <1>1 DEF Good, ActorType, Resting, Waits, JobPlaces
<1>3. actors[Job].at = "off" /\ Begin(Job, Resting("ps")) /\ UNCHANGED <<remote, job, trouble>>
  BY DEF StartJob
<1> QED
  BY <1>1, <1>2, <1>3, BeginKeeps

LEMMA LookedTyped ==
  ASSUME IInv, NEW h \in Names
  PROVE  Looked(h) \in {None} \cup 0..LastPort
<1>1. 0 \in 0..LastPort /\ Ports \subseteq 0..LastPort
  BY DeployAssumption DEF Ports
<1>2. CASE RunningOf(containers, h) = {}
  <2>1. Cardinality(RunningOf(containers, h)) = 0
    BY <1>2, FS_EmptySet
  <2> QED
    BY <1>1, <2>1 DEF Looked
<1>3. CASE RunningOf(containers, h) # {}
  <2> DEFINE k == CHOOSE k \in RunningOf(containers, h) : TRUE
  <2>1. k \in RunningOf(containers, h)
    BY <1>3
  <2>2. k \in Containers
    BY <2>1 DEF RunningOf, Of
  <2>3. containers[k].port \in Ports
    BY <2>2 DEF IInv, TypeOK, ContainerType
  <2>4. Looked(h) \in {None, 0, containers[k].port}
    BY Zenon DEF Looked
  <2> HIDE DEF k
  <2> QED
    BY <1>1, <2>3, <2>4
<1> QED
  BY <1>2, <1>3

LEMMA AtJob ==
  ASSUME IInv, Active(Job), NEW l \in {"list", "next"}
  PROVE  Good(Job, At(Job, l)) /\ At(Job, l).at = l /\ Good(Job, Resting("off"))
<1>1. At(Job, l).at = l
  BY DEF At, IInv, TypeOK, ActorType, Actors
<1> QED
  BY <1>1, AtGood, RestingGood DEF Actors

LEMMA ReadContainersKeeps ==
  ASSUME IInv, ReadContainers
  PROVE  IInv'
<1>1. PICK r \in Answers :
        /\ Counted(r)
        /\ IF r.ok
           THEN /\ view' = [h \in Names |-> Looked(h)]
                /\ Go(Job, At(Job, "list"))
                /\ UNCHANGED <<orphans, heals>>
           ELSE EndJob /\ Go(Job, Resting("off"))
  BY DEF ReadContainers
<1>2. Active(Job) /\ UNCHANGED remote
  BY DEF ReadContainers, Active, Waits, remote
<1>3. CASE r.ok
  <2>1. view' \in [Names -> {None} \cup 0..LastPort]
    BY <1>1, <1>3, LookedTyped
  <2>2. heals = {} /\ orphans = {}
    BY DEF IInv, NothingYet, ReadContainers, Early
  <2> QED
    BY <1>1, <1>2, <1>3, <2>1, <2>2, AtJob, JobKeeps, CountedTyped
    DEF IInv, TypeOK, HealsKnown
<1>4. CASE ~r.ok
  BY <1>1, <1>2, <1>4, AtJob, EndJobTyped, JobKeeps, CountedTyped
<1> QED
  BY <1>3, <1>4

LEMMA ReadRoutesKeeps ==
  ASSUME IInv, ReadRoutes
  PROVE  IInv'
<1>1. PICK r \in Answers :
        /\ Counted(r)
        /\ IF r.ok
           THEN /\ orphans' = Orphans /\ heals' = Unrouted
                /\ Go(Job, At(Job, "next"))
                /\ view' = [h \in Names |->
                              IF h \in Unrouted THEN view[h] ELSE None]
           ELSE EndJob /\ Go(Job, Resting("off"))
  BY DEF ReadRoutes
<1>2. Active(Job) /\ UNCHANGED remote
  BY DEF ReadRoutes, Active, Waits
<1>3. CASE r.ok
  <2>1. Orphans \subseteq Hosts /\ Unrouted \subseteq Hosts
    BY NotProtected DEF Orphans, Unrouted
  <2>2. view' \in [Names -> {None} \cup 0..LastPort]
    BY <1>1, <1>3 DEF IInv, TypeOK
  <2>3. HealsKnown'
    BY <1>1, <1>3 DEF HealsKnown, Unrouted
  <2> QED
    BY <1>1, <1>2, <1>3, <2>1, <2>2, <2>3, AtJob, JobKeeps, CountedTyped DEF Early
<1>4. CASE ~r.ok
  BY <1>1, <1>2, <1>4, AtJob, EndJobTyped, JobKeeps, CountedTyped
<1> QED
  BY <1>3, <1>4

LEMMA JobWorksKeeps ==
  ASSUME IInv, RemoveOrphanedRoute \/ HealMissingRoute
  PROVE  IInv'
<1>1. Active(Job) /\ UNCHANGED remote /\ actors[Job].at = "next" /\ trouble' = trouble
  BY DEF RemoveOrphanedRoute, HealMissingRoute, Active, Waits, remote
<1>2. actors[Job] \in ActorType /\ Job \notin Calls
  BY DeployAssumption DEF IInv, TypeOK, Actors
<1>3. ASSUME NEW h \in Hosts, NEW p \in Ports, NEW op \in {"orphan", "heal"}
      PROVE  Good(Job, [At(Job, "get") EXCEPT !.op = op, !.host = h, !.port = p])
  BY <1>2, <1>3 DEF Good, At, ActorType, JobPlaces, Names
<1>4. CASE RemoveOrphanedRoute
  <2> DEFINE s(h) == [At(Job, "get") EXCEPT !.op = "orphan", !.host = h]
  <2>1. PICK h \in orphans : orphans' = orphans \ {h} /\ Go(Job, s(h))
    BY <1>4 DEF RemoveOrphanedRoute, Go
  <2>2. h \in Hosts
    BY DEF IInv, TypeOK
  <2>3. Good(Job, s(h)) /\ s(h).at = "get"
    BY <1>2, <2>2 DEF Good, At, ActorType, JobPlaces, Names
  <2>4. view' = view /\ heals' = heals
    BY <1>4 DEF RemoveOrphanedRoute
  <2> HIDE DEF s
  <2> QED
    BY <1>1, <2>1, <2>3, <2>4, JobKeeps DEF IInv, TypeOK, HealsKnown, Early
<1>5. CASE HealMissingRoute
  <2> DEFINE s(h) == [At(Job, "get") EXCEPT !.op = "heal", !.host = h, !.port = view[h]]
  <2>1. PICK h \in heals :
          /\ heals' = heals \ {h} /\ Go(Job, s(h))
          /\ view' = [view EXCEPT ![h] = None]
    BY <1>5 DEF HealMissingRoute, Go
  <2>2. h \in Hosts /\ view[h] \in Ports
    BY DEF IInv, TypeOK, HealsKnown
  <2>3. Good(Job, s(h)) /\ s(h).at = "get"
    BY <1>2, <1>3, <2>2 DEF At, ActorType
  <2>4. orphans' = orphans
    BY <1>5 DEF HealMissingRoute
  <2>5. HealsKnown' /\ view' \in [Names -> {None} \cup 0..LastPort]
    BY <2>1, <2>2 DEF IInv, TypeOK, HealsKnown, Names
  <2> HIDE DEF s
  <2> QED
    BY <1>1, <2>1, <2>3, <2>4, <2>5, JobKeeps DEF IInv, TypeOK, Early
<1> QED
  BY <1>4, <1>5

LEMMA ReportedKeeps ==
  ASSUME IInv, Reported
  PROVE  IInv'
<1>1. Go(Job, Resting("off")) /\ EndJob /\ UNCHANGED <<remote, trouble>>
  BY DEF Reported, Go
<1> QED
  BY <1>1, RestingGood, EndJobTyped, JobKeeps DEF IInv, TypeOK

LEMMA HandledKeeps ==
  ASSUME IInv, NEW k \in Containers, StopContainer(k) \/ StartContainer(k)
  PROVE  IInv'
<1>1. PICK state \in {"running", "stopped"} : Handled(k, state)
  BY DEF StopContainer, StartContainer
<1>2. containers' \in [Containers -> ContainerType]
  BY <1>1 DEF Handled, IInv, TypeOK, ContainerType
<1>3. trouble' \in 0..MaxTrouble
  BY <1>1, DeployAssumption DEF Handled, IInv, TypeOK
<1> QED
  BY <1>1, <1>2, <1>3 DEF Handled, job, IInv, TypeOK, ProtectedKept, HealsKnown, NothingYet

LEMMA CrashKeeps ==
  ASSUME IInv, Crash
  PROVE  IInv'
<1>1. trouble' \in 0..MaxTrouble
  BY DeployAssumption DEF Crash, IInv, TypeOK
<1>2. \A a \in Actors : Good(a, actors'[a])
  <2> TAKE a \in Actors
  <2>1. actors'[a] = IF a = Job THEN Resting("off")
                     ELSE IF Active(a) THEN Resting("ended") ELSE actors[a]
    BY DEF Crash
  <2>2. a # Job => a \in Calls
    BY DEF Actors
  <2> QED
    BY <2>1, <2>2, RestingGood DEF IInv
<1>3. actors' \in [Actors -> ActorType]
  <2>1. actors' = [a \in Actors |-> actors'[a]]
    BY DEF Crash
  <2> QED
    BY <1>2, <2>1 DEF Good
<1>4. EndJob /\ UNCHANGED remote
  BY DEF Crash
<1> QED
  BY <1>1, <1>2, <1>3, <1>4, EndJobTyped
  DEF remote, IInv, TypeOK, ProtectedKept, NothingYet

-----------------------------------------------------------------------------
(* The theorems                                                            *)

LEMMA InitHolds == Init => IInv
<1> SUFFICES ASSUME Init PROVE IInv
  OBVIOUS
<1>1. NoContainer \in ContainerType
  BY PortFacts DEF NoContainer, ContainerType
<1>2. routes \in Routes /\ ProtectedKept
  <2>1. \A h \in Names \ Protected :
          Of(containers, h) # {} =>
            containers[CHOOSE k \in Of(containers, h) : TRUE].port \in Ports
    <3> TAKE h \in Names \ Protected
    <3> HAVE Of(containers, h) # {}
    <3> DEFINE k == CHOOSE k \in Of(containers, h) : TRUE
    <3>1. k \in Of(containers, h)
      OBVIOUS
    <3>2. k \in Containers
      BY <3>1 DEF Of
    <3> HIDE DEF k
    <3>3. containers[k].port \in Ports
      BY <3>2 DEF Init, ContainerType
    <3> QED
      BY <3>3 DEF k
  <2> DEFINE p(h) == IF h \in Protected THEN 1
                     ELSE IF Of(containers, h) = {} THEN None
                     ELSE containers[CHOOSE k \in Of(containers, h) : TRUE].port
  <2>2. routes = [h \in Names |-> p(h)]
    BY DEF Init
  <2>3. \A h \in Names : p(h) \in Ports \cup {None}
    BY <2>1, PortFacts
  <2>4. \A h \in Protected : p(h) = 1 /\ h \in Names
    BY DEF Names
  <2> HIDE DEF p
  <2> QED
    BY <2>2, <2>3, <2>4 DEF Routes, ProtectedKept
<1>3. \A a \in Actors : Good(a, actors[a])
  BY RestingGood DEF Init, Actors
<1>4. actors \in [Actors -> ActorType]
  BY <1>3 DEF Init, Good
<1> QED
  BY <1>2, <1>3, <1>4, DeployAssumption
  DEF Init, IInv, TypeOK, Routes, HealsKnown, NothingYet

LEMMA NextKeeps == IInv /\ [Next]_vars => IInv'
<1> SUFFICES ASSUME IInv, [Next]_vars PROVE IInv'
  OBVIOUS
<1>1. ASSUME NEW c \in Calls, NEW h \in Names, StartDeploy(c, h) \/ StartUndeploy(c, h)
      PROVE  IInv'
  BY <1>1, StartKeeps
<1>2. ASSUME NEW c \in Calls, CallStep(c)
      PROVE  IInv'
  BY <1>2, CallStepKeeps
<1>3. CASE JobStep
  <2>1. Job \in Actors
    BY DEF Actors
  <2> QED
    BY <1>3, <2>1, StartJobKeeps, ReadContainersKeeps, ReadRoutesKeeps, JobWorksKeeps,
       ReportedKeeps, GetRoutesKeeps, PutRoutesKeeps, EditDnsKeeps
    DEF JobStep
<1>4. ASSUME NEW k \in Containers, StopContainer(k) \/ StartContainer(k)
      PROVE  IInv'
  BY <1>4, HandledKeeps
<1>5. CASE Crash
  BY <1>5, CrashKeeps
<1>6. CASE UNCHANGED vars
  BY <1>6 DEF vars, remote, job, IInv, TypeOK, Good, ProtectedKept, HealsKnown, NothingYet
<1> QED
  BY <1>1, <1>2, <1>3, <1>4, <1>5, <1>6 DEF Next

\* The strengthening that the theorems rest on holds in every state.
THEOREM InvariantHolds == Spec => []IInv
BY InitHolds, NextKeeps, PTL DEF Spec

\* The state of deployments has its type: containers carry hostnames that are
\* not protected, and every request and the job work on such hostnames.
THEOREM TypeCorrect == Spec => []TypeOK
<1>1. IInv => TypeOK
  BY DEF IInv
<1> QED
  BY <1>1, InvariantHolds, PTL

\* No edit of the list of routes, from whatever list it was made, touches a
\* route that LockoutGuard protects.
THEOREM ProtectedCorrect == Spec => []ProtectedKept
<1>1. IInv => ProtectedKept
  BY DEF IInv
<1> QED
  BY <1>1, InvariantHolds, PTL

\* Nobody has joined the job since it began: what it has seen is still so.
Alone == Active(Job) /\ actors[Job].alone

AloneInv ==
  Alone =>
    /\ \A c \in Calls : ~Active(c)
    /\ actors[Job].at = "list" =>
         \A h \in Hosts : view[h] = None => Of(containers, h) = {}
    /\ \A h \in orphans : Of(containers, h) = {}
    /\ actors[Job].at \in {"get", "put"} /\ actors[Job].op = "orphan" =>
         Of(containers, actors[Job].host) = {}
    /\ actors[Job].at = "put" => actors[Job].seen = routes

\* A request that takes a step is at work, so the job is not alone, before and after.
LEMMA CallsAreNotAlone ==
  ASSUME IInv, AloneInv, NEW c \in Calls, CallStep(c)
  PROVE  ~Alone /\ actors'[Job] = actors[Job] /\ ~Alone'
<1>1. Active(c) /\ c # Job /\ c \in Actors /\ Job \in Actors
  BY DeployAssumption
  DEF CallStep, ListOld, RemoveOld, SelectPort, RunContainer, PortTaken, RollbackContainer,
      FindRunning, RemoveFound, GetRoutes, PutRoutes, EditDns, Active, Waits, Actors
<1>2. ~Alone
  BY <1>1 DEF AloneInv
<1>3. \E s : Go(c, s)
  BY DEF CallStep, ListOld, RemoveOld, SelectPort, RunContainer, PortTaken, RollbackContainer,
         FindRunning, RemoveFound, GetRoutes, PutRoutes, EditDns, Go
<1>4. actors'[Job] = actors[Job]
  BY <1>1, <1>3 DEF Go, IInv, TypeOK
<1> QED
  BY <1>2, <1>4 DEF Alone, Active

\* A step of the job on its own: the requests stay as they are.
LEMMA JobMoves ==
  ASSUME IInv, NEW s, Go(Job, s)
  PROVE  /\ actors'[Job] = s
         /\ \A c \in Calls : actors'[c] = actors[c]
BY DeployAssumption DEF IInv, TypeOK, Go, Actors

\* A hostname of which the job has seen no container has none.
LEMMA LookedNone ==
  ASSUME IInv, NEW h \in Names, Looked(h) = None
  PROVE  Of(containers, h) = {}
<1> SUFFICES ASSUME Of(containers, h) # {} PROVE FALSE
  OBVIOUS
<1>1. None \notin Nat
  BY DeployAssumption
<1>2. CASE Cardinality(RunningOf(containers, h)) # 1
  BY <1>1, <1>2 DEF Looked
<1>3. CASE Cardinality(RunningOf(containers, h)) = 1
  <2> DEFINE k == CHOOSE k \in RunningOf(containers, h) : TRUE
  <2>1. RunningOf(containers, h) # {}
    BY <1>3, FS_EmptySet
  <2>2. k \in RunningOf(containers, h)
    BY <2>1
  <2>3. k \in Containers
    BY <2>2 DEF RunningOf, Of
  <2>4. containers[k].port \in Nat
    BY <2>3, PortFacts DEF IInv, TypeOK, ContainerType
  <2>5. Looked(h) = containers[k].port
    BY <1>3 DEF Looked
  <2> HIDE DEF k
  <2> QED
    BY <1>1, <2>4, <2>5
<1> QED
  BY <1>2, <1>3

\* Away from the reads and edits, being alone asks less.
LEMMA AloneMoves ==
  ASSUME IInv, AloneInv, NEW s, Go(Job, s), Active(Job),
         s.at \notin Waits => s.alone = actors[Job].alone,
         s.at \notin {"list", "get", "put"}, containers' = containers, orphans' \subseteq orphans
  PROVE  AloneInv'
BY JobMoves DEF AloneInv, Alone, Active, Of

LEMMA StartJobAlone ==
  ASSUME IInv, AloneInv, StartJob
  PROVE  AloneInv'
<1>1. /\ actors[Job].at = "off" /\ UNCHANGED <<containers, orphans>>
      /\ Begin(Job, Resting("ps"))
  BY DEF StartJob, remote, job
<1>2. orphans = {}
  BY <1>1 DEF IInv, NothingYet, Early
<1>3. actors'[Job] = [Resting("ps") EXCEPT !.alone = \A c \in Actors : ~Active(c)]
  BY <1>1 DEF Begin, Actors
<1>4. actors'[Job].at = "ps" /\ (actors'[Job].alone <=> \A c \in Actors : ~Active(c))
  BY <1>3 DEF Resting
<1>5. ASSUME Alone', NEW c \in Calls PROVE ~Active(c)'
  <2>1. c \in Actors /\ c # Job
    BY DeployAssumption DEF Actors
  <2>2. ~Active(c)
    BY <1>4, <1>5, <2>1 DEF Alone
  <2>3. actors'[c] = actors[c]
    BY <1>1, <2>1, <2>2 DEF Begin
  <2> QED
    BY <2>2, <2>3 DEF Active
<1> QED
  BY <1>1, <1>2, <1>4, <1>5 DEF AloneInv

LEMMA ReadContainersAlone ==
  ASSUME IInv, AloneInv, ReadContainers
  PROVE  AloneInv'
<1>1. PICK r \in Answers :
        IF r.ok
        THEN /\ view' = [h \in Names |-> Looked(h)]
             /\ Go(Job, At(Job, "list")) /\ UNCHANGED orphans
        ELSE EndJob /\ Go(Job, Resting("off"))
  BY DEF ReadContainers
<1>2. Active(Job) /\ containers' = containers /\ orphans = {} /\ Job \in Actors
  BY DEF ReadContainers, Active, Waits, remote, IInv, NothingYet, Early, Actors
<1>3. CASE r.ok
  <2>1. At(Job, "list").at = "list" /\ At(Job, "list").alone = actors[Job].alone
    BY <1>2 DEF At, IInv, TypeOK, ActorType
  <2>2. Alone' => Alone /\ \A c \in Calls : ~Active(c)'
    BY <1>1, <1>2, <1>3, <2>1, JobMoves DEF Alone, AloneInv, Active
  <2>3. \A h \in Hosts : view'[h] = None => Of(containers', h) = {}
    BY <1>1, <1>2, <1>3, LookedNone DEF Names
  <2>4. actors'[Job].at = "list"
    BY <1>1, <1>3, <2>1, JobMoves
  <2> QED
    BY <1>1, <1>2, <1>3, <2>2, <2>3, <2>4 DEF AloneInv
<1>4. CASE ~r.ok
  <2>1. orphans' = {} /\ Resting("off").at = "off"
    BY <1>1, <1>4 DEF EndJob, Resting
  <2> QED
    BY <1>1, <1>2, <1>4, <2>1, AloneMoves DEF Waits
<1> QED
  BY <1>3, <1>4

LEMMA ReadRoutesAlone ==
  ASSUME IInv, AloneInv, ReadRoutes
  PROVE  AloneInv'
<1>1. PICK r \in Answers :
        IF r.ok THEN orphans' = Orphans /\ Go(Job, At(Job, "next"))
                ELSE EndJob /\ Go(Job, Resting("off"))
  BY DEF ReadRoutes
<1>2. Active(Job) /\ containers' = containers /\ Job \in Actors /\ actors[Job].at = "list"
  BY DEF ReadRoutes, Active, Waits, remote, Actors
<1>3. CASE r.ok
  <2>1. At(Job, "next").at = "next" /\ At(Job, "next").alone = actors[Job].alone
    BY <1>2 DEF At, IInv, TypeOK, ActorType
  <2>2. Alone' => Alone /\ \A c \in Calls : ~Active(c)'
    BY <1>1, <1>2, <1>3, <2>1, JobMoves DEF Alone, AloneInv, Active
  <2>3. Alone => \A h \in orphans' : Of(containers', h) = {}
    BY <1>1, <1>2, <1>3, NotProtected DEF AloneInv, Orphans
  <2>4. actors'[Job].at = "next"
    BY <1>1, <1>3, <2>1, JobMoves
  <2> QED
    BY <2>2, <2>3, <2>4 DEF AloneInv
<1>4. CASE ~r.ok
  <2>1. orphans' = {} /\ Resting("off").at = "off"
    BY <1>1, <1>4 DEF EndJob, Resting
  <2> QED
    BY <1>1, <1>2, <1>4, <2>1, AloneMoves DEF Waits
<1> QED
  BY <1>3, <1>4

LEMMA JobWorksAlone ==
  ASSUME IInv, AloneInv, RemoveOrphanedRoute \/ HealMissingRoute
  PROVE  AloneInv'
<1>1. Active(Job) /\ containers' = containers /\ actors[Job] \in ActorType
  BY DEF RemoveOrphanedRoute, HealMissingRoute, Active, Waits, remote, IInv, TypeOK, Actors
<1>2. CASE RemoveOrphanedRoute
  <2> DEFINE s(h) == [At(Job, "get") EXCEPT !.op = "orphan", !.host = h]
  <2>1. PICK h \in orphans : orphans' = orphans \ {h} /\ Go(Job, s(h))
    BY <1>2 DEF RemoveOrphanedRoute, Go
  <2>2. s(h).at = "get" /\ s(h).alone = actors[Job].alone /\ s(h).host = h
    BY <1>1 DEF At, ActorType
  <2> HIDE DEF s
  <2>3. Alone' => Alone /\ \A c \in Calls : ~Active(c)'
    BY <1>1, <2>1, <2>2, JobMoves DEF Alone, AloneInv, Active
  <2>4. actors'[Job].at = "get" /\ actors'[Job].host = h
    BY <2>1, <2>2, JobMoves
  <2> QED
    BY <1>1, <2>1, <2>3, <2>4 DEF AloneInv
<1>3. CASE HealMissingRoute
  <2> DEFINE s(h) == [At(Job, "get") EXCEPT !.op = "heal", !.host = h, !.port = view[h]]
  <2>1. PICK h \in heals : Go(Job, s(h))
    BY <1>3 DEF HealMissingRoute, Go
  <2>2. s(h).at = "get" /\ s(h).alone = actors[Job].alone /\ s(h).op = "heal"
    BY <1>1 DEF At, ActorType
  <2> HIDE DEF s
  <2>3. Alone' => Alone /\ \A c \in Calls : ~Active(c)'
    BY <1>1, <2>1, <2>2, JobMoves DEF Alone, AloneInv, Active
  <2>4. actors'[Job].at = "get" /\ actors'[Job].op = "heal" /\ orphans' = orphans
    BY <1>3, <2>1, <2>2, JobMoves DEF HealMissingRoute
  <2> QED
    BY <1>1, <2>3, <2>4 DEF AloneInv
<1> QED
  BY <1>2, <1>3

\* After an edit the job goes to DNS or to its next item, as alone as before.
LEMMA AfterEditOfJob ==
  ASSUME IInv, actors[Job].at \in {"get", "put"}, NEW ok \in BOOLEAN
  PROVE  /\ AfterEdit(Job, ok).at \in {"dns", "next"}
         /\ AfterEdit(Job, ok).alone = actors[Job].alone
         /\ AfterEdit(Job, ok) \in ActorType
<1>1. actors[Job] \in ActorType /\ actors[Job].op \in {"orphan", "heal"}
  BY DEF IInv, TypeOK, Good, Actors
<1>2. /\ EndOf(Job).at = "next" /\ EndOf(Job).alone = actors[Job].alone
      /\ EndOf(Job) \in ActorType
  <2>1. Resting("next") \in ActorType /\ Resting("next").at = "next"
    BY RestingTyped DEF Resting
  <2> QED
    BY <1>1, <2>1 DEF EndOf, ActorType
<1>3. /\ At(Job, "dns").at = "dns" /\ At(Job, "dns").alone = actors[Job].alone
      /\ At(Job, "dns") \in ActorType
  BY <1>1 DEF At, ActorType
<1>4. AfterEdit(Job, ok) \in {At(Job, "dns"), EndOf(Job)}
  BY <1>1 DEF AfterEdit
<1> QED
  BY <1>2, <1>3, <1>4

LEMMA GetRoutesAlone ==
  ASSUME IInv, AloneInv, GetRoutes(Job)
  PROVE  AloneInv'
<1> DEFINE s == [At(Job, "put") EXCEPT !.seen = routes]
<1>1. PICK r \in Answers : Go(Job, IF r.ok THEN s ELSE AfterEdit(Job, FALSE))
  BY DEF GetRoutes
<1>2. /\ Active(Job) /\ actors[Job].at = "get" /\ actors[Job] \in ActorType
      /\ UNCHANGED <<containers, orphans, routes>>
  BY DEF GetRoutes, Active, Waits, remote, job, IInv, TypeOK, Actors
<1>3. /\ s.at = "put" /\ s.alone = actors[Job].alone /\ s.seen = routes
      /\ s.host = actors[Job].host /\ s.op = actors[Job].op
  BY <1>2 DEF At, ActorType
<1> HIDE DEF s
<1>4. CASE r.ok
  <2>1. actors'[Job] = s
    BY <1>1, <1>4, JobMoves
  <2>2. Alone' => Alone /\ \A c \in Calls : ~Active(c)'
    BY <1>1, <1>2, <1>3, <1>4, JobMoves DEF Alone, AloneInv, Active
  <2> QED
    BY <1>2, <1>3, <2>1, <2>2 DEF AloneInv, Of
<1>5. CASE ~r.ok
  BY <1>1, <1>2, <1>5, AfterEditOfJob, AloneMoves
<1> QED
  BY <1>4, <1>5

LEMMA PutRoutesAlone ==
  ASSUME IInv, AloneInv, PutRoutes(Job)
  PROVE  AloneInv'
<1> DEFINE s(ok) == [AfterEdit(Job, ok) EXCEPT !.seen = [h \in Names |-> None]]
<1>1. PICK r \in Answers : Go(Job, s(r.ok))
  BY DEF PutRoutes
<1>2. /\ Active(Job) /\ actors[Job].at = "put" /\ r.ok \in BOOLEAN
      /\ UNCHANGED <<containers, orphans>>
  BY AnswersTyped DEF PutRoutes, Active, Waits, job
<1>3. s(r.ok).at \in {"dns", "next"} /\ s(r.ok).alone = actors[Job].alone
  BY <1>2, AfterEditOfJob DEF ActorType
<1> HIDE DEF s
<1> QED
  BY <1>1, <1>2, <1>3, AloneMoves

LEMMA EditDnsAlone ==
  ASSUME IInv, AloneInv, EditDns(Job)
  PROVE  AloneInv'
<1>1. Good(Job, actors[Job]) /\ actors[Job] \in ActorType /\ actors[Job].at = "dns"
  BY DEF EditDns, IInv, Good, Actors
<1>2. actors[Job].op \in {"orphan", "heal"}
  BY <1>1 DEF Good
<1>3. Go(Job, EndOf(Job))
  BY <1>2 DEF EditDns
<1>4. EndOf(Job).at = "next" /\ EndOf(Job).alone = actors[Job].alone
  <2>1. Resting("next") \in ActorType /\ Resting("next").at = "next"
    BY RestingTyped DEF Resting
  <2> QED
    BY <2>1 DEF EndOf, ActorType
<1>5. Active(Job) /\ UNCHANGED <<containers, orphans>>
  BY DEF EditDns, Active, Waits, job
<1> QED
  BY <1>3, <1>4, <1>5, AloneMoves

LEMMA ReportedAlone ==
  ASSUME IInv, AloneInv, Reported
  PROVE  AloneInv'
<1>1. /\ Go(Job, Resting("off")) /\ orphans' = {} /\ containers' = containers
      /\ Active(Job) /\ Resting("off").at = "off"
  BY DEF Reported, Go, EndJob, remote, Active, Waits, Resting
<1> QED
  BY <1>1, AloneMoves DEF Waits

LEMMA OthersAlone ==
  ASSUME IInv, AloneInv,
         \/ \E c \in Calls, h \in Names : StartDeploy(c, h) \/ StartUndeploy(c, h)
         \/ \E k \in Containers : StopContainer(k) \/ StartContainer(k)
         \/ Crash
         \/ UNCHANGED vars
  PROVE  AloneInv'
<1>1. ASSUME NEW c \in Calls, NEW s, Begin(c, s) PROVE AloneInv'
  <2>1. Job \in Actors /\ Job # c
    BY DeployAssumption DEF Actors
  <2>2. actors'[Job] = IF Active(Job) THEN [actors[Job] EXCEPT !.alone = FALSE]
                       ELSE actors[Job]
    BY <1>1, <2>1 DEF Begin
  <2>3. actors[Job] \in ActorType
    BY <2>1 DEF IInv, TypeOK
  <2>4. ~Alone'
    BY <2>2, <2>3 DEF Alone, Active, ActorType
  <2> QED
    BY <2>4 DEF AloneInv
<1>2. ASSUME NEW k \in Containers, NEW state \in {"running", "stopped"}, Handled(k, state)
      PROVE  AloneInv'
  <2>1. \A h : Of(containers', h) = Of(containers, h)
    <3>1. \A l \in Containers : containers'[l].host = containers[l].host
      BY <1>2 DEF Handled, IInv, TypeOK, ContainerType
    <3> QED
      BY <3>1 DEF Of
  <2>2. UNCHANGED <<actors, view, orphans, routes>>
    BY <1>2 DEF Handled, job
  <2> QED
    BY <2>1, <2>2 DEF AloneInv, Alone, Active
<1>3. CASE Crash
  <2>1. actors'[Job].at = "off"
    BY <1>3 DEF Crash, Resting, Actors
  <2> QED
    BY <2>1 DEF AloneInv, Alone, Active, Waits
<1>4. CASE UNCHANGED vars
  BY <1>4 DEF vars, remote, job, AloneInv, Alone, Active, Of
<1> QED
  BY <1>1, <1>2, <1>3, <1>4 DEF StartDeploy, StartUndeploy, StopContainer, StartContainer

LEMMA AloneKeeps == IInv /\ AloneInv /\ [Next]_vars => AloneInv'
<1> SUFFICES ASSUME IInv, AloneInv, [Next]_vars PROVE AloneInv'
  OBVIOUS
<1>1. ASSUME NEW c \in Calls, CallStep(c) PROVE AloneInv'
  BY <1>1, CallsAreNotAlone DEF AloneInv
<1>2. CASE JobStep
  BY <1>2, StartJobAlone, ReadContainersAlone, ReadRoutesAlone, JobWorksAlone,
     ReportedAlone, GetRoutesAlone, PutRoutesAlone, EditDnsAlone
  DEF JobStep
<1> QED
  BY <1>1, <1>2, OthersAlone DEF Next

\* Only an edit writes the list of routes, and the job at its edit knows it.
LEMMA JobRemovesOrphans ==
  ASSUME IInv, AloneInv, [Next]_vars, NEW h \in Hosts,
         routes[h] # None, routes'[h] = None, actors[Job].at = "put", actors[Job].alone
  PROVE  Of(containers, h) = {}
<1>1. Alone /\ actors[Job].seen = routes
  BY DEF Alone, AloneInv, Active, Waits
<1>2. \A c \in Calls : ~CallStep(c)
  BY <1>1, CallsAreNotAlone
<1>3. routes' # routes
  OBVIOUS
<1>4. PutRoutes(Job)
  BY <1>2, <1>3
  DEF Next, JobStep, StartDeploy, StartUndeploy, StopContainer, StartContainer, Handled,
      Crash, StartJob, ReadContainers, ReadRoutes, RemoveOrphanedRoute, HealMissingRoute,
      Reported, GetRoutes, EditDns, remote, vars
<1>5. routes' = Edited(Job)
  BY <1>3, <1>4 DEF PutRoutes
<1>6. /\ actors[Job].port \in Ports /\ actors[Job].op \in {"orphan", "heal"}
      /\ routes \in Routes /\ h \in Names
  BY DEF IInv, TypeOK, Good, Actors, ActorType, Routes, Names
<1>7. h = actors[Job].host
  BY <1>1, <1>5, <1>6 DEF Edited, Routes
<1>8. actors[Job].op = "orphan"
  BY <1>1, <1>5, <1>6, <1>7, PortFacts DEF Edited, Adds, Routes
<1> QED
  BY <1>1, <1>7, <1>8 DEF AloneInv

\* A run of the reconciliation that nobody interferes with removes no route of
\* a hostname that has a container, running or stopped, whichever of its own
\* steps fail.
THEOREM StopKeepsRouteCorrect == Spec => StopKeepsRoute
<1>1. Init => AloneInv
  BY RestingGood DEF Init, AloneInv, Alone, Active, Actors, Resting, Waits
<1>2. IInv /\ AloneInv /\ [Next]_vars =>
        [\A h \in Hosts :
           routes[h] # None /\ routes'[h] = None
             /\ actors[Job].at = "put" /\ actors'[Job].at # "put"
             /\ actors[Job].alone
           => Of(containers, h) = {}]_vars
  BY JobRemovesOrphans
<1> QED
  BY <1>1, <1>2, InitHolds, NextKeeps, AloneKeeps, PTL DEF Spec, StopKeepsRoute

-----------------------------------------------------------------------------
(* A deploy that nothing has disturbed                                     *)

\* Who is alone is the only one at work.
Solo == \A a, b \in Actors : Active(a) /\ actors[a].alone /\ Active(b) => a = b

\* Where the container of a request does not exist yet.
Unborn == {"ready", "list", "replace", "run"}
Fresh == \A c \in Calls : actors[c].at \in Unborn => containers[c] = NoContainer

Untroubled(c) ==
  /\ Active(c) /\ actors[c].op = "deploy" /\ actors[c].alone
  /\ trouble = 0

\* What such a deploy has achieved at each of its places.
OnCourse(c) ==
  LET s   == actors[c]
      own == Of(containers, s.host)
  IN /\ s.at \in {"list", "replace", "run", "get", "put", "dns"}
     /\ s.at = "replace" => own \subseteq s.old
     /\ s.at = "run" => own = {}
     /\ s.at \in {"get", "put", "dns"} =>
          /\ own = {c}
          /\ containers[c].state = "running" /\ containers[c].port = s.port
     /\ s.at = "put" => s.seen = routes
     /\ s.at = "dns" => routes[s.host] = s.port

DeployInv ==
  /\ Solo
  /\ Fresh
  /\ \A c \in Calls : Untroubled(c) => OnCourse(c)

\* A step that leaves no trouble behind has been answered and found none.
LEMMA NoTrouble ==
  ASSUME IInv, NEW r \in Answers, Counted(r), trouble' = 0
  PROVE  r.ok /\ r.done /\ trouble = 0
<1>1. trouble \in Nat
  BY DeployAssumption DEF IInv, TypeOK
<1>2. r.ok
  BY <1>1 DEF Counted
<1>3. r = [done |-> TRUE, ok |-> TRUE]
        \/ (trouble < MaxTrouble /\ r \in [done : BOOLEAN, ok : {FALSE}])
  BY Zenon DEF Answers
<1>4. r \in [done : BOOLEAN, ok : {FALSE}] => ~r.ok
  OBVIOUS
<1>5. r.done
  <2>1. r = [done |-> TRUE, ok |-> TRUE]
    BY <1>2, <1>3, <1>4, Zenon
  <2> QED
    BY <2>1
<1> QED
  BY <1>2, <1>5 DEF Counted

\* What a step of a request has to show.
CallKeeps(c) ==
  /\ Active(c)' => actors'[c].alone = actors[c].alone
  /\ actors'[c].at \in Unborn => actors[c].at \in Unborn
  /\ \A d \in Calls : \/ containers'[d] \in {containers[d], NoContainer}
                      \/ d = c /\ actors'[c].at \notin Unborn
  /\ Untroubled(c)' => OnCourse(c)'

LEMMA CallActs ==
  ASSUME IInv, NEW c \in Calls, CallStep(c)
  PROVE  /\ Active(c) /\ c # Job /\ c \in Actors /\ c \in Containers
         /\ actors[c] \in ActorType
         /\ Good(c, actors[c]) /\ actors[c].host \in Hosts
         /\ \E s : Go(c, s)
<1>1. Active(c) /\ c # Job /\ c \in Actors /\ c \in Containers
  BY DeployAssumption
  DEF CallStep, ListOld, RemoveOld, SelectPort, RunContainer, PortTaken, RollbackContainer,
      FindRunning, RemoveFound, GetRoutes, PutRoutes, EditDns, Active, Waits, Actors, Containers
<1>2. Good(c, actors[c]) /\ actors[c] \in ActorType
  BY <1>1 DEF IInv, Good
<1>3. actors[c].host \in Hosts
  BY <1>1, <1>2 DEF Good, Active
<1>4. \E s : Go(c, s)
  BY DEF CallStep, ListOld, RemoveOld, SelectPort, RunContainer, PortTaken, RollbackContainer,
         FindRunning, RemoveFound, GetRoutes, PutRoutes, EditDns, Go
<1> QED
  BY <1>1, <1>2, <1>3, <1>4

LEMMA Moved ==
  ASSUME IInv, NEW a \in Actors, NEW s, Go(a, s)
  PROVE  actors'[a] = s /\ \A b \in Actors \ {a} : actors'[b] = actors[b]
BY DEF IInv, TypeOK, Go

\* Its last step: there is no more to show.
LEMMA RestsKeeps ==
  ASSUME IInv, NEW c \in Calls, CallStep(c), NEW s, Go(c, s), s.at = "ended",
         \A d \in Calls \ {c} : containers'[d] \in {containers[d], NoContainer}
  PROVE  CallKeeps(c)
<1>1. actors'[c].at = "ended"
  BY CallActs, Moved
<1>2. ~Active(c)'
  BY <1>1 DEF Active, Waits
<1>3. actors'[c].at \notin Unborn
  BY <1>1 DEF Unborn
<1>4. ~Untroubled(c)'
  BY <1>2 DEF Untroubled
<1> QED
  BY <1>1, <1>2, <1>3, <1>4 DEF CallKeeps

\* A request at rest has ended.
LEMMA RestingEnded == Resting("ended").at = "ended"
BY DEF Resting

LEMMA ListOldOnCourse ==
  ASSUME IInv, NEW c \in Calls, ListOld(c)
  PROVE  CallKeeps(c)
<1> DEFINE s(ok) == [At(c, "replace") EXCEPT
                       !.old = IF ok THEN Existing(actors[c].host) ELSE {}]
<1>1. PICK r \in Answers : Counted(r) /\ Go(c, s(r.ok))
  BY DEF ListOld
<1>2. actors[c] \in ActorType /\ c \in Actors
  BY CallActs DEF CallStep
<1>3. /\ s(r.ok).at = "replace" /\ s(r.ok).alone = actors[c].alone
      /\ s(r.ok).host = actors[c].host
      /\ r.ok => s(r.ok).old = Of(containers, actors[c].host)
  BY <1>2 DEF At, ActorType, Existing
<1>4. containers' = containers /\ actors[c].at = "list"
  BY DEF ListOld, remote
<1> HIDE DEF s
<1>5. actors'[c] = s(r.ok)
  BY <1>1, <1>2, Moved
<1>6. Untroubled(c)' => OnCourse(c)'
  BY <1>1, <1>3, <1>4, <1>5, NoTrouble DEF Untroubled, OnCourse, Of
<1> QED
  BY <1>3, <1>4, <1>5, <1>6 DEF CallKeeps, Unborn

\* Without a container, only the others of its hostname are left.
LEMMA OfRemoved ==
  ASSUME IInv, NEW k \in Containers, NEW h \in Hosts, containers' = Remove(k)
  PROVE  Of(containers', h) = Of(containers, h) \ {k}
<1>1. containers'[k] = NoContainer /\ NoContainer.host # h
  BY DeployAssumption DEF IInv, TypeOK, Remove, NoContainer
<1>2. \A l \in Containers \ {k} : containers'[l] = containers[l]
  BY DEF IInv, TypeOK, Remove
<1> QED
  BY <1>1, <1>2 DEF Of

LEMMA RemovedOnly ==
  ASSUME IInv, NEW k \in Containers,
         containers' = Remove(k) \/ containers' = containers
  PROVE  \A d \in Calls : containers'[d] \in {containers[d], NoContainer}
BY DEF IInv, TypeOK, Remove, Containers

LEMMA RemoveOldOnCourse ==
  ASSUME IInv, DeployInv, NEW c \in Calls, RemoveOld(c)
  PROVE  CallKeeps(c)
<1> DEFINE s(k) == [actors[c] EXCEPT !.old = @ \ {k}]
<1>1. PICK k \in actors[c].old, r \in Answers :
        /\ Counted(r) /\ Go(c, s(k))
        /\ containers' = IF r.done THEN Remove(k) ELSE containers
  BY DEF RemoveOld
<1>2. actors[c] \in ActorType /\ c \in Actors /\ actors[c].host \in Hosts /\ Active(c)
  BY CallActs DEF CallStep
<1>3. k \in Containers
  BY <1>1, <1>2 DEF ActorType
<1>4. /\ s(k).at = "replace" /\ s(k).alone = actors[c].alone
      /\ s(k).host = actors[c].host /\ s(k).op = actors[c].op
      /\ s(k).old = actors[c].old \ {k}
  BY <1>2 DEF ActorType, RemoveOld
<1> HIDE DEF s
<1>5. actors'[c] = s(k) /\ actors[c].at = "replace"
  BY <1>1, <1>2, Moved DEF RemoveOld
<1>6. ASSUME Untroubled(c)' PROVE OnCourse(c)'
  <2>1. r.done /\ trouble = 0
    BY <1>1, <1>6, NoTrouble DEF Untroubled
  <2>2. Untroubled(c)
    BY <1>2, <1>4, <1>5, <1>6, <2>1 DEF Untroubled
  <2>3. Of(containers, actors[c].host) \subseteq actors[c].old
    BY <1>5, <2>2 DEF DeployInv, OnCourse
  <2>4. Of(containers', actors[c].host) \subseteq actors[c].old \ {k}
    BY <1>1, <1>2, <1>3, <2>1, <2>3, OfRemoved
  <2> QED
    BY <1>4, <1>5, <2>4 DEF OnCourse
<1> QED
  BY <1>1, <1>3, <1>4, <1>5, <1>6, RemovedOnly DEF CallKeeps, Unborn

LEMMA SelectPortOnCourse ==
  ASSUME IInv, DeployInv, NEW c \in Calls, SelectPort(c)
  PROVE  CallKeeps(c)
<1> DEFINE s(p) == [At(c, "run") EXCEPT !.port = p]
<1>0. PICK r \in Answers : \E p \in FreeHostPort(IF r.ok THEN Occupied ELSE {}) :
        Counted(r) /\ Go(c, s(p))
  BY DEF SelectPort
<1>1. PICK p \in FreeHostPort(IF r.ok THEN Occupied ELSE {}) :
        Counted(r) /\ Go(c, s(p))
  BY <1>0
<1>2. actors[c] \in ActorType /\ c \in Actors /\ Active(c)
  BY CallActs DEF CallStep
<1>3. /\ s(p).at = "run" /\ s(p).alone = actors[c].alone
      /\ s(p).host = actors[c].host /\ s(p).op = actors[c].op
  BY <1>2 DEF At, ActorType
<1> HIDE DEF s
<1>4. /\ actors'[c] = s(p) /\ actors[c].at = "replace" /\ actors[c].old = {}
      /\ containers' = containers
  BY <1>1, <1>2, Moved DEF SelectPort, remote
<1>5. ASSUME Untroubled(c)' PROVE OnCourse(c)'
  <2>1. trouble = 0
    BY <1>1, <1>5, NoTrouble DEF Untroubled
  <2>2. Untroubled(c)
    BY <1>2, <1>3, <1>4, <1>5, <2>1 DEF Untroubled
  <2>3. Of(containers', actors[c].host) = {}
    BY <1>4, <2>2 DEF DeployInv, OnCourse
  <2> QED
    BY <1>3, <1>4, <2>3 DEF OnCourse
<1> QED
  BY <1>3, <1>4, <1>5 DEF CallKeeps, Unborn

LEMMA RunContainerOnCourse ==
  ASSUME IInv, DeployInv, NEW c \in Calls, RunContainer(c) \/ PortTaken(c)
  PROVE  CallKeeps(c)
<1>1. /\ actors[c] \in ActorType /\ c \in Actors /\ Active(c)
      /\ c \in Containers /\ actors[c].host \in Hosts /\ actors[c].at = "run"
  BY CallActs DEF CallStep, RunContainer, PortTaken
<1> DEFINE made(state) == [containers EXCEPT
                             ![c] = [host |-> actors[c].host, port |-> actors[c].port,
                                     state |-> state]]
<1>2. ASSUME NEW state, containers' \in {containers, made(state)}
      PROVE  \A d \in Calls \ {c} : containers'[d] = containers[d]
  BY <1>1, <1>2 DEF IInv, TypeOK, Containers
<1>3. CASE RunContainer(c)
  <2>1. PICK r \in Answers :
          /\ Counted(r)
          /\ Go(c, IF r.ok THEN At(c, "get") ELSE Resting("ended"))
          /\ containers' = IF r.done THEN made("running") ELSE containers
    BY <1>3 DEF RunContainer
  <2>2. \A d \in Calls \ {c} : containers'[d] = containers[d]
    BY <1>2, <2>1
  <2>3. CASE ~r.ok
    BY <1>3, <2>1, <2>2, <2>3, RestsKeeps, RestingEnded DEF CallStep
  <2>4. CASE r.ok
    <3>1. actors'[c] = At(c, "get")
      BY <1>1, <2>1, <2>4, Moved
    <3>2. /\ actors'[c].at = "get" /\ actors'[c].alone = actors[c].alone
          /\ actors'[c].host = actors[c].host /\ actors'[c].op = actors[c].op
          /\ actors'[c].port = actors[c].port
      BY <1>1, <3>1 DEF At, ActorType
    <3>3. ASSUME Untroubled(c)' PROVE OnCourse(c)'
      <4>1. r.done /\ trouble = 0
        BY <2>1, <3>3, NoTrouble DEF Untroubled
      <4>2. Untroubled(c)
        BY <1>1, <3>2, <3>3, <4>1 DEF Untroubled
      <4>3. Of(containers, actors[c].host) = {}
        BY <1>1, <4>2 DEF DeployInv, OnCourse
      <4>4. /\ containers'[c].host = actors[c].host
            /\ containers'[c].port = actors[c].port
            /\ containers'[c].state = "running"
            /\ \A l \in Containers \ {c} : containers'[l] = containers[l]
        BY <1>1, <2>1, <4>1 DEF IInv, TypeOK
      <4>5. Of(containers', actors[c].host) = {c}
        BY <1>1, <4>3, <4>4 DEF Of
      <4> QED
        BY <3>2, <4>4, <4>5 DEF OnCourse
    <3> QED
      BY <2>2, <3>2, <3>3 DEF CallKeeps, Unborn
  <2> QED
    BY <2>3, <2>4
<1>4. CASE PortTaken(c)
  <2>1. containers' \in {containers, made("stopped")} /\ Go(c, Resting("ended"))
    BY <1>4 DEF PortTaken, Go
  <2>2. \A d \in Calls \ {c} : containers'[d] = containers[d]
    BY <1>2, <2>1
  <2> QED
    BY <1>4, <2>1, <2>2, RestsKeeps, RestingEnded DEF CallStep
<1> QED
  BY <1>3, <1>4

\* A deploy on its course is never at a place of its compensation, or of an
\* undeploy.
LEMMA NotOffCourse ==
  ASSUME DeployInv, NEW c \in Calls, actors[c].at \in {"undo", "undoAll", "find", "rm"}
  PROVE  ~Untroubled(c)
BY DEF DeployInv, OnCourse

LEMMA RollbackOnCourse ==
  ASSUME IInv, NEW c \in Calls, RollbackContainer(c)
  PROVE  CallKeeps(c)
<1> DEFINE s == [At(c, "get") EXCEPT !.op = "rollback"]
<1>1. PICK r \in Answers :
        /\ Go(c, IF actors[c].at = "undo" THEN Resting("ended") ELSE s)
        /\ containers' = IF r.done THEN Remove(c) ELSE containers
  BY DEF RollbackContainer
<1>2. actors[c] \in ActorType /\ c \in Actors /\ c \in Containers
  BY CallActs DEF CallStep
<1>3. s.at = "get" /\ s.op = "rollback" /\ s.alone = actors[c].alone
  BY <1>2 DEF At, ActorType
<1> HIDE DEF s
<1>4. \A d \in Calls : containers'[d] \in {containers[d], NoContainer}
  BY <1>1, <1>2, RemovedOnly
<1>5. CASE actors[c].at = "undo"
  BY <1>1, <1>4, <1>5, RestsKeeps, RestingEnded DEF CallStep
<1>6. CASE actors[c].at # "undo"
  <2>1. actors'[c] = s
    BY <1>1, <1>2, <1>6, Moved
  <2> QED
    BY <1>3, <1>4, <2>1 DEF CallKeeps, Unborn, Untroubled
<1> QED
  BY <1>5, <1>6

LEMMA FindRunningOnCourse ==
  ASSUME IInv, DeployInv, NEW c \in Calls, FindRunning(c)
  PROVE  CallKeeps(c)
<1> DEFINE found == RunningOf(containers, actors[c].host)
           s(k) == [At(c, "rm") EXCEPT !.old = {k}]
<1>1. PICK r \in Answers :
        /\ Counted(r)
        /\ \/ Go(c, Resting("ended"))
           \/ \E k \in found : Go(c, s(k))
  BY DEF FindRunning
<1>2. actors[c] \in ActorType /\ c \in Actors /\ Active(c)
  BY CallActs DEF CallStep
<1>3. containers' = containers /\ actors[c].at = "find"
  BY DEF FindRunning, remote
<1>4. ASSUME NEW k \in found, Go(c, s(k)) PROVE CallKeeps(c)
  <2>1. /\ s(k).at = "rm" /\ s(k).alone = actors[c].alone
        /\ s(k).op = actors[c].op
    BY <1>2 DEF At, ActorType
  <2> HIDE DEF s
  <2>2. actors'[c] = s(k)
    BY <1>2, <1>4, Moved
  <2>3. ASSUME Untroubled(c)' PROVE FALSE
    <3>1. trouble = 0
      BY <1>1, <2>3, NoTrouble DEF Untroubled
    <3>2. Untroubled(c)
      BY <1>2, <2>1, <2>2, <2>3, <3>1 DEF Untroubled
    <3> QED
      BY <1>3, <3>2, NotOffCourse
  <2> QED
    BY <1>3, <2>1, <2>2, <2>3 DEF CallKeeps, Unborn
<1>5. CASE Go(c, Resting("ended"))
  BY <1>3, <1>5, RestsKeeps, RestingEnded DEF CallStep
<1> HIDE DEF s, found
<1> QED
  BY <1>1, <1>4, <1>5

LEMMA RemoveFoundOnCourse ==
  ASSUME IInv, NEW c \in Calls, RemoveFound(c)
  PROVE  CallKeeps(c)
<1>1. PICK k \in actors[c].old, r \in Answers :
        /\ Go(c, Resting("ended"))
        /\ containers' = IF r.done THEN Remove(k) ELSE containers
  BY DEF RemoveFound
<1>2. k \in Containers
  BY <1>1, CallActs DEF CallStep, ActorType
<1> QED
  BY <1>1, <1>2, RemovedOnly, RestsKeeps, RestingEnded DEF CallStep

LEMMA GetRoutesOnCourse ==
  ASSUME IInv, DeployInv, NEW c \in Calls, GetRoutes(c)
  PROVE  CallKeeps(c)
<1> DEFINE s == [At(c, "put") EXCEPT !.seen = routes]
<1>1. PICK r \in Answers :
        Counted(r) /\ Go(c, IF r.ok THEN s ELSE AfterEdit(c, FALSE))
  BY DEF GetRoutes
<1>2. actors[c] \in ActorType /\ c \in Actors /\ Active(c) /\ c # Job
  BY CallActs DEF CallStep
<1>3. actors[c].at = "get" /\ containers' = containers /\ routes' = routes
  BY DEF GetRoutes, remote
<1>4. /\ s.at = "put" /\ s.alone = actors[c].alone /\ s.host = actors[c].host
      /\ s.op = actors[c].op /\ s.port = actors[c].port /\ s.seen = routes
  BY <1>2 DEF At, ActorType
<1> HIDE DEF s
<1>5. CASE r.ok
  <2>1. actors'[c] = s
    BY <1>1, <1>2, <1>5, Moved
  <2>2. ASSUME Untroubled(c)' PROVE OnCourse(c)'
    <3>1. trouble = 0
      BY <1>1, <2>2, NoTrouble DEF Untroubled
    <3>2. Untroubled(c)
      BY <1>2, <1>4, <2>1, <2>2, <3>1 DEF Untroubled
    <3>3. OnCourse(c)
      BY <3>2 DEF DeployInv
    <3> QED
      BY <1>3, <1>4, <2>1, <3>3 DEF OnCourse, Of
  <2> QED
    BY <1>3, <1>4, <2>1, <2>2 DEF CallKeeps, Unborn
<1>6. CASE ~r.ok
  <2>1. CASE actors[c].op = "deploy"
    <3>1. actors'[c] = At(c, "undo")
      BY <1>1, <1>2, <1>6, <2>1, Moved DEF AfterEdit
    <3>2. At(c, "undo").at = "undo" /\ At(c, "undo").alone = actors[c].alone
      BY <1>2 DEF At, ActorType
    <3>3. ~Untroubled(c)'
      BY <1>1, <1>6, NoTrouble DEF Untroubled
    <3> QED
      BY <1>3, <3>1, <3>2, <3>3 DEF CallKeeps, Unborn
  <2>2. CASE actors[c].op # "deploy"
    <3>1. Go(c, Resting("ended"))
      BY <1>1, <1>2, <1>6, <2>2 DEF AfterEdit, EndOf
    <3> QED
      BY <1>3, <3>1, RestsKeeps, RestingEnded DEF CallStep
  <2> QED
    BY <2>1, <2>2
<1> QED
  BY <1>5, <1>6

LEMMA PutRoutesOnCourse ==
  ASSUME IInv, DeployInv, NEW c \in Calls, PutRoutes(c)
  PROVE  CallKeeps(c)
<1>1. PICK r \in Answers :
        /\ Counted(r)
        /\ Go(c, [AfterEdit(c, r.ok) EXCEPT !.seen = [h \in Names |-> None]])
        /\ routes' = IF r.done THEN Edited(c) ELSE routes
  BY DEF PutRoutes
<1> DEFINE s == [AfterEdit(c, r.ok) EXCEPT !.seen = [h \in Names |-> None]]
<1>2. /\ actors[c] \in ActorType /\ c \in Actors /\ Active(c) /\ c # Job
      /\ actors[c].host \in Hosts
  BY CallActs DEF CallStep
<1>3. actors[c].at = "put" /\ containers' = containers /\ r.ok \in BOOLEAN
  BY AnswersTyped DEF PutRoutes
<1>4. \/ /\ AfterEdit(c, r.ok).at \in {"dns", "undo"}
         /\ AfterEdit(c, r.ok).alone = actors[c].alone
         /\ AfterEdit(c, r.ok).op = actors[c].op
         /\ AfterEdit(c, r.ok).host = actors[c].host
         /\ AfterEdit(c, r.ok).port = actors[c].port
         /\ AfterEdit(c, r.ok) \in ActorType
         /\ r.ok => AfterEdit(c, r.ok).at = "dns"
      \/ AfterEdit(c, r.ok) = Resting("ended")
  <2>1. \A l \in {"dns", "undo"} :
          /\ At(c, l).at = l /\ At(c, l).alone = actors[c].alone
          /\ At(c, l).op = actors[c].op /\ At(c, l).host = actors[c].host
          /\ At(c, l).port = actors[c].port /\ At(c, l) \in ActorType
    BY <1>2 DEF At, ActorType
  <2>2. \/ AfterEdit(c, r.ok) = At(c, "dns")
        \/ AfterEdit(c, r.ok) = At(c, "undo") /\ ~r.ok
        \/ AfterEdit(c, r.ok) = Resting("ended")
    BY <1>2 DEF AfterEdit, EndOf
  <2> QED
    BY <2>1, <2>2
<1>5. CASE AfterEdit(c, r.ok) = Resting("ended")
  <2>1. s.at = "ended"
    BY <1>5 DEF Resting
  <2> HIDE DEF s
  <2> QED
    BY <1>1, <1>3, <2>1, RestsKeeps DEF CallStep, s
<1>6. CASE AfterEdit(c, r.ok) # Resting("ended")
  <2>1. /\ s.at \in {"dns", "undo"} /\ s.alone = actors[c].alone
        /\ s.op = actors[c].op /\ s.host = actors[c].host
        /\ s.port = actors[c].port
        /\ r.ok => s.at = "dns"
    BY <1>4, <1>6 DEF ActorType
  <2>2. actors'[c] = s
    BY <1>1, <1>2, Moved
  <2> HIDE DEF s
  <2>3. ASSUME Untroubled(c)' PROVE OnCourse(c)'
    <3>1. r.ok /\ r.done /\ trouble = 0
      BY <1>1, <2>3, NoTrouble DEF Untroubled
    <3>2. Untroubled(c)
      BY <1>2, <2>1, <2>2, <2>3, <3>1 DEF Untroubled
    <3>3. OnCourse(c)
      BY <3>2 DEF DeployInv
    <3>4. routes'[actors[c].host] = actors[c].port
      <4>1. routes' = Edited(c) /\ actors[c].op = "deploy"
        BY <1>1, <3>1, <3>2 DEF Untroubled
      <4>2. actors[c].seen \in Routes /\ actors[c].host \in Names
        BY <1>2 DEF ActorType, Routes, Names
      <4> QED
        BY <4>1, <4>2 DEF Edited, Adds, Routes
    <3>5. Of(containers', actors[c].host) = {c}
      BY <1>3, <3>3 DEF OnCourse
    <3>6. containers'[c].state = "running" /\ containers'[c].port = actors[c].port
      BY <1>3, <3>3 DEF OnCourse
    <3>7. actors'[c].at = "dns"
      BY <2>1, <2>2, <3>1
    <3> QED
      BY <2>1, <2>2, <3>4, <3>5, <3>6, <3>7 DEF OnCourse
  <2> QED
    BY <1>3, <2>1, <2>2, <2>3 DEF CallKeeps, Unborn
<1> QED
  BY <1>5, <1>6

LEMMA EditDnsOnCourse ==
  ASSUME IInv, DeployInv, NEW c \in Calls, EditDns(c)
  PROVE  CallKeeps(c)
<1> DEFINE s(ok) == CASE actors[c].op = "undeploy" -> At(c, "find")
                      [] actors[c].op = "deploy" /\ ~ok -> At(c, "undoAll")
                      [] OTHER -> EndOf(c)
<1>1. PICK r \in Answers : Counted(r) /\ Go(c, s(r.ok))
  BY DEF EditDns
<1>2. actors[c] \in ActorType /\ c \in Actors /\ Active(c) /\ c # Job
  BY CallActs DEF CallStep
<1>3. containers' = containers
  BY DEF EditDns
<1>4. \A l \in {"find", "undoAll"} :
        At(c, l).at = l /\ At(c, l).alone = actors[c].alone /\ At(c, l).op = actors[c].op
  BY <1>2 DEF At, ActorType
<1>5. \/ s(r.ok) = At(c, "find") /\ actors[c].op = "undeploy"
      \/ s(r.ok) = At(c, "undoAll") /\ ~r.ok
      \/ s(r.ok) = Resting("ended")
  BY <1>2 DEF EndOf
<1> HIDE DEF s
<1>6. CASE s(r.ok) = Resting("ended")
  BY <1>1, <1>3, <1>6, RestsKeeps, RestingEnded DEF CallStep
<1>7. CASE s(r.ok) = At(c, "find") /\ actors[c].op = "undeploy"
  <2>1. actors'[c] = At(c, "find")
    BY <1>1, <1>2, <1>7, Moved
  <2> QED
    BY <1>3, <1>4, <1>7, <2>1 DEF CallKeeps, Unborn, Untroubled
<1>8. CASE s(r.ok) = At(c, "undoAll") /\ ~r.ok
  <2>1. actors'[c] = At(c, "undoAll")
    BY <1>1, <1>2, <1>8, Moved
  <2>2. ~Untroubled(c)'
    BY <1>1, <1>8, NoTrouble DEF Untroubled
  <2> QED
    BY <1>3, <1>4, <2>1, <2>2 DEF CallKeeps, Unborn
<1> QED
  BY <1>5, <1>6, <1>7, <1>8

\* A step of a request: nobody else can be a deploy on its own.
LEMMA CallStepOnCourse ==
  ASSUME IInv, DeployInv, NEW c \in Calls, CallStep(c)
  PROVE  DeployInv'
<1>1. CallKeeps(c)
  BY ListOldOnCourse, RemoveOldOnCourse, SelectPortOnCourse, RunContainerOnCourse,
     RollbackOnCourse, FindRunningOnCourse, RemoveFoundOnCourse, GetRoutesOnCourse,
     PutRoutesOnCourse, EditDnsOnCourse
  DEF CallStep
<1>2. Active(c) /\ c \in Actors /\ c # Job
  BY CallActs
<1>3. \A b \in Actors \ {c} : actors'[b] = actors[b]
  BY CallActs, Moved
<1>4. Solo'
  BY <1>1, <1>2, <1>3 DEF DeployInv, Solo, CallKeeps, Active
<1>5. Fresh'
  BY <1>1, <1>3 DEF DeployInv, Fresh, CallKeeps, Actors
<1>6. ASSUME NEW d \in Calls, Untroubled(d)' PROVE OnCourse(d)'
  <2>1. CASE d = c
    BY <1>1, <1>6, <2>1 DEF CallKeeps
  <2>2. CASE d # c
    <3>1. Active(d)' /\ actors'[d].alone /\ d \in Actors /\ Active(d) /\ actors[d].alone
      BY <1>3, <1>6, <2>2 DEF Untroubled, Active, Actors
    <3> QED
      BY <1>2, <2>2, <3>1 DEF DeployInv, Solo
  <2> QED
    BY <2>1, <2>2
<1> QED
  BY <1>4, <1>5, <1>6 DEF DeployInv

\* Whoever begins ends everybody else's being alone, and has achieved nothing.
LEMMA BeginOnCourse ==
  ASSUME IInv, DeployInv, NEW a \in Actors, ~Active(a), NEW s, Begin(a, s),
         [s EXCEPT !.alone = \A c \in Actors : ~Active(c)] \in ActorType,
         s.at \in Unborn => actors[a].at \in Unborn,
         s.at = "list" \/ s.op # "deploy", containers' = containers
  PROVE  DeployInv'
<1> DEFINE t == [s EXCEPT !.alone = \A c \in Actors : ~Active(c)]
<1>1. /\ actors'[a] = t
      /\ \A b \in Actors \ {a} :
           actors'[b] = IF Active(b) THEN [actors[b] EXCEPT !.alone = FALSE] ELSE actors[b]
  BY DEF Begin
<1>2. /\ t.at = s.at /\ t.op = s.op
      /\ t.alone = \A c \in Actors : ~Active(c)
  BY DEF ActorType
<1> HIDE DEF t
<1>3. \A b \in Actors \ {a} :
        /\ actors'[b].at = actors[b].at
        /\ Active(b) => ~actors'[b].alone
  BY <1>1 DEF IInv, TypeOK, ActorType
<1>4. Solo'
  <2> SUFFICES ASSUME NEW b \in Actors, NEW d \in Actors,
                      Active(b)', actors'[b].alone, Active(d)', b # d
               PROVE  FALSE
    BY DEF Solo
  <2>1. CASE b = a
    BY <1>1, <1>2, <1>3, <2>1 DEF Active
  <2>2. CASE b # a
    BY <1>3, <2>2 DEF Active
  <2> QED
    BY <2>1, <2>2
<1>5. Fresh'
  BY <1>1, <1>2, <1>3 DEF DeployInv, Fresh, Actors
<1>6. ASSUME NEW d \in Calls, Untroubled(d)' PROVE OnCourse(d)'
  <2>1. CASE d = a
    BY <1>1, <1>2, <1>6, <2>1 DEF Untroubled, OnCourse
  <2>2. CASE d # a
    BY <1>3, <1>6, <2>2 DEF Untroubled, Active, Actors
  <2> QED
    BY <2>1, <2>2
<1> QED
  BY <1>4, <1>5, <1>6 DEF DeployInv

LEMMA StartsOnCourse ==
  ASSUME IInv, DeployInv,
         \/ \E c \in Calls, h \in Names : StartDeploy(c, h) \/ StartUndeploy(c, h)
         \/ StartJob
  PROVE  DeployInv'
<1> DEFINE lone == \A c \in Actors : ~Active(c)
<1>0. lone \in BOOLEAN
  OBVIOUS
<1> HIDE DEF lone
<1>1. ASSUME NEW c \in Calls, NEW h \in Names, StartDeploy(c, h) PROVE DeployInv'
  <2> DEFINE s == [Resting("list") EXCEPT !.op = "deploy", !.host = h]
  <2>1. Begin(c, s) /\ ~Active(c) /\ containers' = containers /\ c \in Actors
    BY <1>1 DEF StartDeploy, Active, Waits, remote, Actors
  <2>2. s.at = "list" /\ actors[c].at \in Unborn
    BY <1>1 DEF Resting, Unborn, StartDeploy
  <2>3. [s EXCEPT !.alone = lone] \in ActorType
    BY <1>0, RestingTyped DEF ActorType, Resting
  <2> HIDE DEF s
  <2> QED
    BY <2>1, <2>2, <2>3, BeginOnCourse DEF lone
<1>2. ASSUME NEW c \in Calls, NEW h \in Names, StartUndeploy(c, h) PROVE DeployInv'
  <2> DEFINE s == [Resting("get") EXCEPT !.op = "undeploy", !.host = h]
  <2>1. Begin(c, s) /\ ~Active(c) /\ containers' = containers /\ c \in Actors
    BY <1>2 DEF StartUndeploy, Active, Waits, remote, Actors
  <2>2. s.at = "get" /\ s.op = "undeploy"
    BY DEF Resting
  <2>3. [s EXCEPT !.alone = lone] \in ActorType
    BY <1>0, RestingTyped DEF ActorType, Resting
  <2> HIDE DEF s
  <2> QED
    BY <2>1, <2>2, <2>3, BeginOnCourse DEF lone, Unborn
<1>3. CASE StartJob
  <2> DEFINE s == Resting("ps")
  <2>1. Begin(Job, s) /\ ~Active(Job) /\ containers' = containers /\ Job \in Actors
    BY <1>3 DEF StartJob, Active, Waits, remote, Actors
  <2>2. s.at = "ps" /\ s.op = "none"
    BY DEF Resting
  <2>3. [s EXCEPT !.alone = lone] \in ActorType
    BY <1>0, RestingTyped DEF ActorType, Resting
  <2> HIDE DEF s
  <2> QED
    BY <2>1, <2>2, <2>3, BeginOnCourse DEF lone, Unborn
<1> QED
  BY <1>1, <1>2, <1>3

\* While the job works no deploy is alone; it touches no container.
LEMMA JobMovesOnCourse ==
  ASSUME IInv, DeployInv, Active(Job), NEW s, Go(Job, s), containers' = containers,
         s.at \notin Waits => s.alone = actors[Job].alone
  PROVE  DeployInv'
<1>1. Job \in Actors /\ Job \notin Calls
  BY DeployAssumption DEF Actors
<1>2. actors'[Job] = s /\ \A b \in Actors \ {Job} : actors'[b] = actors[b]
  BY <1>1, Moved
<1>3. Solo'
  BY <1>1, <1>2 DEF DeployInv, Solo, Active
<1>4. Fresh'
  BY <1>1, <1>2 DEF DeployInv, Fresh, Actors
<1>5. \A d \in Calls : ~Untroubled(d)'
  <2> SUFFICES ASSUME NEW d \in Calls, Untroubled(d)' PROVE FALSE
    OBVIOUS
  <2>1. d \in Actors /\ d # Job /\ Active(d) /\ actors[d].alone
    BY <1>1, <1>2 DEF Untroubled, Active, Actors
  <2> QED
    BY <1>1, <2>1 DEF DeployInv, Solo
<1> QED
  BY <1>3, <1>4, <1>5 DEF DeployInv

LEMMA JobStepOnCourse ==
  ASSUME IInv, DeployInv, JobStep
  PROVE  DeployInv'
<1> DEFINE kept(s) == s.at \notin Waits => s.alone = actors[Job].alone
<1>1. actors[Job] \in ActorType
  BY DEF IInv, TypeOK, Actors
<1>2. CASE StartJob
  BY <1>2, StartsOnCourse
<1>3. kept(Resting("off"))
  BY DEF Resting, Waits
<1>4. kept(At(Job, "list")) /\ kept(At(Job, "next"))
  BY <1>1 DEF At, ActorType
<1>5. CASE ReadContainers \/ ReadRoutes \/ Reported
  <2>1. Active(Job) /\ containers' = containers
    BY <1>5 DEF ReadContainers, ReadRoutes, Reported, Active, Waits, remote
  <2>2. \E s \in {At(Job, "list"), At(Job, "next"), Resting("off")} : Go(Job, s)
    BY <1>5 DEF ReadContainers, ReadRoutes, Reported, Go
  <2> HIDE DEF kept
  <2>3. \A s : Go(Job, s) /\ kept(s) => DeployInv'
    BY <2>1, JobMovesOnCourse DEF kept
  <2> QED
    BY <1>3, <1>4, <2>2, <2>3
<1>6. CASE RemoveOrphanedRoute
  <2> DEFINE s(h) == [At(Job, "get") EXCEPT !.op = "orphan", !.host = h]
  <2>1. PICK h \in orphans : Go(Job, s(h))
    BY <1>6 DEF RemoveOrphanedRoute, Go
  <2>2. s(h).alone = actors[Job].alone
    BY <1>1 DEF At, ActorType
  <2>3. Active(Job) /\ containers' = containers
    BY <1>6 DEF RemoveOrphanedRoute, Active, Waits, remote
  <2> HIDE DEF s
  <2> QED
    BY <2>1, <2>2, <2>3, JobMovesOnCourse
<1>7. CASE HealMissingRoute
  <2> DEFINE s(h) == [At(Job, "get") EXCEPT !.op = "heal", !.host = h, !.port = view[h]]
  <2>1. PICK h \in heals : Go(Job, s(h))
    BY <1>7 DEF HealMissingRoute, Go
  <2>2. s(h).alone = actors[Job].alone
    BY <1>1 DEF At, ActorType
  <2>3. Active(Job) /\ containers' = containers
    BY <1>7 DEF HealMissingRoute, Active, Waits, remote
  <2> HIDE DEF s
  <2> QED
    BY <2>1, <2>2, <2>3, JobMovesOnCourse
<1>8. CASE GetRoutes(Job) \/ PutRoutes(Job) \/ EditDns(Job)
  <2>1. Active(Job) /\ containers' = containers
    BY <1>8 DEF GetRoutes, PutRoutes, EditDns, Active, Waits, remote
  <2> DEFINE read == [At(Job, "put") EXCEPT !.seen = routes]
             put(r) == [AfterEdit(Job, r.ok) EXCEPT !.seen = [h \in Names |-> None]]
  <2>2. CASE GetRoutes(Job)
    <3>1. PICK r \in Answers : Go(Job, IF r.ok THEN read ELSE AfterEdit(Job, FALSE))
      BY <2>2 DEF GetRoutes
    <3>2. read.alone = actors[Job].alone
      BY <1>1 DEF At, ActorType
    <3>3. AfterEdit(Job, FALSE).alone = actors[Job].alone
      BY <2>2, AfterEditOfJob DEF GetRoutes
    <3> HIDE DEF read
    <3> QED
      BY <2>1, <3>1, <3>2, <3>3, JobMovesOnCourse
  <2>3. CASE PutRoutes(Job)
    <3>1. PICK r \in Answers : Go(Job, put(r))
      BY <2>3 DEF PutRoutes
    <3>2. AfterEdit(Job, r.ok).alone = actors[Job].alone /\ AfterEdit(Job, r.ok) \in ActorType
      BY <2>3, AnswersTyped, AfterEditOfJob DEF PutRoutes
    <3>3. put(r).alone = actors[Job].alone
      BY <3>2 DEF ActorType
    <3> HIDE DEF put
    <3> QED
      BY <2>1, <3>1, <3>3, JobMovesOnCourse
  <2>4. CASE EditDns(Job)
    <3>1. Go(Job, EndOf(Job))
      <4>1. actors[Job].op \in {"orphan", "heal"}
        BY <2>4 DEF EditDns, IInv, Good, Actors
      <4> QED
        BY <2>4, <4>1 DEF EditDns
    <3>2. EndOf(Job).alone = actors[Job].alone
      <4>1. Resting("next") \in ActorType
        BY RestingTyped
      <4> QED
        BY <4>1 DEF EndOf, ActorType
    <3> QED
      BY <2>1, <3>1, <3>2, JobMovesOnCourse
  <2> QED
    BY <1>8, <2>2, <2>3, <2>4
<1> QED
  BY <1>2, <1>5, <1>6, <1>7, <1>8 DEF JobStep

\* What people and crashes do is trouble, and creates no container.
LEMMA TroubleOnCourse ==
  ASSUME IInv, DeployInv,
         Crash \/ \E k \in Containers : StopContainer(k) \/ StartContainer(k)
  PROVE  DeployInv'
<1>1. trouble' # 0
  BY DeployAssumption
  DEF IInv, TypeOK, Crash, StopContainer, StartContainer, Handled
<1>2. CASE Crash
  <2>1. \A a \in Actors : /\ ~Active(a)'
                          /\ a # Job /\ ~Active(a) => actors'[a] = actors[a]
                          /\ Active(a) \/ a = Job => actors'[a].at \notin Unborn
    BY <1>2 DEF Crash, Active, Resting, Waits, Unborn
  <2>2. containers' = containers /\ Calls \subseteq Actors /\ Job \notin Calls
    BY <1>2, DeployAssumption DEF Crash, remote, Actors
  <2> QED
    BY <1>1, <2>1, <2>2 DEF DeployInv, Solo, Fresh, Untroubled
<1>3. ASSUME NEW k \in Containers, StopContainer(k) \/ StartContainer(k) PROVE DeployInv'
  <2>1. \A d \in Containers : containers[d] = NoContainer => containers'[d] = containers[d]
    BY <1>3 DEF StopContainer, StartContainer, Handled, NoContainer, IInv, TypeOK
  <2>2. actors' = actors /\ Calls \subseteq Containers
    BY <1>3 DEF StopContainer, StartContainer, Handled, Containers
  <2> QED
    BY <1>1, <2>1, <2>2 DEF DeployInv, Solo, Fresh, Untroubled, Active
<1> QED
  BY <1>2, <1>3

LEMMA DeployKeeps == IInv /\ DeployInv /\ [Next]_vars => DeployInv'
<1> SUFFICES ASSUME IInv, DeployInv, [Next]_vars PROVE DeployInv'
  OBVIOUS
<1>1. ASSUME NEW c \in Calls, CallStep(c) PROVE DeployInv'
  BY <1>1, CallStepOnCourse
<1>2. CASE UNCHANGED vars
  BY <1>2
  DEF vars, remote, job, DeployInv, Solo, Fresh, Untroubled, OnCourse, Active, Of
<1> QED
  BY <1>1, <1>2, StartsOnCourse, JobStepOnCourse, TroubleOnCourse DEF Next

\* The last step of a deploy that succeeds is its CNAME.
LEMMA SuccessIsServed ==
  ASSUME IInv, DeployInv, [Next]_vars, NEW c \in Calls,
         Succeeds(c), actors[c].alone, trouble' = 0
  PROVE  LET h == actors[c].host
         IN /\ Of(containers', h) = {c}
            /\ containers'[c].state = "running"
            /\ routes'[h] = containers'[c].port
            /\ h \in dns'
<1>1. /\ actors[c].op = "deploy" /\ actors[c].at = "dns" /\ Active(c)
      /\ actors'[c].at = "ended" /\ c \in Actors /\ c # Job
  BY DeployAssumption DEF Succeeds, Active, Waits, Actors
<1>2. \A a \in Actors : Active(a) => a = c
  BY <1>1 DEF DeployInv, Solo
<1>3. ASSUME NEW a \in Actors, NEW s, Begin(a, s), ~Active(a) PROVE FALSE
  <2>1. actors'[c] = [actors[c] EXCEPT !.alone = FALSE]
    BY <1>1, <1>3 DEF Begin
  <2> QED
    BY <1>1, <2>1 DEF IInv, TypeOK, ActorType
<1>4. EditDns(c)
  <2>1. ASSUME NEW d \in Calls, NEW h \in Names, StartDeploy(d, h) \/ StartUndeploy(d, h)
        PROVE  FALSE
    BY <1>3, <2>1 DEF StartDeploy, StartUndeploy, Active, Waits, Actors
  <2>2. ASSUME NEW d \in Calls, CallStep(d) PROVE EditDns(c)
    <3>1. d = c
      BY <1>2, <2>2, CallActs
    <3> QED
      BY <1>1, <2>2, <3>1
      DEF CallStep, ListOld, RemoveOld, SelectPort, RunContainer, PortTaken,
          RollbackContainer, FindRunning, RemoveFound, GetRoutes, PutRoutes
  <2>3. ~JobStep
    <3>1. ~Active(Job) /\ Job \in Actors
      BY <1>1, <1>2 DEF Actors
    <3>2. ~StartJob
      BY <1>3, <3>1 DEF StartJob
    <3> QED
      BY <3>1, <3>2
      DEF JobStep, ReadContainers, ReadRoutes, RemoveOrphanedRoute, HealMissingRoute,
          Reported, GetRoutes, PutRoutes, EditDns, Active, Waits
  <2>4. ~Crash /\ \A k \in Containers : ~StopContainer(k) /\ ~StartContainer(k)
    BY DeployAssumption DEF IInv, TypeOK, Crash, StopContainer, StartContainer, Handled
  <2>5. ~UNCHANGED vars
    BY <1>1 DEF vars
  <2> QED
    BY <2>1, <2>2, <2>3, <2>4, <2>5 DEF Next
<1>5. PICK r \in Answers :
        /\ Counted(r)
        /\ dns' = IF ~r.done THEN dns
                  ELSE IF Adds(c) THEN dns \cup {actors[c].host}
                  ELSE dns \ {actors[c].host}
  BY <1>4 DEF EditDns
<1>6. r.done /\ trouble = 0
  BY <1>5, NoTrouble
<1>7. OnCourse(c)
  BY <1>1, <1>6 DEF DeployInv, Untroubled
<1>8. actors[c].host \in dns'
  BY <1>1, <1>5, <1>6 DEF Adds
<1>9. containers' = containers /\ routes' = routes
  BY <1>4 DEF EditDns
<1> QED
  BY <1>1, <1>7, <1>8, <1>9 DEF OnCourse

\* A deploy that reports success, alone at work and without a step that failed,
\* has left exactly its own container to its hostname, running, with the route
\* and the CNAME that lead to it.
THEOREM OkMeansServedCorrect == Spec => OkMeansServed
<1>1. Init => DeployInv
  <2> SUFFICES ASSUME Init PROVE DeployInv
    OBVIOUS
  <2>1. \A a \in Actors : ~Active(a)
    BY DEF Init, Active, Resting, Waits
  <2>2. Fresh
    BY DEF Init, Fresh
  <2>3. Calls \subseteq Actors
    BY DEF Actors
  <2> QED
    BY <2>1, <2>2, <2>3 DEF DeployInv, Solo, Untroubled
<1>2. IInv /\ DeployInv /\ [Next]_vars =>
        [\A c \in Calls :
           Succeeds(c) /\ actors[c].alone /\ trouble' = 0
           => LET h == actors[c].host
              IN /\ Of(containers', h) = {c}
                 /\ containers'[c].state = "running"
                 /\ routes'[h] = containers'[c].port
                 /\ h \in dns']_vars
  BY SuccessIsServed
<1> QED
  BY <1>1, <1>2, InitHolds, NextKeeps, DeployKeeps, PTL DEF Spec, OkMeansServed
===============================================================================
