------------------------ MODULE DockerDatabasesProofs ------------------------
(***************************************************************************)
(* What DockerDatabases promises for every set of connections, containers, *)
(* ports and callers.  The two stores are never written together; what     *)
(* ties them is who can name a uuid or a container at all.  UuidInv: a     *)
(* uuid belongs to the command that generated it until its row is saved,   *)
(* and no row comes back.  ContainerInv and PrivateInv: nobody refers to a *)
(* container that is not there yet or that is being created.  RowInv and   *)
(* LinkInv: the labels of what a row or a command refers to.               *)
(***************************************************************************)
EXTENDS DockerDatabases, FiniteSetTheorems, TLAPS

\* The stages of each command.
Path(j) ==
    CASE j = "none" -> {"idle"}
      [] j = "create" -> {"run", "lookup", "inspect", "probe", "insert", "remove", "removeVolume"}
      [] j = "link" -> {"prepare", "probe", "insert"}
      [] j = "open" -> {"lock", "getLink", "resolve", "find", "identity", "ensure", "inspect",
                        "endpoint", "probe"}
      [] j = "control" -> {"getLink", "resolve", "find", "identity", "control"}
      [] j = "states" -> {"getLink", "resolve", "find", "identity"}
      [] j = "delete" -> {"lock", "deleteRow"}
      [] j = "purge" -> {"lock", "deleteRow", "resolve", "find", "identity", "remove", "removeVolume"}
      [] OTHER -> {"stopAll"}

CommandInv ==
    \A t \in Caller :
        /\ pc[t] \in Path(job[t])
        /\ job[t] \in {"none", "exit"} => at[t] = None
        /\ job[t] \notin {"none", "exit"} => at[t] \in Connection
        /\ job[t] \in {"open", "delete", "purge"} /\ pc[t] # "lock" => lock[at[t]] = t

\* A uuid is used by the command that generated it alone until its row is saved.
Making(t) == job[t] \in {"create", "link"}

UuidInv ==
    /\ \A u \in fresh : /\ rows[u] = None /\ u \notin volumes /\ u \notin cleaned
                        /\ \A c \in Container : container[c].label # u
    /\ \A t \in Caller : at[t] \notin fresh
    /\ \A t \in Caller : Making(t) => rows[at[t]] = None /\ \A s \in Caller \ {t} : at[s] # at[t]
    /\ \A t \in Caller : job[t] = "purge" /\ pc[t] \notin {"lock", "deleteRow"} => rows[at[t]] = None

Refers(t, c) == c \in cid[t] \/ (link[t] # None /\ link[t].id = c)
Saves(u, c) == rows[u] # None /\ rows[u].id = c

\* A container has a host port while it runs, and nobody refers to one that
\* was not made yet.
ContainerInv ==
    \A c \in Container :
        /\ container[c].port # None <=> Running(c)
        /\ container[c].status = "unused" =>
              /\ container[c].label = None
              /\ \A t \in Caller : ~Refers(t, c)
              /\ \A u \in Connection : ~Saves(u, c)

\* Nor does anybody but its creator to one whose creation is under way.
PrivateInv ==
    \A t \in Caller, c \in Container : job[t] = "create" /\ container[c].label = at[t] =>
        /\ \A s \in Caller \ {t} : ~Refers(s, c)
        /\ \A u \in Connection : ~Saves(u, c)

\* A link and the labels of its container.
Fits(l, u) ==
    /\ l.own = "created" => container[l.id].label = u /\ l.service = None
    /\ l.service # None => container[l.id].label = l.service

RowInv == \A u \in Connection : rows[u] # None => Fits(rows[u], u)

\* A command that has read the link of a connection that was saved.
Reading(t) ==
    /\ job[t] \in {"open", "control", "states", "purge"}
    /\ pc[t] \notin {"lock", "getLink", "deleteRow"}

LinkInv ==
    \A t \in Caller :
        /\ job[t] = "create" => \A c \in cid[t] : container[c].label = at[t]
        /\ Making(t) /\ pc[t] \in {"probe", "insert"} =>
              /\ link[t] # None
              /\ Fits(link[t], at[t])
              /\ link[t].own = "created" <=> job[t] = "create"
              /\ link[t].port \in Port <=> job[t] = "create"
        /\ job[t] = "open" => \A c \in cid[t] : container[c].label = at[t]
        /\ job[t] = "exit" => \A c \in cid[t] : container[c].label \in Connection
        /\ Reading(t) =>
              /\ link[t] # None
              /\ job[t] = "open" => link[t].own = "created"
              /\ rows[at[t]] # None => rows[at[t]].own = link[t].own /\ rows[at[t]].service = link[t].service
              /\ link[t].own = "created" => link[t].service = None
              /\ pc[t] = "identity" => \A c \in cid[t] : container[c].label = Wanted(t)

\* The volume of a creation that goes well is there, and a creation whose run
\* failed left a volume only if it left a container.
VolumeInv ==
    /\ SavedDataIsKept
    /\ NothingLeftBehind
    /\ \A t \in Caller : job[t] = "create" =>
          /\ pc[t] \in {"inspect", "probe", "insert"} => at[t] \in volumes
          /\ pc[t] = "run" => /\ at[t] \notin volumes /\ at[t] \notin cleaned
                              /\ \A c \in Container : container[c].label # at[t]
          /\ pc[t] = "lookup" => (Labelled(at[t]) = {} => at[t] \notin volumes)

\* What an open read is what its one container has, unless it was moved; its
\* row is there, for nobody else has the connect lock.
AsRead(t) ==
    ~moved[t] => \A c \in cid[t] :
        /\ pc[t] \in {"identity", "endpoint"} => link[t].port = container[c].port
        /\ pc[t] = "probe" => (Running(c) => rows[at[t]].port = container[c].port)

OpenInv ==
    \A t \in Caller : job[t] = "open" =>
        /\ \A c, d \in cid[t] : c = d
        /\ pc[t] \notin {"lock", "getLink"} => rows[at[t]] # None
        /\ AsRead(t)

-----------------------------------------------------------------------------
(* What docker commands do to the containers. *)

Record == [status: {"unused", "running", "stopped", "gone"},
           label: Connection \cup {Service, None},
           port: Port \cup {None}]

\* A container's status and port fit together.
Sound(r) == r.port # None <=> r.status = "running"

\* A container that was made keeps its label, one that was not made stays so,
\* but for those that are made in this step, and one that is gone stays gone.
Keeps(d) ==
    /\ container'[d].label = container[d].label
    /\ container[d].status = "unused" => container'[d] = container[d]
    /\ container'[d].status = "unused" => container[d].status = "unused"
    /\ container[d].status = "gone" => container'[d].status = "gone"

LEMMA CommandEffects ==
    ASSUME TypeOK, ContainerInv, NEW c \in Container, NEW cs \in SUBSET Container,
           Starts(c) \/ Restarts(c) \/ Stops(cs) \/ UNCHANGED container
                     \/ (Removes(c) /\ container[c].status # "unused")
    PROVE  /\ container' \in [Container -> Record]
           /\ \A d \in Container : Keeps(d) /\ Sound(container'[d])
<1> USE DockerAssumption
<1>1. container \in [Container -> Record]
  BY DEF TypeOK, Record
<1>2. \A d \in Container : Sound(container[d])
  BY DEF ContainerInv, Sound, Running
<1>3. CASE UNCHANGED container
  BY <1>1, <1>2, <1>3 DEF Keeps
\* The three commands that set the status and the port of one container.
<1>4. ASSUME NEW s \in {"running", "stopped", "gone"}, NEW p \in Port \cup {None},
             p # None <=> s = "running", container[c].status # "unused", s = "gone" \/ Exists(c),
             container' = [container EXCEPT ![c].status = s, ![c].port = p]
      PROVE  /\ container' \in [Container -> Record]
             /\ \A d \in Container : Keeps(d) /\ Sound(container'[d])
  <2>1. container'[c] = [container[c] EXCEPT !.status = s, !.port = p]
    BY <1>1, <1>4
  <2>2. /\ container'[c].status = s /\ container'[c].port = p
        /\ container'[c].label = container[c].label /\ container'[c] \in Record
    BY <1>1, <2>1 DEF Record
  <2>3. \A d \in Container : d # c => container'[d] = container[d]
    BY <1>1, <1>4
  <2>4. container' \in [Container -> Record]
    BY <1>1, <1>4, <2>2
  <2>5. Keeps(c) /\ Sound(container'[c])
    BY <1>4, <2>2 DEF Keeps, Sound, Exists
  <2>6. \A d \in Container : d # c => Keeps(d) /\ Sound(container'[d])
    BY <1>2, <2>3 DEF Keeps
  <2> QED
    BY <2>4, <2>5, <2>6
<1>5. FreePort \subseteq Port
  BY DEF FreePort
<1>6. CASE Starts(c)
  <2>1. CASE Running(c)
    BY <1>3, <1>6, <2>1 DEF Starts
  <2>2. CASE ~Running(c)
    <3>1. PICK p \in FreePort : container' = [container EXCEPT ![c].status = "running", ![c].port = p]
      BY <1>6, <2>2 DEF Starts
    <3> QED
      BY <1>4, <1>5, <1>6, <2>2, <3>1 DEF Starts, Exists
  <2> QED
    BY <2>1, <2>2
<1>7. CASE Restarts(c)
  <2>1. PICK p \in FreePort \cup ({container[c].port} \ {None}) :
            container' = [container EXCEPT ![c].status = "running", ![c].port = p]
    BY <1>7 DEF Restarts
  <2>2. p \in Port /\ p # None
    BY <1>1, <1>5 DEF Record
  <2> QED
    BY <1>4, <1>7, <2>1, <2>2 DEF Restarts, Exists
<1>8. CASE Removes(c) /\ container[c].status # "unused"
  BY <1>4, <1>8 DEF Removes
<1>9. CASE Stops(cs)
  <2>1. container' = [d \in Container |->
            IF d \in cs /\ Exists(d) THEN [container[d] EXCEPT !.status = "stopped", !.port = None]
            ELSE container[d]]
    BY <1>9 DEF Stops
  <2> SUFFICES ASSUME NEW d \in Container
               PROVE  container'[d] \in Record /\ Keeps(d) /\ Sound(container'[d])
    BY <2>1
  <2>2. CASE d \in cs /\ Exists(d)
    <3>1. container'[d] = [container[d] EXCEPT !.status = "stopped", !.port = None]
      BY <2>1, <2>2
    <3>2. /\ container'[d].status = "stopped" /\ container'[d].port = None
          /\ container'[d].label = container[d].label /\ container'[d] \in Record
      BY <1>1, <3>1 DEF Record
    <3> QED
      BY <2>2, <3>2 DEF Exists, Keeps, Sound
  <2>3. CASE ~(d \in cs /\ Exists(d))
    BY <1>1, <1>2, <2>1, <2>3 DEF Keeps
  <2> QED
    BY <2>2, <2>3
<1> QED
  BY <1>3, <1>6, <1>7, <1>8, <1>9

\* A container that is made has the label its maker gives it.
LEMMA MakeEffects ==
    ASSUME TypeOK, ContainerInv, NEW c \in Container, NEW l \in Connection \cup {Service}, Makes(c, l)
    PROVE  /\ container' \in [Container -> Record]
           /\ \A d \in Container : (d # c => container'[d] = container[d]) /\ Sound(container'[d])
           /\ container[c].status = "unused" /\ container'[c].label = l
           /\ container'[c].status \in {"running", "stopped"}
<1> USE DockerAssumption
<1>1. container \in [Container -> Record] /\ \A d \in Container : Sound(container[d])
  BY DEF TypeOK, Record, ContainerInv, Sound, Running
<1>2. ASSUME NEW s \in {"running", "stopped"}, NEW p \in Port \cup {None},
             p # None <=> s = "running",
             container' = [container EXCEPT ![c] = [status |-> s, label |-> l, port |-> p]]
      PROVE  /\ container' \in [Container -> Record]
             /\ \A d \in Container : (d # c => container'[d] = container[d]) /\ Sound(container'[d])
             /\ container'[c].label = l /\ container'[c].status \in {"running", "stopped"}
  <2>1. container'[c] = [status |-> s, label |-> l, port |-> p]
    BY <1>1, <1>2
  <2>2. container'[c] \in Record /\ Sound(container'[c])
    BY <1>2, <2>1 DEF Record, Sound
  <2> QED
    BY <1>1, <1>2, <2>1, <2>2
<1>3. FreePort \subseteq Port
  BY DEF FreePort
<1> QED
  BY <1>2, <1>3 DEF Makes

\* Nothing but a removal makes an existing container go.
LEMMA CommandsKeep ==
    ASSUME TypeOK, NEW c \in Container, NEW cs \in SUBSET Container,
           Starts(c) \/ Restarts(c) \/ Stops(cs) \/ UNCHANGED container,
           NEW d \in Container, Exists(d)
    PROVE  Exists(d)'
<1>1. ASSUME NEW p, container' = [container EXCEPT ![c].status = "running", ![c].port = p]
      PROVE  Exists(d)'
  BY <1>1 DEF TypeOK, Exists
<1>2. CASE Stops(cs)
  <2>1. container' = [e \in Container |->
            IF e \in cs /\ Exists(e) THEN [container[e] EXCEPT !.status = "stopped", !.port = None]
            ELSE container[e]]
    BY <1>2 DEF Stops
  <2>2. CASE d \in cs
    <3>1. container'[d] = [container[d] EXCEPT !.status = "stopped", !.port = None]
      BY <2>1, <2>2
    <3>2. container'[d].status = "stopped"
      BY <3>1 DEF TypeOK
    <3> QED
      BY <3>2 DEF Exists
  <2>3. CASE d \notin cs
    BY <2>1, <2>3 DEF Exists
  <2> QED
    BY <2>2, <2>3
<1>3. CASE UNCHANGED container
  BY <1>3 DEF Exists
<1> QED
  BY <1>1, <1>2, <1>3 DEF Starts, Restarts

LEMMA RecreateEffects ==
    ASSUME TypeOK, ContainerInv, NEW c \in Container, NEW d \in Container, UserRecreates(c, d)
    PROVE  /\ container' \in [Container -> Record]
           /\ \A e \in Container : (e # d => Keeps(e)) /\ Sound(container'[e])
           /\ \A e \in Container : e \notin {c, d} => container'[e] = container[e]
           /\ container[d].status = "unused" /\ container'[d].label = container[c].label
           /\ container'[d].status = "running" /\ Exists(c) /\ Known(c)
<1> USE DockerAssumption
<1>1. container \in [Container -> Record] /\ \A e \in Container : Sound(container[e])
  BY DEF TypeOK, Record, ContainerInv, Sound, Running
<1>2. Exists(c) /\ Known(c) /\ container[d].status = "unused" /\ c # d
  BY DEF UserRecreates, Exists
<1>3. PICK p \in FreePort, old \in {container[c], [container[c] EXCEPT !.status = "gone", !.port = None]} :
          container' = [container EXCEPT
                 ![c] = old,
                 ![d] = [status |-> "running", label |-> container[c].label, port |-> p]]
  BY DEF UserRecreates
<1>4. p \in Port
  BY DEF FreePort
<1>5. /\ container'[d] = [status |-> "running", label |-> container[c].label, port |-> p]
      /\ container'[c] = old /\ \A e \in Container : e \notin {c, d} => container'[e] = container[e]
  BY <1>1, <1>2, <1>3
<1>6. container'[d] \in Record /\ Sound(container'[d])
  BY <1>1, <1>4, <1>5 DEF Record, Sound
<1>7. old \in Record /\ old.label = container[c].label /\ Sound(old) /\ old.status # "unused"
  <2>1. CASE old = container[c]
    BY <1>1, <1>2, <2>1 DEF Exists
  <2>2. CASE old = [container[c] EXCEPT !.status = "gone", !.port = None]
    <3>1. old.status = "gone" /\ old.port = None /\ old.label = container[c].label /\ old \in Record
      BY <1>1, <2>2 DEF Record
    <3> QED
      BY <3>1 DEF Sound
  <2> QED
    BY <1>3, <2>1, <2>2
<1>8. Keeps(c) /\ Sound(container'[c])
  BY <1>2, <1>5, <1>7 DEF Keeps, Exists
<1>9. \A e \in Container : e \notin {c, d} => Keeps(e) /\ Sound(container'[e])
  BY <1>1, <1>5 DEF Keeps
<1>10. container' \in [Container -> Record]
  BY <1>1, <1>3, <1>5, <1>6, <1>7
<1> QED
  BY <1>2, <1>5, <1>6, <1>8, <1>9, <1>10

-----------------------------------------------------------------------------
(* Steps of one command. *)

OthersStay(t) ==
    /\ \A s \in Caller \ {t} : /\ pc'[s] = pc[s] /\ job'[s] = job[s] /\ at'[s] = at[s]
                               /\ link'[s] = link[s] /\ cid'[s] = cid[s]
    /\ \A u \in Connection : lock[u] \notin {t, None} => lock'[u] = lock[u]

\* A command that moves on to another stage of it.
MovesOn(t) ==
    /\ pc[t] # "lock"
    /\ OthersStay(t)
    /\ UNCHANGED <<job, at, lock>>
    /\ pc'[t] \in Path(job[t]) \ {"lock"}

LEMMA ReturnsAlone ==
    ASSUME TypeOK, NEW t \in Caller, Return(t)
    PROVE  /\ OthersStay(t)
           /\ pc'[t] = "idle" /\ job'[t] = "none" /\ at'[t] = None /\ link'[t] = None /\ cid'[t] = {}
           /\ pc' \in [Caller -> Stage] /\ job' \in [Caller -> Job]
           /\ at' \in [Caller -> Connection \cup {None}] /\ link' \in [Caller -> Link \cup {None}]
           /\ cid' \in [Caller -> SUBSET Container] /\ failed' \in [Caller -> BOOLEAN]
           /\ lock' \in [Connection -> Caller \cup {None}]
<1>1. OthersStay(t) /\ pc'[t] = "idle" /\ job'[t] = "none" /\ at'[t] = None /\ link'[t] = None /\ cid'[t] = {}
  <2>1. lock' = [u \in Connection |-> IF lock[u] \in {t} THEN None ELSE lock[u]]
    BY DEF Return, End
  <2>2. \A u \in Connection : lock[u] # t => lock'[u] = lock[u]
    BY <2>1
  <2> QED
    BY <2>2 DEF Return, End, OthersStay
<1>2. pc' \in [Caller -> Stage] /\ job' \in [Caller -> Job]
  BY DEF Return, End, TypeOK, Stage, Job
<1>3. at' \in [Caller -> Connection \cup {None}] /\ link' \in [Caller -> Link \cup {None}]
      /\ cid' \in [Caller -> SUBSET Container]
  BY DEF Return, End, TypeOK
<1>4. failed' \in [Caller -> BOOLEAN]
  BY DEF Return, End, TypeOK
<1>5. lock' \in [Connection -> Caller \cup {None}]
  BY DEF Return, End, TypeOK
<1> QED
  BY <1>1, <1>2, <1>3, <1>4, <1>5

\* The application is gone.
LEMMA LeaveEnds ==
    ASSUME TypeOK, NEW how \in {"clean", "failed"}, Leave(how)
    PROVE  /\ \A t \in Caller : /\ pc'[t] = "idle" /\ job'[t] = "none" /\ at'[t] = None
                                /\ link'[t] = None /\ cid'[t] = {} /\ moved'[t] = FALSE
           /\ \A u \in Connection : lock'[u] = None
           /\ pc' \in [Caller -> Stage] /\ job' \in [Caller -> Job]
           /\ at' \in [Caller -> Connection \cup {None}] /\ link' \in [Caller -> Link \cup {None}]
           /\ cid' \in [Caller -> SUBSET Container] /\ failed' \in [Caller -> BOOLEAN]
           /\ lock' \in [Connection -> Caller \cup {None}] /\ moved' \in [Caller -> BOOLEAN]
           /\ quit' \in {"no", "clean", "failed"}
<1>1. lock' = [u \in Connection |-> IF lock[u] \in Caller THEN None ELSE lock[u]]
  BY DEF Leave, End
<1>2. \A u \in Connection : lock'[u] = None
  BY <1>1 DEF TypeOK
<1>3. failed' \in [Caller -> BOOLEAN]
  BY DEF Leave, End, TypeOK
<1>4. /\ pc' \in [Caller -> Stage] /\ job' \in [Caller -> Job]
      /\ at' \in [Caller -> Connection \cup {None}] /\ link' \in [Caller -> Link \cup {None}]
      /\ cid' \in [Caller -> SUBSET Container]
  BY DEF Leave, End, Stage, Job
<1>5. lock' \in [Connection -> Caller \cup {None}]
  BY <1>1, <1>2
<1>6. moved' \in [Caller -> BOOLEAN] /\ quit' \in {"no", "clean", "failed"}
  BY DEF Leave
<1>7. \A t \in Caller : /\ pc'[t] = "idle" /\ job'[t] = "none" /\ at'[t] = None
                        /\ link'[t] = None /\ cid'[t] = {} /\ moved'[t] = FALSE
  BY DEF Leave, End
<1> QED
  BY <1>2, <1>3, <1>4, <1>5, <1>6, <1>7

\* The first stage of each command, and what it may know then.
LEMMA CallKinds ==
    ASSUME TypeOK, NEW t \in Caller, Calls(t)
    PROVE  \E j \in Job, s \in Stage, u \in Connection \cup {None}, cs \in SUBSET Container :
              /\ Call(t, j, s, u, cs)
              /\ s \in Path(j) /\ (j = "exit" <=> u = None) /\ j # "none"
              /\ \/ j = "create" /\ s = "run" /\ u \in fresh /\ fresh' = fresh \ {u} /\ cs = {}
                 \/ j = "link" /\ u \in fresh /\ fresh' = fresh \ {u}
                    /\ \E c \in Container : cs = {c} /\ Exists(c) /\ Known(c)
                 \/ j \in {"open", "delete", "purge"} /\ s = "lock" /\ rows[u] # None /\ u \in Connection
                    /\ fresh' = fresh /\ cs = {}
                 \/ j \in {"control", "states"} /\ s = "getLink" /\ rows[u] # None /\ u \in Connection
                    /\ fresh' = fresh /\ cs = {}
                 \/ j = "exit" /\ fresh' = fresh /\ cs = StopTargets
<1> USE DockerAssumption
<1>1. {} \in SUBSET Container /\ fresh \subseteq Connection
  BY DEF TypeOK
<1>2. ASSUME NEW u \in Connection, CallCreate(t, u)
      PROVE  Call(t, "create", "run", u, {}) /\ u \in fresh /\ fresh' = fresh \ {u}
             /\ "run" \in Path("create") /\ "create" \in Job /\ "run" \in Stage
  BY <1>2 DEF CallCreate, Path, Job, Stage
<1>3. ASSUME NEW u \in Connection, NEW c \in Container, CallLink(t, u, c)
      PROVE  Call(t, "link", "prepare", u, {c}) /\ u \in fresh /\ fresh' = fresh \ {u}
             /\ Exists(c) /\ Known(c) /\ {c} \in SUBSET Container
             /\ "prepare" \in Path("link") /\ "link" \in Job /\ "prepare" \in Stage
  BY <1>3 DEF CallLink, Path, Job, Stage
<1>4. ASSUME NEW u \in Connection, CallLocked(t, u)
      PROVE  \E j \in {"open", "delete", "purge"} :
                Call(t, j, "lock", u, {}) /\ rows[u] # None /\ fresh' = fresh
                /\ "lock" \in Path(j) /\ j \in Job /\ "lock" \in Stage
  BY <1>4 DEF CallLocked, Path, Job, Stage
<1>5. ASSUME NEW u \in Connection, CallUnlocked(t, u)
      PROVE  \E j \in {"control", "states"} :
                Call(t, j, "getLink", u, {}) /\ rows[u] # None /\ fresh' = fresh
                /\ "getLink" \in Path(j) /\ j \in Job /\ "getLink" \in Stage
  BY <1>5 DEF CallUnlocked, Path, Job, Stage
<1>6. ASSUME CallExit(t)
      PROVE  Call(t, "exit", "stopAll", None, StopTargets) /\ fresh' = fresh
             /\ "stopAll" \in Path("exit") /\ "exit" \in Job /\ "stopAll" \in Stage
  BY <1>6 DEF CallExit, Path, Job, Stage
<1>7. StopTargets \in SUBSET Container
  BY DEF StopTargets, TypeOK, Link
<1>8. CASE \E u \in Connection : CallCreate(t, u)
  BY <1>1, <1>2, <1>8
<1>9. CASE \E u \in Connection, c \in Container : CallLink(t, u, c)
  BY <1>1, <1>3, <1>9
<1>10. CASE \E u \in Connection : CallLocked(t, u)
  <2>1. PICK u \in Connection : CallLocked(t, u)
    BY <1>10
  <2>2. PICK j \in {"open", "delete", "purge"} :
            Call(t, j, "lock", u, {}) /\ rows[u] # None /\ fresh' = fresh
            /\ "lock" \in Path(j) /\ j \in Job /\ "lock" \in Stage
    BY <1>4, <2>1
  <2> QED
    BY <1>1, <2>2
<1>11. CASE \E u \in Connection : CallUnlocked(t, u)
  <2>1. PICK u \in Connection : CallUnlocked(t, u)
    BY <1>11
  <2>2. PICK j \in {"control", "states"} :
            Call(t, j, "getLink", u, {}) /\ rows[u] # None /\ fresh' = fresh
            /\ "getLink" \in Path(j) /\ j \in Job /\ "getLink" \in Stage
    BY <1>5, <2>1
  <2> QED
    BY <1>1, <2>2
<1>12. CASE CallExit(t)
  BY <1>6, <1>7, <1>12
<1> QED
  BY <1>8, <1>9, <1>10, <1>11, <1>12 DEF Calls

\* What a command that resolved its link goes on with.
LEMMA ResolvedKinds ==
    ASSUME TypeOK, CommandInv, NEW t \in Caller, NEW c \in Container, NEW p \in Port \cup {None},
           Resolved(t, c, p), pc[t] \in {"resolve", "identity"}, link[t] \in Link
    PROVE  \/ Return(t)
           \/ /\ MovesOn(t) /\ UNCHANGED failed
              /\ cid' = [cid EXCEPT ![t] = {c}]
              /\ link' = [link EXCEPT ![t] = [link[t] EXCEPT !.port = IF job[t] = "open" THEN p ELSE None]]
              /\ link'[t] \in Link /\ link'[t].own = link[t].own /\ link'[t].service = link[t].service
              /\ link'[t].id = link[t].id /\ link'[t].port = IF job[t] = "open" THEN p ELSE None
              /\ job[t] \in {"open", "control", "purge"}
              /\ pc' \in [Caller -> Stage]
              /\ pc'[t] = CASE job[t] = "control" -> "control"
                            [] job[t] = "purge" -> "remove"
                            [] OTHER -> IF p = None THEN "ensure" ELSE "endpoint"
<1>1. job[t] \in {"open", "control", "purge", "states"}
  BY DEF CommandInv, Path, TypeOK, Job
<1>2. CASE job[t] = "states"
  BY <1>2 DEF Resolved
<1>3. CASE job[t] # "states"
  <2> DEFINE q == IF job[t] = "open" THEN p ELSE None
             next == CASE job[t] = "control" -> "control"
                       [] job[t] = "purge" -> "remove"
                       [] OTHER -> IF p = None THEN "ensure" ELSE "endpoint"
  <2>1. /\ cid' = [cid EXCEPT ![t] = {c}] /\ link' = [link EXCEPT ![t].port = q]
        /\ pc' = [pc EXCEPT ![t] = next] /\ UNCHANGED <<lock, job, at, failed>>
    BY <1>3 DEF Resolved, Goto
  <2>2. q \in Port \cup {None} /\ next \in Path(job[t]) \ {"lock"} /\ next \in Stage
    BY <1>1, <1>3 DEF Path, Stage
  <2> HIDE DEF q, next
  <2>3. link' = [link EXCEPT ![t] = [link[t] EXCEPT !.port = q]]
    BY <2>1
  <2>4. link'[t] = [link[t] EXCEPT !.port = q]
    BY <2>3 DEF TypeOK
  <2>5. link'[t] \in Link /\ link'[t].own = link[t].own /\ link'[t].service = link[t].service
        /\ link'[t].id = link[t].id /\ link'[t].port = q
    BY <2>2, <2>4 DEF Link
  <2>6. pc' \in [Caller -> Stage] /\ pc'[t] = next
    BY <2>1, <2>2 DEF TypeOK
  <2>7. MovesOn(t)
    BY <2>1, <2>2, <2>3 DEF MovesOn, OthersStay, TypeOK
  <2> QED
    BY <1>1, <1>3, <2>1, <2>3, <2>5, <2>6, <2>7 DEF q, next
<1> QED
  BY <1>2, <1>3

LEMMA ResolvedGoes ==
    ASSUME TypeOK, CommandInv, NEW t \in Caller, NEW c \in Container, NEW p \in Port \cup {None},
           Resolved(t, c, p), pc[t] \in {"resolve", "identity"}, link[t] \in Link, ~Return(t)
    PROVE  /\ cid'[t] = {c} /\ link'[t] \in Link /\ link'[t].own = link[t].own
           /\ link'[t].service = link[t].service /\ link'[t].id = link[t].id
           /\ job[t] = "open" => link'[t].port = p
           /\ pc'[t] \in {"control", "remove", "ensure", "endpoint"}
           /\ pc'[t] = "remove" => job[t] = "purge"
           /\ job[t] = "open" => pc'[t] = IF p = None THEN "ensure" ELSE "endpoint"
<1>1. cid' = [cid EXCEPT ![t] = {c}]
  BY ResolvedKinds
<1>2. cid'[t] = {c}
  BY <1>1 DEF TypeOK
<1>3. /\ link'[t] \in Link /\ link'[t].own = link[t].own /\ link'[t].service = link[t].service
      /\ link'[t].id = link[t].id /\ link'[t].port = IF job[t] = "open" THEN p ELSE None
      /\ job[t] \in {"open", "control", "purge"}
      /\ pc'[t] = CASE job[t] = "control" -> "control"
                    [] job[t] = "purge" -> "remove"
                    [] OTHER -> IF p = None THEN "ensure" ELSE "endpoint"
  BY ResolvedKinds
<1>4. /\ pc'[t] \in {"control", "remove", "ensure", "endpoint"} /\ (pc'[t] = "remove" => job[t] = "purge")
      /\ job[t] = "open" => pc'[t] = IF p = None THEN "ensure" ELSE "endpoint"
  BY <1>3
<1> QED
  BY <1>2, <1>3, <1>4

LEMMA ReadingLink ==
    ASSUME TypeOK, CommandInv, LinkInv, NEW t \in Caller,
           pc[t] \in {"resolve", "find", "identity", "ensure", "endpoint"}
                \/ (pc[t] \in {"inspect", "probe"} /\ job[t] = "open")
    PROVE  Reading(t) /\ link[t] \in Link /\ at[t] \in Connection
<1>1. Reading(t)
  BY DEF CommandInv, Path, TypeOK, Job, Reading
<1>2. link[t] \in Link
  BY <1>1 DEF LinkInv, TypeOK
<1>3. at[t] \in Connection
  BY <1>1 DEF CommandInv, Reading
<1> QED
  BY <1>1, <1>2, <1>3

\* A command that does not call returns, moves on, or takes its connect lock.
LEMMA ContinueKinds ==
    ASSUME TypeOK, CommandInv, LinkInv, NEW t \in Caller, Continue(t), ~StopAll(t)
    PROVE  Return(t) \/ MovesOn(t) \/ Lock(t)
<1> DEFINE To(s) == /\ pc[t] # "lock" /\ pc' = [pc EXCEPT ![t] = s] /\ UNCHANGED <<lock, job, at>>
                    /\ \A r \in Caller \ {t} : link'[r] = link[r] /\ cid'[r] = cid[r]
<1>1. ASSUME NEW s \in Stage, To(s), s \in Path(job[t]) \ {"lock"}
      PROVE  MovesOn(t)
  BY <1>1 DEF MovesOn, OthersStay, TypeOK
<1>2. pc[t] \in Path(job[t]) /\ job[t] \in Job
  BY DEF CommandInv, TypeOK
<1>3. CASE Run(t)
  <2>1. To("inspect") \/ To("lookup")
    BY <1>3 DEF Run, Goto, TypeOK
  <2>2. job[t] = "create"
    BY <1>2, <1>3 DEF Run, Path, Job
  <2> QED
    BY <1>1, <2>1, <2>2 DEF Path, Stage
<1>4. CASE Lookup(t)
  <2>1. Return(t) \/ To("remove")
    BY <1>4 DEF Lookup, Goto, TypeOK
  <2>2. job[t] = "create"
    BY <1>2, <1>4 DEF Lookup, Path, Job
  <2> QED
    BY <1>1, <2>1, <2>2 DEF Path, Stage
<1>5. CASE Inspect(t)
  <2>1. job[t] \in {"create", "open"}
    BY <1>2, <1>5 DEF Inspect, Path, Job
  <2>2. \/ Return(t)
        \/ job[t] = "create" /\ To("remove")
        \/ job[t] = "create" /\ To("probe")
        \/ job[t] = "open" /\ To("endpoint")
    BY <1>5, <2>1 DEF Inspect, Goto, TypeOK
  <2> QED
    BY <1>1, <2>2 DEF Path, Stage
<1>6. CASE Prepare(t)
  <2>1. Return(t) \/ To("probe")
    BY <1>6 DEF Prepare, Goto, TypeOK
  <2>2. job[t] = "link"
    BY <1>2, <1>6 DEF Prepare, Path, Job
  <2> QED
    BY <1>1, <2>1, <2>2 DEF Path, Stage
<1>7. CASE Probe(t)
  <2>1. job[t] \in {"create", "link", "open"}
    BY <1>2, <1>7 DEF Probe, Path, Job
  <2>2. Return(t) \/ (job[t] # "open" /\ To("insert")) \/ (job[t] = "create" /\ To("remove"))
    BY <1>7 DEF Probe, Goto, TypeOK
  <2> QED
    BY <1>1, <2>1, <2>2 DEF Path, Stage
<1>8. CASE Insert(t)
  <2>1. Return(t) \/ (job[t] = "create" /\ To("remove"))
    BY <1>8 DEF Insert, Goto, TypeOK
  <2> QED
    BY <1>1, <2>1 DEF Path, Stage
<1>9. CASE Remove(t)
  <2>1. To("removeVolume")
    BY <1>9 DEF Remove, Goto, TypeOK
  <2>2. job[t] \in {"create", "purge"}
    BY <1>2, <1>9 DEF Remove, Path, Job
  <2> QED
    BY <1>1, <2>1, <2>2 DEF Path, Stage
<1>10. CASE RemoveVolume(t) \/ ResolveFails(t) \/ Control(t)
  BY <1>10 DEF RemoveVolume, ResolveFails, Control
<1>11. CASE DeleteRow(t)
  <2>1. Return(t) \/ (job[t] = "purge" /\ To("resolve"))
    BY <1>11 DEF DeleteRow, Goto, TypeOK
  <2> QED
    BY <1>1, <2>1 DEF Path, Stage
<1>12. CASE GetLink(t)
  <2>1. Return(t) \/ To("resolve")
    BY <1>12 DEF GetLink, Goto, TypeOK
  <2>2. job[t] \in {"open", "control", "states"}
    BY <1>2, <1>12 DEF GetLink, Path, Job
  <2> QED
    BY <1>1, <2>1, <2>2 DEF Path, Stage
<1>13. CASE Resolve(t)
  <2>1. pc[t] = "resolve" /\ link[t] \in Link
    BY <1>13, ReadingLink DEF Resolve
  <2>2. job[t] \in {"open", "control", "states", "purge"}
    BY <1>2, <2>1 DEF Path, Job
  <2>3. CASE To("find")
    BY <1>1, <2>2, <2>3 DEF Path, Stage
  <2>4. CASE Resolved(t, link[t].id, container[link[t].id].port)
    <3>1. link[t].id \in Container /\ container[link[t].id].port \in Port \cup {None}
      BY <2>1 DEF Link, TypeOK
    <3> QED
      BY <2>1, <2>4, <3>1, ResolvedKinds
  <2> QED
    BY <1>13, <2>3, <2>4 DEF Resolve, Goto
<1>14. CASE Find(t)
  <2>1. To("identity")
    BY <1>14 DEF Find, Goto, TypeOK
  <2>2. job[t] \in {"open", "control", "states", "purge"}
    BY <1>2, <1>14 DEF Find, Path, Job
  <2> QED
    BY <1>1, <2>1, <2>2 DEF Path, Stage
<1>15. CASE Identity(t)
  <2>1. PICK c \in cid[t] : Resolved(t, c, link[t].port)
    BY <1>15 DEF Identity
  <2>2. pc[t] = "identity" /\ link[t] \in Link
    BY <1>15, ReadingLink DEF Identity
  <2>3. c \in Container /\ link[t].port \in Port \cup {None}
    BY <2>2 DEF Link, TypeOK
  <2> QED
    BY <2>1, <2>2, <2>3, ResolvedKinds
<1>16. CASE Ensure(t)
  <2>1. Return(t) \/ To("inspect")
    BY <1>16 DEF Ensure, Goto, TypeOK
  <2>2. job[t] = "open"
    BY <1>2, <1>16 DEF Ensure, Path, Job
  <2> QED
    BY <1>1, <2>1, <2>2 DEF Path, Stage
<1>17. CASE Endpoint(t)
  <2>1. Return(t) \/ To("probe")
    BY <1>17 DEF Endpoint, Goto, TypeOK
  <2>2. job[t] = "open"
    BY <1>2, <1>17 DEF Endpoint, Path, Job
  <2> QED
    BY <1>1, <2>1, <2>2 DEF Path, Stage
<1> HIDE DEF To
<1> QED
  BY <1>3, <1>4, <1>5, <1>6, <1>7, <1>8, <1>9, <1>10, <1>11, <1>12, <1>13, <1>14, <1>15, <1>16,
     <1>17 DEF Continue

LEMMA LockKind ==
    ASSUME TypeOK, CommandInv, NEW t \in Caller, Lock(t)
    PROVE  /\ OthersStay(t) /\ UNCHANGED <<job, at, link, cid>>
           /\ job[t] \in {"open", "delete", "purge"} /\ at[t] \in Connection
           /\ pc' \in [Caller -> Stage] /\ pc'[t] = IF job[t] = "open" THEN "getLink" ELSE "deleteRow"
           /\ lock' \in [Connection -> Caller \cup {None}] /\ lock'[at[t]] = t
<1>1. job[t] \in {"open", "delete", "purge"} /\ at[t] \in Connection
  BY DEF Lock, CommandInv, Path, TypeOK, Job
<1> QED
  BY <1>1 DEF Lock, Goto, OthersStay, TypeOK, Stage

\* Who acts in a step: one command, the whole application, or somebody else.
LEMMA StepKinds ==
    ASSUME TypeOK, CommandInv, LinkInv, [Next]_vars
    PROVE  \/ \E t \in Caller : Calls(t)
           \/ \E t \in Caller : Continue(t) /\ ~StopAll(t) /\ (Return(t) \/ MovesOn(t) \/ Lock(t))
           \/ \E how \in {"clean", "failed"} : Leave(how) /\ UNCHANGED <<rows, fresh, volumes, heard>>
           \/ UNCHANGED <<caller, lock, rows, fresh, volumes, heard>>
<1>1. ASSUME NEW t \in Caller, StopAll(t)
      PROVE  \E how \in {"clean", "failed"} : Leave(how) /\ UNCHANGED <<rows, fresh, volumes, heard>>
  BY <1>1 DEF StopAll
<1>2. ASSUME Crash
      PROVE  Leave("failed") /\ UNCHANGED <<rows, fresh, volumes, heard>>
  BY <1>2 DEF Crash, world
<1>3. CASE Launch \/ UNCHANGED vars
  BY <1>3 DEF Launch, vars, world
<1>4. CASE User
  BY <1>4 DEF User, UserStarts, UserStops, UserRemoves, UserRecreates, Outside
<1> QED
  BY <1>1, <1>2, <1>3, <1>4, ContinueKinds DEF Next

LEMMA NextCommandInv ==
    ASSUME TypeOK, CommandInv, LinkInv, [Next]_vars
    PROVE  CommandInv'
<1> USE DockerAssumption
<1> DEFINE Fine(t) ==
        /\ pc[t] \in Path(job[t])
        /\ job[t] \in {"none", "exit"} => at[t] = None
        /\ job[t] \notin {"none", "exit"} => at[t] \in Connection
        /\ job[t] \in {"open", "delete", "purge"} /\ pc[t] # "lock" => lock[at[t]] = t
<1>1. \A t \in Caller : Fine(t)
  BY DEF CommandInv
<1>2. ASSUME NEW t \in Caller, OthersStay(t), Fine(t)'
      PROVE  CommandInv'
  <2> SUFFICES ASSUME NEW s \in Caller \ {t}
               PROVE  Fine(s)'
    BY <1>2 DEF CommandInv
  <2>1. Fine(s) /\ pc'[s] = pc[s] /\ job'[s] = job[s] /\ at'[s] = at[s]
    BY <1>1, <1>2 DEF OthersStay
  <2>2. job[s] \in {"open", "delete", "purge"} /\ pc[s] # "lock" => lock'[at[s]] = s
    BY <1>2, <2>1 DEF OthersStay
  <2> QED
    BY <2>1, <2>2
<1>3. ASSUME NEW t \in Caller, Calls(t)
      PROVE  CommandInv'
  <2>1. PICK j \in Job, s \in Stage, u \in Connection \cup {None}, cs \in SUBSET Container :
            /\ Call(t, j, s, u, cs)
            /\ s \in Path(j) /\ (j = "exit" <=> u = None) /\ j # "none"
            /\ (j \in {"open", "delete", "purge"} => s = "lock")
    BY <1>3, CallKinds
  <2>2. pc'[t] = s /\ job'[t] = j /\ at'[t] = u /\ OthersStay(t)
    BY <2>1 DEF Call, Goto, OthersStay, TypeOK
  <2> QED
    BY <1>2, <2>1, <2>2
<1>4. ASSUME NEW t \in Caller, Return(t) \/ MovesOn(t) \/ Lock(t)
      PROVE  CommandInv'
  <2>1. CASE Return(t)
    BY <1>2, <2>1, ReturnsAlone DEF Path
  <2>2. CASE MovesOn(t)
    BY <1>1, <1>2, <2>2 DEF MovesOn
  <2>3. CASE Lock(t)
    <3>1. pc'[t] \in Path(job[t])
      BY <2>3, LockKind DEF Path
    <3> QED
      BY <1>2, <2>3, <3>1, LockKind
  <2> QED
    BY <1>4, <2>1, <2>2, <2>3
<1>5. ASSUME NEW how \in {"clean", "failed"}, Leave(how)
      PROVE  CommandInv'
  BY <1>5, LeaveEnds DEF CommandInv, Path
<1>6. CASE UNCHANGED <<caller, lock, rows, fresh, volumes, heard>>
  BY <1>6 DEF CommandInv, caller
<1> QED
  BY <1>3, <1>4, <1>5, <1>6, StepKinds

-----------------------------------------------------------------------------
(* Types. *)

RowsOK(r) ==
    /\ r \in [Connection -> Link \cup {None}]
    /\ \A u \in Connection : r[u] # None => (r[u].own = "created" <=> r[u].port \in Port)

CallerOK ==
    /\ pc \in [Caller -> Stage] /\ job \in [Caller -> Job]
    /\ at \in [Caller -> Connection \cup {None}] /\ link \in [Caller -> Link \cup {None}]
    /\ cid \in [Caller -> SUBSET Container] /\ failed \in [Caller -> BOOLEAN]
    /\ lock \in [Connection -> Caller \cup {None}]

LEMMA ReturnOK ==
    ASSUME TypeOK, NEW t \in Caller, Return(t)
    PROVE  CallerOK'
BY ReturnsAlone DEF CallerOK

LEMMA MovesOK == Moves => moved' \in [Caller -> BOOLEAN]
<1> DEFINE m(t) == job'[t] = "open" /\ (moved[t] \/ \E c \in cid[t] : container'[c] # container[c])
<1>1. Moves => moved' = [t \in Caller |-> m(t)]
  BY DEF Moves
<1>2. \A t \in Caller : m(t) \in BOOLEAN
  OBVIOUS
<1> HIDE DEF m
<1> QED
  BY <1>1, <1>2

\* What an inspection, a preparation or a look at a row puts into a link.
LEMMA NewLinkOK ==
    ASSUME NEW own \in {"created", "linked"}, NEW c \in Container, NEW p \in Port \cup {None}
    PROVE  /\ NewLink(own, c, p) \in Link /\ NewLink(own, c, p).own = own
           /\ NewLink(own, c, p).id = c /\ NewLink(own, c, p).port = p
           /\ own = "created" => NewLink(own, c, p).service = None
           /\ NewLink(own, c, p).service # None => NewLink(own, c, p).service = container[c].label
BY DEF NewLink, Link

LEMMA WithPort ==
    ASSUME NEW l \in Link, NEW p \in Port \cup {None}
    PROVE  /\ [l EXCEPT !.port = p] \in Link /\ [l EXCEPT !.port = p].own = l.own
           /\ [l EXCEPT !.port = p].id = l.id /\ [l EXCEPT !.port = p].service = l.service
           /\ [l EXCEPT !.port = p].port = p
BY DEF Link

LEMMA WithId ==
    ASSUME NEW l \in Link, NEW c \in Container
    PROVE  /\ [l EXCEPT !.id = c] \in Link /\ [l EXCEPT !.id = c].own = l.own
           /\ [l EXCEPT !.id = c].id = c /\ [l EXCEPT !.id = c].service = l.service
           /\ [l EXCEPT !.id = c].port = l.port
BY DEF Link

\* The steps that write a row write one of the right kind.
LEMMA RowWrites ==
    ASSUME TypeOK, CommandInv, LinkInv, NEW t \in Caller, Insert(t) \/ DeleteRow(t) \/ Identity(t) \/ Endpoint(t)
    PROVE  /\ RowsOK(rows') /\ at[t] \in Connection
           /\ \A u \in Connection : u # at[t] => rows'[u] = rows[u]
           /\ Insert(t) => rows'[at[t]] \in {rows[at[t]], link[t]} /\ (~Return(t) => rows' = rows)
           /\ DeleteRow(t) => rows'[at[t]] \in {rows[at[t]], None}
           /\ Identity(t) => \/ rows[at[t]] = None /\ rows' = rows
                             \/ /\ rows[at[t]] # None /\ rows'[at[t]] # None
                                /\ \E c \in cid[t] : rows'[at[t]].id = c
                                /\ rows'[at[t]].own = rows[at[t]].own
                                /\ rows'[at[t]].service = rows[at[t]].service
                                /\ rows'[at[t]].port = rows[at[t]].port
           /\ Endpoint(t) => \/ rows' = rows /\ (Return(t) \/ link[t].port = None \/ rows[at[t]] = None)
                             \/ /\ rows[at[t]] # None /\ rows'[at[t]] # None
                                /\ rows'[at[t]].port = link[t].port
                                /\ rows'[at[t]].own = rows[at[t]].own
                                /\ rows'[at[t]].service = rows[at[t]].service
                                /\ rows'[at[t]].id = rows[at[t]].id
<1> USE DockerAssumption
<1>1. RowsOK(rows)
  BY DEF TypeOK, RowsOK
<1>2. at[t] \in Connection
  BY DEF Insert, DeleteRow, Identity, Endpoint, CommandInv, Path, TypeOK, Job
<1>3. ASSUME NEW l \in Link \cup {None}, rows' = [rows EXCEPT ![at[t]] = l],
             l # None => (l.own = "created" <=> l.port \in Port)
      PROVE  RowsOK(rows') /\ rows'[at[t]] = l /\ \A u \in Connection : u # at[t] => rows'[u] = rows[u]
  BY <1>1, <1>2, <1>3 DEF RowsOK
<1>4. CASE Insert(t)
  <2>1. pc[t] = "insert" /\ ((rows' = [rows EXCEPT ![at[t]] = link[t]] /\ Return(t)) \/ UNCHANGED rows)
        /\ pc[t] \notin {"deleteRow", "identity", "endpoint"}
    BY <1>4 DEF Insert
  <2>2. Making(t)
    BY <2>1 DEF CommandInv, Path, TypeOK, Job, Making
  <2>3. link[t] \in Link \cup {None} /\ (link[t].own = "created" <=> link[t].port \in Port)
    BY <2>1, <2>2 DEF LinkInv, TypeOK
  <2> QED
    BY <1>1, <1>2, <1>3, <1>4, <2>1, <2>3 DEF DeleteRow, Identity, Endpoint
<1>5. CASE DeleteRow(t)
  <2>1. pc[t] = "deleteRow" /\ (rows' = [rows EXCEPT ![at[t]] = None] \/ UNCHANGED rows)
    BY <1>5 DEF DeleteRow
  <2> QED
    BY <1>1, <1>2, <1>3, <2>1 DEF Insert, Identity, Endpoint
<1>6. CASE Identity(t)
  <2>1. pc[t] = "identity"
    BY <1>6 DEF Identity
  <2>2. PICK c \in cid[t] : rows' = IF rows[at[t]] = None THEN rows ELSE [rows EXCEPT ![at[t]].id = c]
    BY <1>6 DEF Identity
  <2>3. CASE rows[at[t]] = None
    BY <1>1, <1>2, <2>1, <2>2, <2>3 DEF Insert, DeleteRow, Endpoint
  <2>4. CASE rows[at[t]] # None
    <3> DEFINE l == [rows[at[t]] EXCEPT !.id = c]
    <3>1. rows[at[t]] \in Link /\ c \in Container
      BY <1>2, <2>4 DEF TypeOK
    <3>2. /\ l \in Link /\ l.id = c /\ l.own = rows[at[t]].own /\ l.service = rows[at[t]].service
          /\ l.port = rows[at[t]].port
      BY <3>1, WithId
    <3>3. rows' = [rows EXCEPT ![at[t]] = l]
      BY <2>2, <2>4
    <3>4. l.own = "created" <=> l.port \in Port
      BY <1>1, <1>2, <2>4, <3>2 DEF RowsOK
    <3> HIDE DEF l
    <3>5. RowsOK(rows') /\ rows'[at[t]] = l /\ l # None
          /\ \A u \in Connection : u # at[t] => rows'[u] = rows[u]
      BY <1>3, <3>2, <3>3, <3>4
    <3> QED
      BY <1>2, <2>1, <2>4, <3>2, <3>5 DEF Insert, DeleteRow, Endpoint
  <2> QED
    BY <2>3, <2>4
<1>7. CASE Endpoint(t)
  <2>1. pc[t] = "endpoint" /\ link[t] \in Link /\ Reading(t)
    BY <1>7, ReadingLink DEF Endpoint
  <2>2. CASE rows' = rows /\ (Return(t) \/ link[t].port = None \/ rows[at[t]] = None)
    BY <1>1, <1>2, <2>1, <2>2 DEF Insert, DeleteRow, Identity
  <2>3. CASE link[t].port # None /\ rows[at[t]] # None /\ rows' = [rows EXCEPT ![at[t]].port = link[t].port]
    <3> DEFINE l == [rows[at[t]] EXCEPT !.port = link[t].port]
    <3>1. rows[at[t]] \in Link /\ link[t].port \in Port
      BY <1>2, <2>1, <2>3 DEF TypeOK, Link
    <3>2. /\ l \in Link /\ l.id = rows[at[t]].id /\ l.own = rows[at[t]].own
          /\ l.service = rows[at[t]].service /\ l.port = link[t].port
      BY <3>1, WithPort
    <3>3. rows' = [rows EXCEPT ![at[t]] = l]
      BY <2>3
    <3>4. job[t] = "open"
      BY <2>1 DEF CommandInv, Path, TypeOK, Job
    <3>5. rows[at[t]].own = "created"
      BY <2>1, <2>3, <3>4 DEF LinkInv
    <3> HIDE DEF l
    <3>6. RowsOK(rows') /\ rows'[at[t]] = l /\ l # None
          /\ \A u \in Connection : u # at[t] => rows'[u] = rows[u]
      BY <1>3, <3>1, <3>2, <3>3, <3>5
    <3> QED
      BY <1>2, <2>1, <2>3, <3>2, <3>6 DEF Insert, DeleteRow, Identity
  <2> QED
    BY <1>7, <2>2, <2>3 DEF Endpoint
<1> QED
  BY <1>4, <1>5, <1>6, <1>7

\* Who makes a container: a creation's docker run, or docker compose, which
\* copies the labels.
Made(d) ==
    /\ container[d].status = "unused" /\ container'[d].status \in {"running", "stopped"}
    /\ \/ \E t \in Caller : Run(t) /\ job[t] = "create" /\ container'[d].label = at[t]
       \/ \E c \in Container : UserRecreates(c, d) /\ Exists(c) /\ Known(c)
                               /\ container'[d].label = container[c].label

LEMMA ContainerEffects ==
    ASSUME TypeOK, CommandInv, ContainerInv, LinkInv, [Next]_vars
    PROVE  /\ container' \in [Container -> Record]
           /\ \A d \in Container : Sound(container'[d]) /\ (Keeps(d) \/ Made(d))
<1> USE DEF world
<1>1. CASE UNCHANGED container
  BY <1>1, CommandEffects DEF TypeOK, Record, ContainerInv, Sound, Running, Keeps
<1>2. ASSUME NEW c \in Container, Starts(c) \/ Restarts(c)
      PROVE  container' \in [Container -> Record] /\ \A d \in Container : Keeps(d) /\ Sound(container'[d])
  BY <1>2, CommandEffects
<1>3. ASSUME NEW cs \in SUBSET Container, Stops(cs)
      PROVE  container' \in [Container -> Record] /\ \A d \in Container : Keeps(d) /\ Sound(container'[d])
  <2>1. CASE Container = {}
    BY <1>3, <2>1 DEF Stops
  <2>2. CASE Container # {}
    <3>1. PICK c \in Container : TRUE
      BY <2>2
    <3> QED
      BY <1>3, <3>1, CommandEffects
  <2> QED
    BY <2>1, <2>2
<1>4. ASSUME NEW c \in Container, Removes(c), container[c].status # "unused"
      PROVE  container' \in [Container -> Record] /\ \A d \in Container : Keeps(d) /\ Sound(container'[d])
  BY <1>4, CommandEffects
<1>5. \A t \in Caller : cid[t] \subseteq Container
  BY DEF TypeOK
<1>6. ASSUME NEW t \in Caller, Run(t)
      PROVE  /\ container' \in [Container -> Record]
             /\ \A d \in Container : Sound(container'[d]) /\ (Keeps(d) \/ Made(d))
  <2>1. CASE UNCHANGED container
    BY <1>1, <2>1
  <2>2. CASE \E c \in Container : Makes(c, at[t])
    <3>1. PICK c \in Container : Makes(c, at[t])
      BY <2>2
    <3>2. job[t] = "create" /\ at[t] \in Connection
      BY <1>6 DEF Run, CommandInv, Path, TypeOK, Job
    <3>3. /\ container' \in [Container -> Record]
          /\ \A d \in Container : (d # c => container'[d] = container[d]) /\ Sound(container'[d])
          /\ container[c].status = "unused" /\ container'[c].label = at[t]
          /\ container'[c].status \in {"running", "stopped"}
      BY <3>1, <3>2, MakeEffects
    <3>4. Made(c)
      BY <1>6, <3>2, <3>3 DEF Made
    <3>5. \A d \in Container : d # c => Keeps(d)
      BY <3>3 DEF Keeps
    <3> QED
      BY <3>3, <3>4, <3>5
  <2> QED
    BY <1>6, <2>1, <2>2 DEF Run
<1>7. ASSUME NEW c \in Container, NEW d \in Container, UserRecreates(c, d)
      PROVE  /\ container' \in [Container -> Record]
             /\ \A e \in Container : Sound(container'[e]) /\ (Keeps(e) \/ Made(e))
  BY <1>7, RecreateEffects DEF Made
<1>8. ASSUME NEW t \in Caller, Prepare(t) \/ Remove(t) \/ Ensure(t) \/ Control(t) \/ StopAll(t)
      PROVE  \/ UNCHANGED container
             \/ container' \in [Container -> Record] /\ \A d \in Container : Keeps(d) /\ Sound(container'[d])
  <2>1. CASE Prepare(t) \/ Ensure(t)
    BY <1>2, <1>5, <2>1 DEF Prepare, Ensure
  <2>2. CASE Remove(t)
    BY <1>4, <1>5, <2>2 DEF Remove, ContainerInv, Refers
  <2>3. CASE Control(t)
    BY <1>2, <1>3, <1>5, <2>3 DEF Control
  <2>4. CASE StopAll(t)
    <3>1. ASSUME NEW cs \in SUBSET cid[t]
          PROVE  cs \in SUBSET Container
      BY <1>5
    <3> QED
      BY <1>3, <1>5, <2>4, <3>1 DEF StopAll
  <2> QED
    BY <1>8, <2>1, <2>2, <2>3, <2>4
<1>9. ASSUME NEW t \in Caller, Continue(t)
      PROVE  UNCHANGED container \/ Run(t) \/ Prepare(t) \/ Remove(t) \/ Ensure(t) \/ Control(t) \/ StopAll(t)
  BY <1>9 DEF Continue, Lock, Lookup, Inspect, Probe, Insert, RemoveVolume, DeleteRow, GetLink, Resolve,
     Find, Identity, ResolveFails, Endpoint
<1>10. ASSUME NEW t \in Caller, Calls(t)
       PROVE  UNCHANGED container
  BY <1>10, CallKinds DEF Call
<1>11. CASE User
  <2>1. ASSUME NEW c \in Container, UserStarts(c)
        PROVE  Starts(c) \/ Restarts(c)
    BY <2>1 DEF UserStarts
  <2>2. ASSUME NEW c \in Container, UserStops(c)
        PROVE  Stops({c}) /\ {c} \in SUBSET Container
    BY <2>2 DEF UserStops
  <2>3. ASSUME NEW c \in Container, UserRemoves(c)
        PROVE  Removes(c) /\ container[c].status # "unused"
    BY <2>3 DEF UserRemoves, Exists
  <2> QED
    BY <1>2, <1>3, <1>4, <1>7, <1>11, <2>1, <2>2, <2>3 DEF User
<1>12. CASE Crash \/ Launch \/ UNCHANGED vars
  BY <1>1, <1>12 DEF Crash, Launch, vars
<1> QED
  BY <1>1, <1>6, <1>8, <1>9, <1>10, <1>11, <1>12 DEF Next

LEMMA NextTypeOK ==
    ASSUME TypeOK, CommandInv, ContainerInv, LinkInv, [Next]_vars
    PROVE  TypeOK'
<1> USE DockerAssumption DEF caller, world, rest, heard
<1>1. container' \in [Container -> Record]
  BY ContainerEffects
<1>2. RowsOK(rows)
  BY DEF TypeOK, RowsOK
<1>3. CallerOK
  BY DEF TypeOK, CallerOK
<1>4. /\ fresh \in SUBSET Connection /\ volumes \in SUBSET Connection
      /\ cleaned \in SUBSET Connection /\ unseen \in SUBSET Connection
      /\ quit \in {"no", "clean", "failed"} /\ moved \in [Caller -> BOOLEAN]
  BY DEF TypeOK
<1> DEFINE Rest == /\ fresh \in SUBSET Connection /\ volumes \in SUBSET Connection
                   /\ cleaned \in SUBSET Connection /\ unseen \in SUBSET Connection
                   /\ quit \in {"no", "clean", "failed"} /\ moved \in [Caller -> BOOLEAN]
<1>5. ASSUME RowsOK(rows'), CallerOK', Rest'
      PROVE  TypeOK'
  BY <1>1, <1>5 DEF TypeOK, RowsOK, CallerOK, Record
<1>6. ASSUME NEW t \in Caller, Calls(t)
      PROVE  TypeOK'
  <2>1. PICK j \in Job, s \in Stage, u \in Connection \cup {None}, cs \in SUBSET Container :
            Call(t, j, s, u, cs) /\ (fresh' = fresh \/ fresh' = fresh \ {u})
    BY <1>6, CallKinds
  <2>2. CallerOK'
    BY <1>3, <2>1 DEF Call, Goto, CallerOK
  <2>3. RowsOK(rows') /\ Rest'
    BY <1>2, <1>4, <2>1 DEF Call
  <2> QED
    BY <1>5, <2>2, <2>3
<1>7. ASSUME NEW how \in {"clean", "failed"}, Leave(how), UNCHANGED <<rows, fresh, volumes, heard>>
      PROVE  TypeOK'
  BY <1>2, <1>4, <1>5, <1>7, LeaveEnds DEF CallerOK
\* Every other step of a command writes its stage, its link or the containers
\* it works on.
<1>8. ASSUME NEW t \in Caller, Return(t) \/ MovesOn(t) \/ Lock(t), Continue(t),
             RowsOK(rows'), Rest',
             ~Return(t) => /\ link' \in [Caller -> Link \cup {None}] /\ pc' \in [Caller -> Stage]
                           /\ cid' \in [Caller -> SUBSET Container] /\ failed' \in [Caller -> BOOLEAN]
      PROVE  TypeOK'
  <2>1. CallerOK'
    <3>1. CASE Return(t)
      BY <3>1, ReturnOK
    <3>2. CASE MovesOn(t) /\ ~Return(t)
      BY <1>3, <1>8, <3>2 DEF MovesOn, CallerOK
    <3>3. CASE Lock(t) /\ ~Return(t)
      BY <1>3, <1>8, <3>3, LockKind DEF CallerOK
    <3> QED
      BY <1>8, <3>1, <3>2, <3>3
  <2> QED
    BY <1>5, <1>8, <2>1
<1>9. ASSUME NEW t \in Caller, Continue(t), ~StopAll(t)
      PROVE  Rest'
  <2>1. volumes' \in SUBSET Connection /\ cleaned' \in SUBSET Connection /\ unseen' \in SUBSET Connection
    <3>1. CASE Run(t) \/ Lookup(t) \/ RemoveVolume(t)
      <4>1. at[t] \in Connection
        BY <3>1 DEF Run, Lookup, RemoveVolume, CommandInv, Path, TypeOK, Job
      <4>2. volumes' \in SUBSET Connection
        BY <1>4, <3>1, <4>1 DEF Run, Lookup, RemoveVolume
      <4>3. cleaned' \in SUBSET Connection /\ unseen' \in SUBSET Connection
        BY <1>4, <3>1, <4>1 DEF Run, Lookup, RemoveVolume
      <4> QED
        BY <4>2, <4>3
    <3>2. CASE ~(Run(t) \/ Lookup(t) \/ RemoveVolume(t))
      BY <1>4, <1>9, <3>2 DEF Continue, Lock, Inspect, Prepare, Probe, Insert, Remove, DeleteRow, GetLink,
         Resolve, Find, Identity, ResolveFails, Ensure, Endpoint, Control
    <3> QED
      BY <3>1, <3>2
  <2>2. fresh' = fresh /\ quit' = quit
    BY <1>9 DEF Continue, Run, Lookup, RemoveVolume, Lock, Inspect, Prepare, Probe, Insert, Remove,
       DeleteRow, GetLink, Resolve, Find, Identity, ResolveFails, Ensure, Endpoint, Control
  <2>3. Moves \/ moved' = moved \/ moved' = [moved EXCEPT ![t] = FALSE]
    BY <1>9 DEF Continue, Run, Lookup, RemoveVolume, Lock, Inspect, Prepare, Probe, Insert, Remove,
       DeleteRow, GetLink, Resolve, Find, Identity, ResolveFails, Ensure, Endpoint, Control
  <2>4. moved' \in [Caller -> BOOLEAN]
    BY <1>4, <2>3, MovesOK
  <2> QED
    BY <1>4, <2>1, <2>2, <2>4
<1>10. ASSUME NEW t \in Caller, Continue(t), ~StopAll(t)
       PROVE  RowsOK(rows')
  <2>1. CASE Insert(t) \/ DeleteRow(t) \/ Identity(t) \/ Endpoint(t)
    BY <2>1, RowWrites
  <2>2. CASE ~(Insert(t) \/ DeleteRow(t) \/ Identity(t) \/ Endpoint(t))
    <3>1. rows' = rows
      BY <1>10, <2>2 DEF Continue, Run, Lookup, RemoveVolume, Lock, Inspect, Prepare, Probe, Remove,
         GetLink, Resolve, Find, ResolveFails, Ensure, Control
    <3> QED
      BY <1>2, <3>1
  <2> QED
    BY <2>1, <2>2
<1>11. ASSUME NEW t \in Caller, Continue(t), ~StopAll(t), ~Return(t)
       PROVE  /\ link' \in [Caller -> Link \cup {None}] /\ pc' \in [Caller -> Stage]
              /\ cid' \in [Caller -> SUBSET Container] /\ failed' \in [Caller -> BOOLEAN]
  <2> USE <1>3 DEF CallerOK, Goto, Stage
  <2> DEFINE Goal == /\ link' \in [Caller -> Link \cup {None}] /\ pc' \in [Caller -> Stage]
                     /\ cid' \in [Caller -> SUBSET Container] /\ failed' \in [Caller -> BOOLEAN]
  <2>1. CASE Lock(t)
    BY <2>1 DEF Lock
  <2>2. CASE Run(t)
    BY <2>2 DEF Run
  <2>3. CASE Lookup(t)
    <3>1. Labelled(at[t]) \in SUBSET Container
      BY DEF Labelled
    <3> QED
      BY <1>11, <2>3, <3>1 DEF Lookup
  <2>4. CASE Inspect(t)
    <3>1. pc' \in [Caller -> Stage] /\ cid' = cid /\ failed' = failed
      BY <1>11, <2>4 DEF Inspect
    <3>2. CASE UNCHANGED link
      BY <3>1, <3>2
    <3>3. CASE ~UNCHANGED link
      <4>1. PICK c \in cid[t] : link' = [link EXCEPT ![t] =
                 IF job[t] = "open" THEN [@ EXCEPT !.port = container[c].port]
                 ELSE NewLink("created", c, container[c].port)]
        BY <1>11, <2>4, <3>3 DEF Inspect
      <4>2. c \in Container /\ container[c].port \in Port \cup {None}
        BY DEF TypeOK
      <4>3. CASE job[t] = "open"
        <5>1. link[t] \in Link
          BY <2>4, <4>3, ReadingLink DEF Inspect
        <5>2. [link[t] EXCEPT !.port = container[c].port] \in Link
          BY <4>2, <5>1, WithPort
        <5> QED
          BY <3>1, <4>1, <4>3, <5>2
      <4>4. CASE job[t] # "open"
        <5>1. NewLink("created", c, container[c].port) \in Link
          BY <4>2, NewLinkOK
        <5> QED
          BY <3>1, <4>1, <4>4, <5>1
      <4> QED
        BY <4>3, <4>4
    <3> QED
      BY <3>2, <3>3
  <2>5. CASE Prepare(t)
    <3>1. PICK c \in cid[t] : link' = [link EXCEPT ![t] = NewLink("linked", c, None)]
      BY <1>11, <2>5 DEF Prepare
    <3>2. NewLink("linked", c, None) \in Link
      BY NewLinkOK DEF TypeOK
    <3> QED
      BY <1>11, <2>5, <3>1, <3>2 DEF Prepare
  <2>6. CASE Probe(t) \/ Insert(t)
    BY <1>11, <2>6 DEF Probe, Insert
  <2>7. CASE Remove(t)
    <3>1. failed' \in [Caller -> BOOLEAN]
      BY <2>7 DEF Remove
    <3> QED
      BY <2>7, <3>1 DEF Remove
  <2>8. CASE RemoveVolume(t) \/ ResolveFails(t) \/ Control(t)
    BY <1>11, <2>8 DEF RemoveVolume, ResolveFails, Control
  <2>9. CASE DeleteRow(t) \/ GetLink(t)
    <3>1. rows[at[t]] # None /\ link' = [link EXCEPT ![t] = StoredLink(at[t])]
          /\ pc' = [pc EXCEPT ![t] = "resolve"] /\ UNCHANGED <<cid, failed>>
      BY <1>11, <2>9 DEF DeleteRow, GetLink
    <3>2. at[t] \in Connection
      BY <2>9 DEF DeleteRow, GetLink, CommandInv, Path, TypeOK, Job
    <3>3. StoredLink(at[t]) \in Link
      BY <3>1, <3>2, WithPort DEF StoredLink, TypeOK
    <3> QED
      BY <3>1, <3>3
  <2>10. CASE Resolve(t)
    <3>1. link[t] \in Link /\ pc[t] = "resolve"
      BY <2>10, ReadingLink DEF Resolve
    <3>2. link[t].id \in Container /\ container[link[t].id].port \in Port \cup {None}
      BY <3>1 DEF Link, TypeOK
    <3>3. CASE Resolved(t, link[t].id, container[link[t].id].port)
      BY <1>11, <3>1, <3>2, <3>3, ResolvedKinds
    <3>4. CASE ~Resolved(t, link[t].id, container[link[t].id].port)
      BY <2>10, <3>4 DEF Resolve
    <3> QED
      BY <3>3, <3>4
  <2>11. CASE Find(t)
    <3>1. link[t] \in Link
      BY <2>11, ReadingLink DEF Find
    <3>2. PICK c \in Container : /\ cid' = [cid EXCEPT ![t] = {c}]
                                 /\ link' = [link EXCEPT ![t].port = IF job[t] = "open" THEN container[c].port ELSE None]
      BY <2>11 DEF Find
    <3> DEFINE p == IF job[t] = "open" THEN container[c].port ELSE None
    <3>3. p \in Port \cup {None}
      BY DEF TypeOK
    <3>4. [link[t] EXCEPT !.port = p] \in Link
      BY <3>1, <3>3, WithPort
    <3>5. link' = [link EXCEPT ![t] = [link[t] EXCEPT !.port = p]]
      BY <3>2
    <3> HIDE DEF p
    <3>6. link' \in [Caller -> Link \cup {None}]
      BY <3>4, <3>5
    <3> QED
      BY <2>11, <3>2, <3>6 DEF Find
  <2>12. CASE Identity(t)
    <3>1. link[t] \in Link /\ pc[t] = "identity"
      BY <2>12, ReadingLink DEF Identity
    <3>2. PICK c \in cid[t] : Resolved(t, c, link[t].port)
      BY <2>12 DEF Identity
    <3>3. c \in Container /\ link[t].port \in Port \cup {None}
      BY <3>1 DEF Link, TypeOK
    <3> QED
      BY <1>11, <3>1, <3>2, <3>3, ResolvedKinds
  <2>13. CASE Ensure(t) \/ Endpoint(t)
    BY <1>11, <2>13 DEF Ensure, Endpoint
  <2> HIDE DEF Goal
  <2> QED
    BY <1>11, <2>1, <2>2, <2>3, <2>4, <2>5, <2>6, <2>7, <2>8, <2>9, <2>10, <2>11, <2>12, <2>13
    DEF Continue, Goal
<1>12. CASE UNCHANGED <<caller, lock, rows, fresh, volumes, heard>>
  <2>1. quit' \in {"no", "clean", "failed"}
    <3>1. ASSUME NEW t \in Caller, Calls(t)
          PROVE  quit' = quit
      BY <3>1, CallKinds DEF Call
    <3>2. ASSUME NEW t \in Caller, StopAll(t)
          PROVE  quit' \in {"no", "clean", "failed"}
      BY <3>2 DEF StopAll, Leave
    <3>3. ASSUME NEW t \in Caller, Continue(t), ~StopAll(t)
          PROVE  quit' \in {"no", "clean", "failed"}
      BY <1>9, <3>3
    <3> QED
      BY <1>4, <3>1, <3>2, <3>3 DEF Next, vars, Crash, Leave, Launch, User, UserStarts, UserStops,
         UserRemoves, UserRecreates, Outside
  <2>2. moved' \in [Caller -> BOOLEAN]
    <3>1. ASSUME NEW t \in Caller, Calls(t)
          PROVE  moved' = moved
      BY <3>1, CallKinds DEF Call
    <3>2. ASSUME NEW t \in Caller, StopAll(t)
          PROVE  moved' = [s \in Caller |-> FALSE]
      BY <3>2 DEF StopAll, Leave
    <3>3. ASSUME NEW t \in Caller, Continue(t), ~StopAll(t)
          PROVE  moved' \in [Caller -> BOOLEAN]
      BY <1>9, <3>3
    <3>4. CASE Crash \/ Launch \/ UNCHANGED vars
      BY <1>4, <3>4 DEF Crash, Leave, Launch, vars
    <3>5. CASE User
      BY <3>5, MovesOK DEF User, UserStarts, UserStops, UserRemoves, UserRecreates, Outside
    <3> QED
      BY <3>1, <3>2, <3>3, <3>4, <3>5, <1>4 DEF Next
  <2> QED
    BY <1>2, <1>3, <1>4, <1>5, <1>12, <2>1, <2>2 DEF CallerOK
<1> QED
  BY <1>6, <1>7, <1>8, <1>9, <1>10, <1>11, <1>12, StepKinds

-----------------------------------------------------------------------------
(* How a command comes to refer to a container, and a row to appear. *)

LEMMA NextRefers ==
    ASSUME TypeOK, CommandInv, LinkInv, [Next]_vars,
           NEW t \in Caller, NEW c \in Container, Refers(t, c)'
    PROVE  \/ Refers(t, c)
           \/ \E u \in Connection : Saves(u, c)
           \/ Exists(c) /\ Known(c)
           \/ Exists(c) /\ container[c].label = at[t] /\ job[t] = "create"
           \/ container'[c].status # "unused" /\ container'[c].label = at[t] /\ job[t] = "create"
           \/ Exists(c) /\ container[c].label = Wanted(t) /\ Reading(t)
<1> USE DockerAssumption DEF world, caller, rest
<1>1. CASE link'[t] = link[t] /\ cid'[t] = cid[t]
  BY <1>1 DEF Refers
<1>2. CASE link'[t] = None /\ cid'[t] = {}
  BY <1>2 DEF Refers
<1>3. CASE Calls(t)
  <2>1. PICK j \in Job, s \in Stage, u \in Connection \cup {None}, cs \in SUBSET Container :
            /\ Call(t, j, s, u, cs)
            /\ \/ cs = {}
               \/ \E d \in Container : cs = {d} /\ Exists(d) /\ Known(d)
               \/ cs = StopTargets
    BY <1>3, CallKinds
  <2>2. cid'[t] = cs /\ link' = link
    BY <2>1 DEF Call, TypeOK
  <2>3. CASE c \in StopTargets
    BY <2>3 DEF StopTargets, Saves
  <2> QED
    BY <2>1, <2>2, <2>3 DEF Refers
<1>4. ASSUME NEW u \in Caller, u # t, Calls(u) \/ (Return(u) \/ MovesOn(u) \/ Lock(u))
      PROVE  link'[t] = link[t] /\ cid'[t] = cid[t]
  <2>1. CASE Calls(u)
    BY <1>4, <2>1, CallKinds DEF Call, TypeOK
  <2> QED
    BY <1>4, <2>1, ReturnsAlone, LockKind DEF OthersStay, MovesOn
\* A command that reads a link refers to the container the row refers to.
<1>5. ASSUME link' = [link EXCEPT ![t] = StoredLink(at[t])], rows[at[t]] # None, at[t] \in Connection, cid' = cid
      PROVE  Refers(t, c) \/ Saves(at[t], c)
  <2>1. link'[t] = StoredLink(at[t]) /\ rows[at[t]] \in Link
    BY <1>5 DEF TypeOK
  <2>2. link'[t].id = rows[at[t]].id
    BY <2>1, WithPort DEF StoredLink
  <2> QED
    BY <1>5, <2>2 DEF Refers, Saves
<1>6. ASSUME NEW d \in Container, link'[t].id = link[t].id, link[t] # None, cid'[t] = {d}
      PROVE  Refers(t, c) \/ c = d
  BY <1>6 DEF Refers
<1>7. CASE Continue(t) /\ ~StopAll(t) /\ ~Return(t)
  <2>1. CASE Lock(t) \/ Probe(t) \/ Insert(t) \/ Remove(t) \/ Ensure(t) \/ Endpoint(t)
    BY <1>1, <1>7, <2>1 DEF Lock, Probe, Insert, Remove, Ensure, Endpoint
  <2>2. CASE Run(t)
    <3>1. job[t] = "create" /\ link' = link /\ at[t] \in Connection
      BY <2>2 DEF Run, CommandInv, Path, TypeOK, Job
    <3>2. CASE cid' = cid
      BY <1>1, <3>1, <3>2
    <3>3. CASE \E d \in Container : Makes(d, at[t]) /\ cid' = [cid EXCEPT ![t] = {d}]
      <4>1. PICK d \in Container : Makes(d, at[t]) /\ cid' = [cid EXCEPT ![t] = {d}]
        BY <3>3
      <4>2. container'[d].label = at[t] /\ container'[d].status \in {"running", "stopped"}
        BY <4>1 DEF Makes, TypeOK
      <4>3. cid'[t] = {d}
        BY <4>1 DEF TypeOK
      <4> QED
        BY <3>1, <4>2, <4>3 DEF Refers
    <3> QED
      BY <2>2, <3>2, <3>3 DEF Run
  <2>3. CASE Lookup(t)
    <3>1. job[t] = "create" /\ link' = link /\ cid'[t] = Labelled(at[t])
      BY <1>7, <2>3 DEF Lookup, CommandInv, Path, TypeOK, Job
    <3> QED
      BY <3>1 DEF Refers, Labelled
  <2>4. CASE Inspect(t)
    <3>1. cid' = cid
      BY <1>7, <2>4 DEF Inspect
    <3>2. CASE UNCHANGED link
      BY <1>1, <3>1, <3>2
    <3>3. CASE ~UNCHANGED link
      <4>1. PICK d \in cid[t] : link' = [link EXCEPT ![t] =
                 IF job[t] = "open" THEN [@ EXCEPT !.port = container[d].port]
                 ELSE NewLink("created", d, container[d].port)]
        BY <1>7, <2>4, <3>3 DEF Inspect
      <4>2. d \in Container /\ container[d].port \in Port \cup {None}
        BY DEF TypeOK
      <4>3. CASE job[t] = "open"
        <5>1. link[t] \in Link
          BY <2>4, <4>3, ReadingLink DEF Inspect
        <5>2. link'[t] = [link[t] EXCEPT !.port = container[d].port]
          BY <4>1, <4>3 DEF TypeOK
        <5>3. link'[t].id = link[t].id
          BY <4>2, <5>1, <5>2, WithPort
        <5> QED
          BY <3>1, <5>1, <5>3 DEF Refers
      <4>4. CASE job[t] # "open"
        <5>1. link'[t] = NewLink("created", d, container[d].port)
          BY <4>1, <4>4 DEF TypeOK
        <5>2. link'[t].id = d
          BY <4>2, <5>1, NewLinkOK
        <5> QED
          BY <3>1, <4>1, <5>2 DEF Refers
      <4> QED
        BY <4>3, <4>4
    <3> QED
      BY <3>2, <3>3
  <2>5. CASE Prepare(t)
    <3>1. PICK d \in cid[t] : link' = [link EXCEPT ![t] = NewLink("linked", d, None)] /\ cid' = cid
      BY <1>7, <2>5 DEF Prepare
    <3>2. link'[t].id = d
      BY <3>1, NewLinkOK DEF TypeOK
    <3> QED
      BY <3>1, <3>2 DEF Refers
  <2>6. CASE DeleteRow(t) \/ GetLink(t)
    <3>1. /\ rows[at[t]] # None /\ link' = [link EXCEPT ![t] = StoredLink(at[t])] /\ cid' = cid
      BY <1>7, <2>6 DEF DeleteRow, GetLink
    <3>2. at[t] \in Connection
      BY <2>6 DEF DeleteRow, GetLink, CommandInv, Path, TypeOK, Job
    <3> QED
      BY <1>5, <3>1, <3>2
  <2>7. CASE Resolve(t)
    <3>1. link[t] \in Link /\ pc[t] = "resolve"
      BY <2>7, ReadingLink DEF Resolve
    <3>2. link[t].id \in Container /\ container[link[t].id].port \in Port \cup {None}
      BY <3>1 DEF Link, TypeOK
    <3>3. CASE Resolved(t, link[t].id, container[link[t].id].port)
      <4>1. cid'[t] = {link[t].id} /\ link'[t].id = link[t].id
        BY <1>7, <3>1, <3>2, <3>3, ResolvedKinds DEF TypeOK
      <4> QED
        BY <3>1, <4>1 DEF Refers
    <3>4. CASE ~Resolved(t, link[t].id, container[link[t].id].port)
      BY <1>1, <2>7, <3>4 DEF Resolve
    <3> QED
      BY <3>3, <3>4
  <2>8. CASE Find(t)
    <3>1. link[t] \in Link /\ Reading(t)
      BY <2>8, ReadingLink DEF Find
    <3>2. PICK d \in Container : /\ Labelled(Wanted(t)) = {d} /\ cid' = [cid EXCEPT ![t] = {d}]
                                 /\ link' = [link EXCEPT ![t].port = IF job[t] = "open" THEN container[d].port ELSE None]
      BY <2>8 DEF Find
    <3>3. link'[t] = [link[t] EXCEPT !.port = IF job[t] = "open" THEN container[d].port ELSE None]
      BY <3>2 DEF TypeOK
    <3>4. link'[t].id = link[t].id
      BY <3>1, <3>3 DEF Link
    <3>5. Exists(d) /\ container[d].label = Wanted(t)
      BY <3>2 DEF Labelled
    <3>6. cid'[t] = {d}
      BY <3>2 DEF TypeOK
    <3> QED
      BY <1>6, <3>1, <3>4, <3>5, <3>6
  <2>9. CASE Identity(t)
    <3>1. link[t] \in Link /\ pc[t] = "identity"
      BY <2>9, ReadingLink DEF Identity
    <3>2. PICK d \in cid[t] : Resolved(t, d, link[t].port)
      BY <2>9 DEF Identity
    <3>3. d \in Container /\ link[t].port \in Port \cup {None}
      BY <3>1 DEF Link, TypeOK
    <3>4. cid'[t] = {d} /\ link'[t].id = link[t].id
      BY <1>7, <3>1, <3>2, <3>3, ResolvedKinds DEF TypeOK
    <3> QED
      BY <1>6, <3>1, <3>2, <3>3, <3>4 DEF Refers
  <2>10. CASE RemoveVolume(t) \/ ResolveFails(t) \/ Control(t)
    BY <1>7, <2>10 DEF RemoveVolume, ResolveFails, Control
  <2> QED
    BY <1>7, <2>1, <2>2, <2>3, <2>4, <2>5, <2>6, <2>7, <2>8, <2>9, <2>10 DEF Continue
<1>8. ASSUME NEW how \in {"clean", "failed"}, Leave(how)
      PROVE  link'[t] = None /\ cid'[t] = {}
  BY <1>8, LeaveEnds
<1> QED
  BY <1>1, <1>2, <1>3, <1>4, <1>7, <1>8, StepKinds, ReturnsAlone

\* Only the command that generated a uuid inserts a row for it.
LEMMA NextRows ==
    ASSUME TypeOK, CommandInv, LinkInv, [Next]_vars, NEW u \in Connection, rows'[u] # rows[u]
    PROVE  \E t \in Caller : /\ Continue(t) /\ at[t] = u /\ UNCHANGED <<container, volumes>> /\ OthersStay(t)
                             /\ \/ Insert(t) /\ Return(t) /\ Making(t) /\ pc[t] = "insert" /\ rows'[u] = link[t]
                                \/ DeleteRow(t) /\ rows'[u] = None /\ lock[u] = t
                                \/ Identity(t) /\ rows[u] # None /\ rows'[u] # None
                                \/ Endpoint(t) /\ rows[u] # None /\ rows'[u] # None
<1> USE DEF world, caller
<1>1. ASSUME NEW t \in Caller, Continue(t), ~StopAll(t)
      PROVE  rows' = rows \/ Insert(t) \/ DeleteRow(t) \/ Identity(t) \/ Endpoint(t)
  BY <1>1 DEF Continue, Run, Lookup, RemoveVolume, Lock, Inspect, Prepare, Probe, Remove,
     GetLink, Resolve, Find, ResolveFails, Ensure, Control
<1>2. PICK t \in Caller : Continue(t) /\ ~StopAll(t) /\ (Return(t) \/ MovesOn(t) \/ Lock(t))
                          /\ (Insert(t) \/ DeleteRow(t) \/ Identity(t) \/ Endpoint(t))
  <2>1. ASSUME NEW t \in Caller, Calls(t)
        PROVE  rows' = rows
    BY <2>1, CallKinds DEF Call
  <2> QED
    BY <1>1, <2>1, StepKinds
<1>3. OthersStay(t)
  BY <1>2, ReturnsAlone, LockKind DEF MovesOn
<1>4. at[t] = u
  BY <1>2, RowWrites
<1>5. UNCHANGED <<container, volumes>>
  BY <1>2 DEF Insert, DeleteRow, Identity, Endpoint
<1>6. CASE Insert(t)
  <2>1. Return(t) /\ rows'[u] = link[t]
    BY <1>4, <1>6, RowWrites
  <2>2. Making(t) /\ pc[t] = "insert"
    BY <1>6 DEF Insert, CommandInv, Path, TypeOK, Job, Making
  <2> QED
    BY <1>2, <1>3, <1>4, <1>5, <1>6, <2>1, <2>2
<1>7. CASE DeleteRow(t)
  <2>1. rows'[u] = None
    BY <1>4, <1>7, RowWrites
  <2>2. lock[u] = t
    BY <1>4, <1>7 DEF DeleteRow, CommandInv, Path, TypeOK, Job
  <2> QED
    BY <1>2, <1>3, <1>4, <1>5, <1>7, <2>1, <2>2
<1>8. CASE Identity(t) \/ Endpoint(t)
  BY <1>2, <1>3, <1>4, <1>5, <1>8, RowWrites
<1> QED
  BY <1>2, <1>6, <1>7, <1>8

LEMMA NextSaves ==
    ASSUME TypeOK, CommandInv, LinkInv, [Next]_vars,
           NEW u \in Connection, NEW c \in Container, Saves(u, c)', ~Saves(u, c)
    PROVE  \E t \in Caller : /\ at[t] = u /\ Refers(t, c) /\ UNCHANGED container
                             /\ \/ Insert(t) /\ Return(t) /\ Making(t)
                                \/ Identity(t) /\ rows[u] # None
<1> USE DockerAssumption
<1>1. rows'[u] # rows[u] /\ rows'[u] # None
  BY DEF Saves
<1>2. PICK t \in Caller : /\ Continue(t) /\ at[t] = u /\ UNCHANGED <<container, volumes>>
                          /\ \/ Insert(t) /\ Return(t) /\ Making(t) /\ rows'[u] = link[t]
                             \/ Identity(t) /\ rows[u] # None
                             \/ Endpoint(t) /\ rows[u] # None
  BY <1>1, NextRows
<1>3. CASE Insert(t) /\ Return(t) /\ Making(t) /\ rows'[u] = link[t]
  BY <1>1, <1>2, <1>3 DEF Refers, Saves
<1>4. CASE Identity(t) /\ rows[u] # None
  <2>1. \E d \in cid[t] : rows'[u].id = d
    BY <1>2, <1>4, RowWrites
  <2> QED
    BY <1>2, <1>4, <2>1 DEF Refers, Saves
<1>5. CASE Endpoint(t) /\ rows[u] # None
  <2>1. rows'[u].id = rows[u].id
    BY <1>1, <1>2, <1>5, RowWrites
  <2> QED
    BY <1>5, <2>1 DEF Saves
<1> QED
  BY <1>2, <1>3, <1>4, <1>5

\* A container that is referred to or saved was made: its label stays.
LEMMA LabelStays ==
    ASSUME TypeOK, CommandInv, ContainerInv, LinkInv, [Next]_vars, NEW c \in Container,
           \/ container[c].status # "unused"
           \/ \E t \in Caller : Refers(t, c)
           \/ \E u \in Connection : Saves(u, c)
    PROVE  container'[c].label = container[c].label /\ container'[c].status # "unused"
<1>1. container[c].status # "unused"
  BY DEF ContainerInv
<1> QED
  BY <1>1, ContainerEffects DEF Keeps, Made

LEMMA NextContainerInv ==
    ASSUME TypeOK, CommandInv, ContainerInv, LinkInv, [Next]_vars
    PROVE  ContainerInv'
<1> SUFFICES ASSUME NEW c \in Container
             PROVE  /\ container'[c].port # None <=> Running(c)'
                    /\ container'[c].status = "unused" =>
                          /\ container'[c].label = None
                          /\ \A t \in Caller : ~Refers(t, c)'
                          /\ \A u \in Connection : ~Saves(u, c)'
  BY DEF ContainerInv
<1>1. container'[c].port # None <=> Running(c)'
  BY ContainerEffects DEF Sound, Running
<1>2. ASSUME container'[c].status = "unused"
      PROVE  /\ container'[c].label = None
             /\ \A t \in Caller : ~Refers(t, c)'
             /\ \A u \in Connection : ~Saves(u, c)'
  <2>1. container[c].status = "unused" /\ container'[c] = container[c]
    BY <1>2, ContainerEffects DEF Keeps, Made
  <2>2. container[c].label = None /\ (\A t \in Caller : ~Refers(t, c)) /\ \A u \in Connection : ~Saves(u, c)
    BY <2>1 DEF ContainerInv
  <2>3. \A t \in Caller : ~Refers(t, c)'
    BY <1>2, <2>1, <2>2, NextRefers DEF Exists
  <2>4. \A u \in Connection : ~Saves(u, c)'
    BY <2>2, NextSaves
  <2> QED
    BY <2>1, <2>2, <2>3, <2>4
<1> QED
  BY <1>1, <1>2

\* A uuid that is being made is on no container that somebody knows.
LEMMA MakingUnknown ==
    ASSUME UuidInv, CommandInv, TypeOK, NEW t \in Caller, Making(t), NEW c \in Container, container[c].label = at[t]
    PROVE  ~Known(c)
BY DockerAssumption DEF UuidInv, CommandInv, Making, Known

LEMMA NextPrivateInv ==
    ASSUME TypeOK, CommandInv, UuidInv, ContainerInv, PrivateInv, LinkInv, [Next]_vars
    PROVE  PrivateInv'
<1> USE DockerAssumption
<1> SUFFICES ASSUME NEW t \in Caller, NEW c \in Container, job'[t] = "create", container'[c].label = at'[t]
             PROVE  /\ \A s \in Caller \ {t} : ~Refers(s, c)'
                    /\ \A u \in Connection : ~Saves(u, c)'
  BY DEF PrivateInv
\* A creation that begins finds no container with its uuid.
<1>1. CASE Calls(t)
  <2>1. PICK j \in Job, s \in Stage, u \in Connection \cup {None}, cs \in SUBSET Container :
            Call(t, j, s, u, cs) /\ (j = "create" => u \in fresh)
    BY <1>1, CallKinds
  <2>2. at'[t] = u /\ u \in fresh /\ container' = container
    BY <2>1 DEF Call, TypeOK, world
  <2> QED
    BY <2>2 DEF UuidInv
<1>2. CASE job[t] = "create" /\ at'[t] = at[t]
  <2>1. Making(t) /\ at[t] \in Connection /\ \A s \in Caller \ {t} : at[s] # at[t]
    BY <1>2 DEF Making, UuidInv, CommandInv
  <2>2. CASE container[c].label = at[t]
    <3>1. /\ \A s \in Caller \ {t} : ~Refers(s, c)
          /\ \A u \in Connection : ~Saves(u, c)
      BY <1>2, <2>2 DEF PrivateInv
    <3>2. ~Known(c)
      BY <2>1, <2>2, MakingUnknown
    <3>3. container'[c].label = at[t]
      BY <1>2
    <3>4. ASSUME NEW s \in Caller \ {t}, Refers(s, c)'
          PROVE  FALSE
      <4>1. container[c].label = Wanted(s) /\ Reading(s)
        BY <2>1, <2>2, <3>1, <3>2, <3>3, <3>4, NextRefers
      <4>2. link[s] \in Link
        BY <4>1 DEF LinkInv, TypeOK
      <4>3. Wanted(s) \in {at[s], Service, None}
        BY <4>2 DEF Wanted, Link
      <4> QED
        BY <2>1, <2>2, <4>1, <4>3
    <3>5. ASSUME NEW u \in Connection, Saves(u, c)'
          PROVE  FALSE
      <4>1. PICK s \in Caller : at[s] = u /\ Refers(s, c)
                                /\ ((Insert(s) /\ Return(s)) \/ Identity(s))
        BY <3>1, <3>5, NextSaves
      <4>2. s = t
        BY <3>1, <4>1
      <4>3. ~Return(t) /\ ~Identity(t)
        BY <1>2, ReturnsAlone DEF Identity, CommandInv, Path
      <4> QED
        BY <4>1, <4>2, <4>3
    <3> QED
      BY <3>4, <3>5
  <2>3. CASE container[c].label # at[t]
    <3>1. container[c].status = "unused"
      BY <1>2, <2>3, ContainerEffects DEF Keeps, Made
    <3>2. /\ \A s \in Caller : ~Refers(s, c)
          /\ \A u \in Connection : ~Saves(u, c)
      BY <3>1 DEF ContainerInv
    <3>3. \A s \in Caller \ {t} : ~Refers(s, c)'
      BY <1>2, <2>1, <3>1, <3>2, NextRefers DEF Exists
    <3>4. \A u \in Connection : ~Saves(u, c)'
      BY <3>2, NextSaves
    <3> QED
      BY <3>3, <3>4
  <2> QED
    BY <2>2, <2>3
<1>3. Calls(t) \/ (job[t] = "create" /\ at'[t] = at[t])
  <2>1. ASSUME NEW s \in Caller, s # t, Calls(s)
        PROVE  job'[t] = job[t] /\ at'[t] = at[t]
    BY <2>1, CallKinds DEF Call, TypeOK
  <2>2. ASSUME NEW s \in Caller, Return(s) \/ MovesOn(s) \/ Lock(s), ~(s = t /\ Return(t))
        PROVE  job'[t] = job[t] /\ at'[t] = at[t]
    BY <2>2, ReturnsAlone, LockKind DEF OthersStay, MovesOn
  <2>3. ~Return(t)
    BY ReturnsAlone
  <2>4. ASSUME NEW how \in {"clean", "failed"}, Leave(how)
        PROVE  FALSE
    BY <2>4, LeaveEnds
  <2> QED
    BY <2>1, <2>2, <2>3, <2>4, StepKinds DEF caller
<1> QED
  BY <1>1, <1>2, <1>3

LEMMA NextRowInv ==
    ASSUME TypeOK, CommandInv, ContainerInv, RowInv, LinkInv, [Next]_vars, TypeOK'
    PROVE  RowInv'
<1> USE DockerAssumption
<1> SUFFICES ASSUME NEW u \in Connection, rows'[u] # None
             PROVE  Fits(rows[u], u)'
  BY DEF RowInv
<1>1. CASE rows'[u] = rows[u]
  <2>1. rows[u] \in Link /\ Fits(rows[u], u) /\ Saves(u, rows[u].id)
    BY <1>1 DEF RowInv, TypeOK, Saves
  <2>2. container'[rows[u].id].label = container[rows[u].id].label
    BY <2>1, LabelStays DEF Link
  <2> QED
    BY <1>1, <2>1, <2>2 DEF Fits
<1>2. CASE rows'[u] # rows[u]
  <2>1. PICK t \in Caller : /\ Continue(t) /\ at[t] = u /\ UNCHANGED <<container, volumes>>
                            /\ \/ Insert(t) /\ Return(t) /\ Making(t) /\ pc[t] = "insert" /\ rows'[u] = link[t]
                               \/ Identity(t) /\ rows[u] # None
                               \/ Endpoint(t) /\ rows[u] # None
    BY <1>2, NextRows
  <2>2. CASE Insert(t) /\ Making(t) /\ pc[t] = "insert" /\ rows'[u] = link[t]
    BY <2>1, <2>2 DEF LinkInv, Fits
  <2>3. CASE Identity(t) /\ rows[u] # None
    <3>1. PICK c \in cid[t] : rows'[u].id = c /\ rows'[u].own = rows[u].own /\ rows'[u].service = rows[u].service
      BY <1>2, <2>1, <2>3, RowWrites
    <3>2. pc[t] = "identity" /\ Reading(t)
      BY <2>3, ReadingLink DEF Identity
    <3>3. container[c].label = Wanted(t) /\ rows[u].own = link[t].own /\ rows[u].service = link[t].service
      BY <2>1, <2>3, <3>2 DEF LinkInv
    <3>4. Fits(rows[u], u)
      BY <2>3 DEF RowInv
    <3> QED
      BY <2>1, <3>1, <3>3, <3>4 DEF Fits, Wanted
  <2>4. CASE Endpoint(t) /\ rows[u] # None
    <3>1. rows'[u].id = rows[u].id /\ rows'[u].own = rows[u].own /\ rows'[u].service = rows[u].service
      BY <1>2, <2>1, <2>4, RowWrites
    <3>2. Fits(rows[u], u)
      BY <2>4 DEF RowInv
    <3> QED
      BY <2>1, <3>1, <3>2 DEF Fits
  <2> QED
    BY <2>1, <2>2, <2>3, <2>4
<1> QED
  BY <1>1, <1>2

\* A row that a command has read keeps its kind and its service.
LEMMA RowsAgree ==
    ASSUME TypeOK, CommandInv, UuidInv, LinkInv, [Next]_vars,
           NEW t \in Caller, ~Making(t), at[t] \in Connection, rows'[at[t]] # None
    PROVE  rows[at[t]] # None /\ rows'[at[t]].own = rows[at[t]].own /\ rows'[at[t]].service = rows[at[t]].service
<1>1. CASE rows'[at[t]] = rows[at[t]]
  BY <1>1
<1>2. CASE rows'[at[t]] # rows[at[t]]
  <2>1. PICK s \in Caller : /\ at[s] = at[t]
                            /\ \/ Insert(s) /\ Making(s)
                               \/ Identity(s) /\ rows[at[t]] # None
                               \/ Endpoint(s) /\ rows[at[t]] # None
    BY <1>2, NextRows
  <2>2. ~Making(s)
    BY <2>1 DEF UuidInv
  <2>3. CASE Identity(s)
    BY <1>2, <2>1, <2>3, RowWrites
  <2>4. CASE Endpoint(s)
    BY <1>2, <2>1, <2>4, RowWrites
  <2> QED
    BY <2>1, <2>2, <2>3, <2>4
<1> QED
  BY <1>1, <1>2

LEMMA NextLinkInv ==
    ASSUME TypeOK, CommandInv, UuidInv, ContainerInv, RowInv, LinkInv, [Next]_vars, TypeOK'
    PROVE  LinkInv'
<1> USE DockerAssumption
<1> DEFINE Fine(t) ==
        /\ job[t] = "create" => \A c \in cid[t] : container[c].label = at[t]
        /\ Making(t) /\ pc[t] \in {"probe", "insert"} =>
              /\ link[t] # None
              /\ Fits(link[t], at[t])
              /\ link[t].own = "created" <=> job[t] = "create"
              /\ link[t].port \in Port <=> job[t] = "create"
        /\ job[t] = "open" => \A c \in cid[t] : container[c].label = at[t]
        /\ job[t] = "exit" => \A c \in cid[t] : container[c].label \in Connection
        /\ Reading(t) =>
              /\ link[t] # None
              /\ job[t] = "open" => link[t].own = "created"
              /\ rows[at[t]] # None => rows[at[t]].own = link[t].own /\ rows[at[t]].service = link[t].service
              /\ link[t].own = "created" => link[t].service = None
              /\ pc[t] = "identity" => \A c \in cid[t] : container[c].label = Wanted(t)
<1>1. \A t \in Caller : Fine(t)
  BY DEF LinkInv
<1>2. \A t \in Caller : \A c \in cid[t] : c \in Container /\ container'[c].label = container[c].label
  BY LabelStays DEF Refers, TypeOK
<1>3. \A t \in Caller : link[t] # None =>
          link[t] \in Link /\ link[t].id \in Container
          /\ container'[link[t].id].label = container[link[t].id].label
  BY LabelStays DEF Refers, TypeOK, Link
<1>4. ASSUME NEW t \in Caller, UNCHANGED <<job[t], at[t], link[t], cid[t]>>,
             Making(t) /\ pc'[t] \in {"probe", "insert"} => pc[t] \in {"probe", "insert"},
             Reading(t)' => Reading(t),
             pc'[t] = "identity" => pc[t] = "identity"
      PROVE  Fine(t)'
  <2>1. Fine(t)
    BY <1>1
  <2>2. job[t] = "create" => \A c \in cid[t] : container'[c].label = at[t]
    BY <1>2, <2>1
  <2>3. /\ job[t] = "open" => \A c \in cid[t] : container'[c].label = at[t]
        /\ job[t] = "exit" => \A c \in cid[t] : container'[c].label \in Connection
    BY <1>2, <2>1
  <2>4. Making(t) /\ pc'[t] \in {"probe", "insert"} =>
            /\ link[t] # None
            /\ Fits(link[t], at[t])'
            /\ link[t].own = "created" <=> job[t] = "create"
            /\ link[t].port \in Port <=> job[t] = "create"
    BY <1>3, <1>4, <2>1 DEF Fits
  <2>5. ASSUME Reading(t)'
        PROVE  /\ link[t] # None
               /\ job[t] = "open" => link[t].own = "created"
               /\ rows'[at[t]] # None => rows'[at[t]].own = link[t].own /\ rows'[at[t]].service = link[t].service
               /\ link[t].own = "created" => link[t].service = None
               /\ pc'[t] = "identity" => \A c \in cid[t] : container'[c].label = Wanted(t)'
    <3>1. Reading(t) /\ at[t] \in Connection /\ ~Making(t)
      BY <1>4, <2>5 DEF CommandInv, Reading, Making
    <3>2. rows'[at[t]] # None => rows[at[t]] # None /\ rows'[at[t]].own = rows[at[t]].own
                                 /\ rows'[at[t]].service = rows[at[t]].service
      BY <3>1, RowsAgree
    <3>3. Wanted(t)' = Wanted(t)
      BY <1>4 DEF Wanted
    <3> QED
      BY <1>2, <1>4, <2>1, <3>1, <3>2, <3>3
  <2> QED
    BY <1>4, <2>2, <2>3, <2>4, <2>5 DEF Making
<1>5. ASSUME NEW t \in Caller, OthersStay(t), Fine(t)'
      PROVE  LinkInv'
  <2> SUFFICES ASSUME NEW s \in Caller \ {t}
               PROVE  Fine(s)'
    BY <1>5 DEF LinkInv
  <2>1. UNCHANGED <<pc[s], job[s], at[s], link[s], cid[s]>>
    BY <1>5 DEF OthersStay
  <2> QED
    BY <1>4, <2>1 DEF Reading
<1>6. ASSUME NEW t \in Caller, Calls(t)
      PROVE  LinkInv'
  <2>1. PICK j \in Job, s \in Stage, u \in Connection \cup {None}, cs \in SUBSET Container :
            /\ Call(t, j, s, u, cs)
            /\ \/ j = "create" /\ s = "run" /\ cs = {}
               \/ j = "link" /\ s = "prepare"
               \/ j \in {"open", "delete", "purge"} /\ s = "lock" /\ cs = {}
               \/ j \in {"control", "states"} /\ s = "getLink" /\ cs = {}
               \/ j = "exit" /\ cs = StopTargets
    <3>1. "prepare" \in Path("link") /\ \A s \in Path("link") : s \in {"prepare", "probe", "insert"}
      BY DEF Path
    <3>2. CASE \E u \in Connection, c \in Container : CallLink(t, u, c)
      <4>1. PICK u \in Connection, c \in Container : CallLink(t, u, c)
        BY <3>2
      <4>2. Call(t, "link", "prepare", u, {c}) /\ "link" \in Job /\ "prepare" \in Stage /\ {c} \in SUBSET Container
        BY <4>1 DEF CallLink, Job, Stage
      <4> QED
        BY <4>2
    <3>3. CASE ~\E u \in Connection, c \in Container : CallLink(t, u, c)
      <4>1. PICK j \in Job, s \in Stage, u \in Connection \cup {None}, cs \in SUBSET Container :
                /\ Call(t, j, s, u, cs)
                /\ j # "link"
                /\ \/ j = "create" /\ s = "run" /\ cs = {}
                   \/ j \in {"open", "delete", "purge"} /\ s = "lock" /\ cs = {}
                   \/ j \in {"control", "states"} /\ s = "getLink" /\ cs = {}
                   \/ j = "exit" /\ cs = StopTargets
        <5>1. StopTargets \in SUBSET Container /\ {} \in SUBSET Container
          BY DEF StopTargets, TypeOK, Link
        <5>2. "create" \in Job /\ "open" \in Job /\ "delete" \in Job /\ "purge" \in Job /\ "control" \in Job
              /\ "states" \in Job /\ "exit" \in Job /\ "run" \in Stage /\ "lock" \in Stage
              /\ "getLink" \in Stage /\ "stopAll" \in Stage
          BY DEF Job, Stage
        <5>3. CASE \E u \in Connection : CallCreate(t, u)
          BY <5>1, <5>2, <5>3 DEF CallCreate
        <5>4. CASE \E u \in Connection : CallLocked(t, u)
          BY <5>1, <5>2, <5>4 DEF CallLocked
        <5>5. CASE \E u \in Connection : CallUnlocked(t, u)
          BY <5>1, <5>2, <5>5 DEF CallUnlocked
        <5>6. CASE CallExit(t)
          BY <5>1, <5>2, <5>6 DEF CallExit
        <5> QED
          BY <1>6, <3>3, <5>3, <5>4, <5>5, <5>6 DEF Calls
      <4> QED
        BY <4>1
    <3> QED
      BY <3>2, <3>3
  <2>2. pc'[t] = s /\ job'[t] = j /\ cid'[t] = cs /\ container' = container /\ OthersStay(t)
    BY <2>1 DEF Call, Goto, OthersStay, TypeOK, world
  <2>3. \A c \in StopTargets : container[c].label \in Connection
    BY DEF StopTargets, RowInv, Fits
  <2>4. Fine(t)'
    <3>1. ~Reading(t)' /\ ~(Making(t)' /\ pc'[t] \in {"probe", "insert"})
      BY <2>1, <2>2 DEF Reading, Making
    <3>2. job'[t] \in {"create", "open"} => cid'[t] = {}
      BY <2>1, <2>2
    <3>3. job'[t] = "exit" => \A c \in cid'[t] : container'[c].label \in Connection
      BY <2>1, <2>2, <2>3
    <3> QED
      BY <3>1, <3>2, <3>3
  <2> QED
    BY <1>5, <2>2, <2>4
<1>7. ASSUME NEW t \in Caller, Return(t)
      PROVE  LinkInv'
  <2>1. Fine(t)'
    BY <1>7, ReturnsAlone DEF Reading, Making
  <2> QED
    BY <1>5, <1>7, <2>1, ReturnsAlone
<1>8. ASSUME NEW how \in {"clean", "failed"}, Leave(how)
      PROVE  LinkInv'
  BY <1>8, LeaveEnds DEF LinkInv, Reading, Making
<1>9. CASE UNCHANGED <<caller, lock, rows, fresh, volumes, heard>>
  <2>1. ASSUME NEW t \in Caller
        PROVE  UNCHANGED <<pc[t], job[t], at[t], link[t], cid[t]>>
    BY <1>9 DEF caller
  <2> QED
    BY <1>4, <2>1 DEF Reading, LinkInv
\* A command that goes on with what it has.
<1>10. ASSUME NEW t \in Caller, Continue(t), ~StopAll(t), ~Return(t), UNCHANGED <<link[t], cid[t]>>,
              Making(t) /\ pc'[t] \in {"probe", "insert"} => pc[t] \in {"probe", "insert"},
              Reading(t)' => Reading(t) \/ job[t] # job'[t],
              pc'[t] # "identity"
       PROVE  LinkInv'
  <2>1. (MovesOn(t) \/ Lock(t)) /\ OthersStay(t) /\ UNCHANGED <<job[t], at[t]>>
    BY <1>10, ContinueKinds, LockKind DEF MovesOn
  <2>2. Fine(t)'
    BY <1>4, <1>10, <2>1
  <2> QED
    BY <1>5, <2>1, <2>2
<1>11. ASSUME NEW t \in Caller, Continue(t), ~StopAll(t), ~Return(t)
       PROVE  OthersStay(t) /\ UNCHANGED <<job, at>>
  BY <1>11, ContinueKinds, LockKind DEF MovesOn
<1>12. ASSUME NEW t \in Caller, Continue(t), ~StopAll(t), ~Return(t)
       PROVE  LinkInv'
  <2> USE DEF world, caller, rest
  <2>1. pc[t] \in Path(job[t]) /\ job[t] \in Job
    BY DEF CommandInv, TypeOK
  <2>2. CASE Lock(t)
    BY <1>10, <1>12, <2>2, LockKind DEF Reading
  <2>3. CASE Probe(t) \/ Insert(t)
    <3>1. UNCHANGED <<link, cid>> /\ pc[t] \in {"probe", "insert"} /\ pc'[t] \in {"insert", "remove"}
      BY <1>12, <2>3 DEF Probe, Insert, Goto, TypeOK
    <3> QED
      BY <1>10, <1>11, <1>12, <3>1 DEF Reading
  <2>4. CASE Remove(t) \/ Ensure(t) \/ Endpoint(t)
    <3>1. /\ UNCHANGED <<link, cid>> /\ pc[t] \in {"remove", "ensure", "endpoint"}
          /\ pc'[t] \in {"removeVolume", "inspect", "probe"}
      BY <1>12, <2>4 DEF Remove, Ensure, Endpoint, Goto, TypeOK
    <3>2. pc'[t] = "probe" => ~Making(t)
      <4>1. CASE Remove(t) \/ Ensure(t)
        BY <1>12, <4>1 DEF Remove, Ensure, Goto, TypeOK
      <4>2. CASE Endpoint(t)
        BY <2>1, <4>2 DEF Endpoint, Path, Making
      <4> QED
        BY <2>4, <4>1, <4>2
    <3> QED
      BY <1>10, <1>11, <1>12, <3>1, <3>2 DEF Reading
  <2>5. CASE RemoveVolume(t) \/ ResolveFails(t) \/ Control(t)
    BY <1>12, <2>5 DEF RemoveVolume, ResolveFails, Control
  <2>6. CASE Run(t)
    <3>1. job[t] = "create" /\ at[t] \in Connection /\ link' = link /\ pc'[t] \in {"inspect", "lookup"}
      BY <2>1, <2>6 DEF Run, Path, CommandInv, Goto, TypeOK, Job
    <3>2. \A c \in cid'[t] : container'[c].label = at[t]
      <4>1. CASE cid' = cid
        BY <1>1, <1>2, <3>1, <4>1
      <4>2. CASE \E c \in Container : Makes(c, at[t]) /\ cid' = [cid EXCEPT ![t] = {c}]
        BY <3>1, <4>2, MakeEffects DEF TypeOK
      <4> QED
        BY <2>6, <4>1, <4>2 DEF Run
    <3>3. Fine(t)'
      BY <1>11, <1>12, <3>1, <3>2 DEF Reading
    <3> QED
      BY <1>5, <1>11, <1>12, <3>3
  <2>7. CASE Lookup(t)
    <3>1. job[t] = "create" /\ cid'[t] = Labelled(at[t]) /\ pc'[t] = "remove" /\ container' = container
      BY <1>12, <2>1, <2>7 DEF Lookup, Path, Goto, TypeOK, Job
    <3>2. Fine(t)'
      BY <1>11, <1>12, <3>1 DEF Labelled, Reading
    <3> QED
      BY <1>5, <1>11, <1>12, <3>2
  <2>8. CASE Inspect(t)
    <3>1. job[t] \in {"create", "open"} /\ cid' = cid /\ container' = container
      BY <1>12, <2>1, <2>8 DEF Inspect, Path, Job
    <3>2. CASE job[t] = "open"
      <4>1. PICK c \in cid[t] : link' = [link EXCEPT ![t] = [@ EXCEPT !.port = container[c].port]]
                                /\ pc' = [pc EXCEPT ![t] = "endpoint"]
        BY <1>12, <2>8, <3>2 DEF Inspect, Goto
      <4>2. Reading(t) /\ link[t] \in Link /\ at[t] \in Connection /\ c \in Container
            /\ container[c].port \in Port \cup {None}
        BY <2>8, <3>2, ReadingLink DEF Inspect, TypeOK
      <4>3. link'[t] = [link[t] EXCEPT !.port = container[c].port] /\ pc'[t] = "endpoint"
        BY <4>1 DEF TypeOK
      <4>4. link'[t] \in Link /\ link'[t].own = link[t].own /\ link'[t].service = link[t].service
        BY <4>2, <4>3, WithPort
      <4>5. rows' = rows
        BY <2>8 DEF Inspect
      <4>6. Fine(t)'
        BY <1>1, <1>11, <1>12, <3>1, <3>2, <4>2, <4>3, <4>4, <4>5 DEF Reading, Making
      <4> QED
        BY <1>5, <1>11, <1>12, <4>6
    <3>3. CASE job[t] = "create"
      <4>1. CASE link' = link /\ pc' = [pc EXCEPT ![t] = "remove"]
        <5>1. pc'[t] = "remove"
          BY <4>1 DEF TypeOK
        <5> QED
          BY <1>10, <1>11, <1>12, <3>1, <3>3, <4>1, <5>1 DEF Reading
      <4>2. CASE ~(link' = link /\ pc' = [pc EXCEPT ![t] = "remove"])
        <5>1. PICK c \in cid[t] : Running(c) /\ link' = [link EXCEPT ![t] = NewLink("created", c, container[c].port)]
                                  /\ pc' = [pc EXCEPT ![t] = "probe"]
          BY <1>12, <2>8, <3>3, <4>2 DEF Inspect, Goto
        <5>2. c \in Container /\ container[c].port \in Port
          BY <5>1 DEF ContainerInv, TypeOK
        <5>3. link'[t] = NewLink("created", c, container[c].port) /\ pc'[t] = "probe"
          BY <5>1 DEF TypeOK
        <5>4. /\ link'[t] \in Link /\ link'[t].own = "created" /\ link'[t].id = c
              /\ link'[t].port = container[c].port /\ link'[t].service = None
          BY <5>2, <5>3, NewLinkOK
        <5>5. container[c].label = at[t]
          BY <1>1, <3>3, <5>1
        <5>6. Fits(link[t], at[t])'
          BY <1>11, <1>12, <3>1, <5>4, <5>5 DEF Fits
        <5>7. Fine(t)'
          BY <1>1, <1>11, <1>12, <3>1, <3>3, <5>2, <5>3, <5>4, <5>6 DEF Reading, Making
        <5> QED
          BY <1>5, <1>11, <1>12, <5>7
      <4> QED
        BY <4>1, <4>2
    <3> QED
      BY <3>1, <3>2, <3>3
  <2>9. CASE Prepare(t)
    <3>1. job[t] = "link"
      BY <2>1, <2>9 DEF Prepare, Path, Job
    <3>2. PICK c \in cid[t] : link' = [link EXCEPT ![t] = NewLink("linked", c, None)] /\ cid' = cid
      BY <1>12, <2>9 DEF Prepare
    <3>3. link'[t] = NewLink("linked", c, None) /\ c \in Container
      BY <3>2 DEF TypeOK
    <3>4. /\ link'[t] \in Link /\ link'[t].own = "linked" /\ link'[t].id = c /\ link'[t].port = None
          /\ link'[t].service # None => link'[t].service = container[c].label
      BY <3>3, NewLinkOK
    <3>5. Fits(link[t], at[t])'
      BY <1>2, <1>11, <1>12, <3>2, <3>4 DEF Fits
    <3>6. Fine(t)'
      BY <1>11, <1>12, <3>1, <3>4, <3>5 DEF Reading, Making
    <3> QED
      BY <1>5, <1>11, <1>12, <3>6
  <2>10. CASE DeleteRow(t) \/ GetLink(t)
    <3>1. /\ rows[at[t]] # None /\ link' = [link EXCEPT ![t] = StoredLink(at[t])]
          /\ pc' = [pc EXCEPT ![t] = "resolve"] /\ cid' = cid /\ container' = container
      BY <1>12, <2>10 DEF DeleteRow, GetLink, Goto
    <3>2. at[t] \in Connection /\ job[t] \in {"open", "control", "states", "delete", "purge"}
      BY <2>1, <2>10 DEF DeleteRow, GetLink, CommandInv, Path, Job
    <3>3. rows[at[t]] \in Link /\ link'[t] = [rows[at[t]] EXCEPT !.port = None] /\ pc'[t] = "resolve"
      BY <3>1, <3>2 DEF TypeOK, StoredLink
    <3>4. link'[t] \in Link /\ link'[t].own = rows[at[t]].own /\ link'[t].service = rows[at[t]].service
      BY <3>3, WithPort
    <3>5. rows'[at[t]] \in {rows[at[t]], None}
      BY <2>10, RowWrites DEF GetLink
    <3>6. rows[at[t]].own = "created" => rows[at[t]].service = None
      BY <3>1, <3>2 DEF RowInv, Fits
    <3>7. job[t] = "open" => rows[at[t]].own = "created"
      BY <1>12, <2>1, <2>10 DEF DeleteRow, GetLink, Path
    <3>8. Fine(t)'
      BY <1>1, <1>11, <1>12, <3>1, <3>2, <3>3, <3>4, <3>5, <3>6, <3>7 DEF Making
    <3> QED
      BY <1>5, <1>11, <1>12, <3>8
  <2>11. CASE Resolve(t)
    <3>1. link[t] \in Link /\ pc[t] = "resolve" /\ Reading(t) /\ at[t] \in Connection
      BY <2>11, ReadingLink DEF Resolve
    <3>2. link[t].id \in Container /\ container[link[t].id].port \in Port \cup {None}
      BY <3>1 DEF Link, TypeOK
    <3>3. rows' = rows /\ container' = container
      BY <2>11 DEF Resolve
    <3>4. CASE Resolved(t, link[t].id, container[link[t].id].port) /\ (link[t].own = "created" => container[link[t].id].label = at[t])
      <4>1. /\ cid'[t] = {link[t].id} /\ link'[t] \in Link /\ link'[t].own = link[t].own
            /\ link'[t].service = link[t].service /\ pc'[t] # "identity" /\ pc'[t] \notin {"probe", "insert"}
        BY <1>12, <3>1, <3>2, <3>4, ResolvedGoes
      <4>2. Fine(t)'
        BY <1>1, <1>11, <1>12, <3>1, <3>3, <3>4, <4>1 DEF Reading
      <4> QED
        BY <1>5, <1>11, <1>12, <4>2
    <3>5. CASE pc' = [pc EXCEPT ![t] = "find"] /\ link' = link /\ cid' = cid
      BY <1>10, <1>12, <3>1, <3>5 DEF Reading, TypeOK
    <3> QED
      BY <2>11, <3>4, <3>5 DEF Resolve, Goto
  <2>12. CASE Find(t)
    <3>1. link[t] \in Link /\ Reading(t) /\ at[t] \in Connection
      BY <2>12, ReadingLink DEF Find
    <3>2. PICK c \in Container : /\ Labelled(Wanted(t)) = {c} /\ cid' = [cid EXCEPT ![t] = {c}]
                                 /\ link' = [link EXCEPT ![t].port = IF job[t] = "open" THEN container[c].port ELSE None]
      BY <2>12 DEF Find
    <3> DEFINE p == IF job[t] = "open" THEN container[c].port ELSE None
    <3>3. p \in Port \cup {None}
      BY DEF TypeOK
    <3>4. link'[t] = [link[t] EXCEPT !.port = p]
      BY <3>2 DEF TypeOK
    <3> HIDE DEF p
    <3>5. link'[t] \in Link /\ link'[t].own = link[t].own /\ link'[t].service = link[t].service
      BY <3>1, <3>3, <3>4, WithPort
    <3>6. cid'[t] = {c} /\ container[c].label = Wanted(t) /\ container' = container /\ rows' = rows
          /\ pc'[t] = "identity"
      BY <2>12, <3>2 DEF Find, Labelled, Goto, TypeOK
    <3>7. Wanted(t)' = Wanted(t)
      BY <1>11, <1>12, <3>5 DEF Wanted
    <3>8. job[t] = "open" => Wanted(t) = at[t]
      BY <1>1, <3>1 DEF Wanted
    <3>9. Fine(t)'
      BY <1>1, <1>11, <1>12, <3>1, <3>5, <3>6, <3>7, <3>8 DEF Reading, Making
    <3> QED
      BY <1>5, <1>11, <1>12, <3>9
  <2>13. CASE Identity(t)
    <3>1. link[t] \in Link /\ pc[t] = "identity" /\ Reading(t) /\ at[t] \in Connection
      BY <2>13, ReadingLink DEF Identity
    <3>2. PICK c \in cid[t] : Resolved(t, c, link[t].port)
      BY <2>13 DEF Identity
    <3>3. c \in Container /\ link[t].port \in Port \cup {None} /\ container' = container
      BY <2>13, <3>1 DEF Identity, Link, TypeOK
    <3>4. /\ cid'[t] = {c} /\ link'[t] \in Link /\ link'[t].own = link[t].own
          /\ link'[t].service = link[t].service /\ pc'[t] # "identity" /\ pc'[t] \notin {"probe", "insert"}
      BY <1>12, <3>1, <3>2, <3>3, ResolvedGoes
    <3>5. rows'[at[t]] # None => rows[at[t]] # None /\ rows'[at[t]].own = rows[at[t]].own
                                 /\ rows'[at[t]].service = rows[at[t]].service
      BY <3>1, RowsAgree DEF Reading, Making
    <3>6. Fine(t)'
      BY <1>1, <1>11, <1>12, <3>1, <3>3, <3>4, <3>5 DEF Reading
    <3> QED
      BY <1>5, <1>11, <1>12, <3>6
  <2> QED
    BY <1>12, <2>2, <2>3, <2>4, <2>5, <2>6, <2>7, <2>8, <2>9, <2>10, <2>11, <2>12, <2>13 DEF Continue
<1> QED
  BY <1>6, <1>7, <1>8, <1>9, <1>12, StepKinds

-----------------------------------------------------------------------------
(* Who writes what a uuid names. *)

\* The command and the connection of a caller stay the same until it returns.
LEMMA NextAt ==
    ASSUME TypeOK, CommandInv, LinkInv, [Next]_vars, NEW t \in Caller
    PROVE  \/ Calls(t)
           \/ job'[t] = job[t] /\ at'[t] = at[t] /\ (pc'[t] = pc[t] \/ Continue(t))
           \/ job'[t] = "none" /\ at'[t] = None /\ pc'[t] = "idle"
<1>1. ASSUME NEW s \in Caller, s # t, Calls(s)
      PROVE  job'[t] = job[t] /\ at'[t] = at[t] /\ pc'[t] = pc[t]
  BY <1>1, CallKinds DEF Call, Goto, TypeOK
<1>2. ASSUME NEW s \in Caller, s # t, Return(s) \/ MovesOn(s) \/ Lock(s)
      PROVE  job'[t] = job[t] /\ at'[t] = at[t] /\ pc'[t] = pc[t]
  BY <1>2, ReturnsAlone, LockKind DEF OthersStay, MovesOn
<1>3. ASSUME Return(t)
      PROVE  job'[t] = "none" /\ at'[t] = None /\ pc'[t] = "idle"
  BY <1>3, ReturnsAlone
<1>4. ASSUME MovesOn(t) \/ Lock(t)
      PROVE  job'[t] = job[t] /\ at'[t] = at[t]
  BY <1>4, LockKind DEF MovesOn
<1>5. ASSUME NEW how \in {"clean", "failed"}, Leave(how)
      PROVE  job'[t] = "none" /\ at'[t] = None /\ pc'[t] = "idle"
  BY <1>5, LeaveEnds
<1> QED
  BY <1>1, <1>2, <1>3, <1>4, <1>5, StepKinds DEF caller

\* A uuid is taken from those that are fresh by a call.
LEMMA NextFresh ==
    ASSUME TypeOK, CommandInv, LinkInv, [Next]_vars
    PROVE  fresh' \subseteq fresh
<1>1. ASSUME NEW t \in Caller, Continue(t), ~StopAll(t)
      PROVE  fresh' = fresh
  BY <1>1 DEF Continue, Run, Lookup, RemoveVolume, Lock, Inspect, Prepare, Probe, Insert, Remove,
     DeleteRow, GetLink, Resolve, Find, Identity, ResolveFails, Ensure, Endpoint, Control, rest
<1>2. ASSUME NEW t \in Caller, Calls(t)
      PROVE  fresh' \subseteq fresh
  BY <1>2, CallKinds
<1> QED
  BY <1>1, <1>2, StepKinds

LEMMA NextVolumes ==
    ASSUME TypeOK, CommandInv, LinkInv, [Next]_vars, NEW u
    PROVE  /\ u \in volumes' /\ u \notin volumes => \E t \in Caller : Run(t) /\ at[t] = u
           /\ u \in volumes /\ u \notin volumes' =>
                \E t \in Caller : RemoveVolume(t) /\ at[t] = u /\ ~OfLinked(t)
           /\ u \in cleaned' /\ u \notin cleaned =>
                /\ UNCHANGED container
                /\ u \in unseen' \/ Labelled(u) = {}
                /\ \E t \in Caller : /\ at[t] = u
                                     /\ \/ Lookup(t) /\ UNCHANGED volumes
                                        \/ RemoveVolume(t) /\ u \notin volumes'
           /\ u \in cleaned => u \in cleaned'
           /\ u \in unseen => u \in unseen'
<1> USE DEF world, rest, heard
<1>1. ASSUME NEW t \in Caller, Continue(t), ~StopAll(t), ~Run(t), ~Lookup(t), ~RemoveVolume(t)
      PROVE  UNCHANGED <<volumes, heard>>
  BY <1>1 DEF Continue, Lock, Inspect, Prepare, Probe, Insert, Remove, DeleteRow, GetLink, Resolve, Find,
     Identity, ResolveFails, Ensure, Endpoint, Control
<1>2. ASSUME NEW t \in Caller, Calls(t)
      PROVE  UNCHANGED <<volumes, heard>>
  BY <1>2, CallKinds DEF Call
<1>3. UNCHANGED <<volumes, heard>> \/ \E t \in Caller : Run(t) \/ Lookup(t) \/ RemoveVolume(t)
  BY <1>1, <1>2, StepKinds
<1>4. CASE UNCHANGED <<volumes, heard>>
  BY <1>4
<1>5. ASSUME NEW t \in Caller, Run(t)
      PROVE  UNCHANGED heard /\ volumes \subseteq volumes' /\ volumes' \subseteq volumes \cup {at[t]}
  BY <1>5 DEF Run
<1>6. ASSUME NEW t \in Caller, Lookup(t)
      PROVE  /\ UNCHANGED <<volumes, container>> /\ cleaned' \in {cleaned, cleaned \cup {at[t]}}
             /\ unseen \subseteq unseen'
             /\ cleaned' # cleaned => at[t] \in unseen' \/ Labelled(at[t]) = {}
  BY <1>6 DEF Lookup
<1>7. ASSUME NEW t \in Caller, RemoveVolume(t)
      PROVE  /\ UNCHANGED container
             /\ \/ UNCHANGED <<volumes, heard>>
                \/ /\ ~OfLinked(t) /\ Labelled(at[t]) = {} /\ volumes' = volumes \ {at[t]}
                   /\ cleaned' \in {cleaned, cleaned \cup {at[t]}} /\ UNCHANGED unseen
  BY <1>7 DEF RemoveVolume
<1>8. CASE \E t \in Caller : Run(t)
  BY <1>5, <1>8
<1>9. CASE \E t \in Caller : Lookup(t)
  BY <1>6, <1>9
<1>10. CASE \E t \in Caller : RemoveVolume(t)
  BY <1>7, <1>10
<1> QED
  BY <1>3, <1>4, <1>8, <1>9, <1>10

LEMMA NextLabels ==
    ASSUME TypeOK, CommandInv, ContainerInv, LinkInv, [Next]_vars,
           NEW u \in Connection, NEW c \in Container, container'[c].label = u, container[c].label # u
    PROVE  \/ \E t \in Caller : Run(t) /\ job[t] = "create" /\ at[t] = u
           \/ rows[u] # None /\ UNCHANGED volumes /\ UNCHANGED caller
              /\ \E d \in Container : Exists(d) /\ container[d].label = u
<1> USE DockerAssumption
<1>1. Made(c)
  BY ContainerEffects DEF Keeps
<1>2. ASSUME NEW d \in Container, UserRecreates(d, c)
      PROVE  UNCHANGED volumes /\ UNCHANGED caller
  BY <1>2 DEF UserRecreates, Outside
<1> QED
  BY <1>1, <1>2 DEF Made, Known

LEMMA NextUuidInv ==
    ASSUME TypeOK, CommandInv, UuidInv, ContainerInv, LinkInv, [Next]_vars, CommandInv', TypeOK'
    PROVE  UuidInv'
<1> USE DockerAssumption
<1>1. ASSUME NEW u \in fresh'
      PROVE  /\ rows'[u] = None /\ u \notin volumes' /\ u \notin cleaned'
             /\ \A c \in Container : container'[c].label # u
  <2>1. u \in fresh /\ u \in Connection
    BY <1>1, NextFresh DEF TypeOK
  <2>2. /\ rows[u] = None /\ u \notin volumes /\ u \notin cleaned
        /\ \A c \in Container : container[c].label # u
        /\ \A t \in Caller : at[t] # u
    BY <2>1 DEF UuidInv
  <2>3. rows'[u] = None
    BY <2>1, <2>2, NextRows
  <2>4. u \notin volumes' /\ u \notin cleaned'
    BY <2>2, NextVolumes
  <2>5. \A c \in Container : container'[c].label # u
    BY <2>1, <2>2, NextLabels
  <2> QED
    BY <2>3, <2>4, <2>5
\* A call that takes a uuid, or names a connection that is saved.
<1>2. ASSUME NEW t \in Caller, Calls(t)
      PROVE  /\ at'[t] \notin fresh' /\ OthersStay(t) /\ UNCHANGED rows
             /\ at'[t] \in Connection \cup {None}
             /\ at'[t] # None => \/ job'[t] \in {"create", "link"} /\ at'[t] \in fresh
                                 \/ job'[t] \notin {"create", "link"} /\ rows[at'[t]] # None
                                    /\ (job'[t] = "purge" => pc'[t] = "lock")
             /\ at'[t] = None => job'[t] = "exit"
  <2>1. PICK j \in Job, s \in Stage, u \in Connection \cup {None}, cs \in SUBSET Container :
            /\ Call(t, j, s, u, cs) /\ (j = "exit" <=> u = None)
            /\ \/ j \in {"create", "link"} /\ u \in fresh /\ fresh' = fresh \ {u}
               \/ j \in {"open", "delete", "purge"} /\ s = "lock" /\ rows[u] # None /\ fresh' = fresh
               \/ j \in {"control", "states"} /\ rows[u] # None /\ fresh' = fresh
               \/ j = "exit" /\ fresh' = fresh
    BY <1>2, CallKinds
  <2>2. pc'[t] = s /\ job'[t] = j /\ at'[t] = u /\ OthersStay(t) /\ UNCHANGED rows
    BY <2>1 DEF Call, Goto, OthersStay, TypeOK
  <2>3. u \notin fresh'
    <3>1. u \in fresh => rows[u] = None
      BY DEF UuidInv
    <3>2. None \notin fresh
      BY DEF TypeOK
    <3> QED
      BY <2>1, <3>1, <3>2
  <2> QED
    BY <2>1, <2>2, <2>3
<1>3. \A t \in Caller : at[t] \notin fresh'
  BY NextFresh DEF UuidInv
<1>4. ASSUME NEW t \in Caller
      PROVE  at'[t] \notin fresh'
  BY <1>2, <1>3, NextAt, NextFresh DEF TypeOK
<1>5. ASSUME NEW t \in Caller, Making(t)'
      PROVE  rows'[at'[t]] = None /\ \A s \in Caller \ {t} : at'[s] # at'[t]
  <2>0. at'[t] \in Connection
    BY <1>5 DEF CommandInv, Making
  <2>1. CASE Calls(t)
    <3>1. at'[t] \in fresh /\ UNCHANGED rows /\ OthersStay(t)
      BY <1>2, <1>5, <2>0, <2>1 DEF Making
    <3>2. rows[at'[t]] = None /\ \A s \in Caller : at[s] # at'[t]
      BY <3>1 DEF UuidInv
    <3> QED
      BY <3>1, <3>2 DEF OthersStay
  <2>2. CASE job'[t] = job[t] /\ at'[t] = at[t]
    <3>1. Making(t) /\ rows[at[t]] = None /\ (\A s \in Caller \ {t} : at[s] # at[t]) /\ at[t] \in Connection
      BY <1>5, <2>0, <2>2 DEF Making, UuidInv
    <3>2. rows'[at[t]] = None
      <4> SUFFICES ASSUME rows'[at[t]] # rows[at[t]], rows'[at[t]] # None
                   PROVE  FALSE
        BY <3>1
      <4>1. PICK s \in Caller : at[s] = at[t] /\ Return(s)
        BY <3>1, NextRows
      <4>2. Return(t)
        BY <3>1, <4>1
      <4> QED
        BY <1>5, <4>2, ReturnsAlone DEF Making
    <3>3. ASSUME NEW s \in Caller \ {t}
          PROVE  at'[s] # at[t]
      <4>1. CASE Calls(s)
        <5>1. at'[s] = at[t] => at'[s] \in fresh \/ rows[at'[s]] # None
          BY <1>2, <2>0, <2>2, <4>1
        <5> QED
          BY <3>1, <5>1 DEF UuidInv
      <4>2. CASE ~Calls(s)
        BY <3>1, <4>2, NextAt
      <4> QED
        BY <4>1, <4>2
    <3> QED
      BY <2>2, <3>2, <3>3
  <2> QED
    BY <1>5, <2>1, <2>2, NextAt DEF Making
<1>6. ASSUME NEW t \in Caller, job'[t] = "purge", pc'[t] \notin {"lock", "deleteRow"}
      PROVE  rows'[at'[t]] = None
  <2>1. ~Calls(t)
    BY <1>2, <1>6
  <2>2. job[t] = "purge" /\ at'[t] = at[t] /\ (pc'[t] = pc[t] \/ Continue(t))
    BY <1>6, <2>1, NextAt
  <2>3. at[t] \in Connection
    BY <2>2 DEF CommandInv
  <2>4. CASE rows[at[t]] = None
    <3> SUFFICES ASSUME rows'[at[t]] # rows[at[t]], rows'[at[t]] # None
                 PROVE  FALSE
      BY <2>2, <2>4
    <3>1. PICK s \in Caller : at[s] = at[t] /\ Making(s)
      BY <2>3, <2>4, NextRows
    <3>2. s # t
      BY <2>2, <3>1 DEF Making
    <3> QED
      BY <3>1, <3>2 DEF UuidInv
  <2>5. CASE rows[at[t]] # None
    <3>1. pc[t] \in {"lock", "deleteRow"}
      BY <2>2, <2>5 DEF UuidInv
    <3>2. Continue(t)
      BY <1>6, <2>2, <3>1
    <3>3. Lock(t) \/ DeleteRow(t)
      BY <3>1, <3>2 DEF Continue, Run, Lookup, RemoveVolume, Inspect, Prepare, Probe, Insert, Remove,
         GetLink, Resolve, Find, Identity, ResolveFails, Ensure, Endpoint, Control, StopAll
    <3>4. CASE Lock(t)
      BY <1>6, <2>2, <3>4, LockKind
    <3>5. CASE DeleteRow(t)
      <4>1. ~Return(t)
        BY <1>6, ReturnsAlone
      <4>2. rows' = [rows EXCEPT ![at[t]] = None]
        BY <3>5, <4>1 DEF DeleteRow
      <4> QED
        BY <2>2, <2>3, <4>2 DEF TypeOK
    <3> QED
      BY <3>3, <3>4, <3>5
  <2> QED
    BY <2>4, <2>5
<1> QED
  BY <1>1, <1>4, <1>5, <1>6 DEF UuidInv

\* A container with a uuid comes from the creation that generated it, or is
\* made anew from one that was there.
LEMMA NextLabelled ==
    ASSUME TypeOK, CommandInv, ContainerInv, LinkInv, [Next]_vars,
           NEW u \in Connection, Labelled(u)' # {}
    PROVE  Labelled(u) # {} \/ \E t \in Caller : Run(t) /\ job[t] = "create" /\ at[t] = u
<1>1. PICK c \in Container : Exists(c)' /\ container'[c].label = u
  BY DEF Labelled
<1>2. CASE container[c].label = u
  <2>1. container[c].status \notin {"unused", "gone"}
    <3>1. container[c].status = "unused" => container[c].label = None
      BY DEF ContainerInv
    <3> QED
      BY <1>1, <1>2, <3>1, ContainerEffects, DockerAssumption DEF Keeps, Made, Exists
  <2>2. Exists(c)
    BY <2>1 DEF Exists, TypeOK
  <2> QED
    BY <1>2, <2>2 DEF Labelled
<1>3. CASE container[c].label # u
  BY <1>1, <1>3, NextLabels DEF Labelled
<1> QED
  BY <1>2, <1>3

\* Only a command that refers to a container removes it, or a user who knows it.
LEMMA NextGone ==
    ASSUME TypeOK, CommandInv, LinkInv, [Next]_vars, NEW c \in Container, Exists(c), ~Exists(c)'
    PROVE  Known(c) \/ \E t \in Caller : Remove(t) /\ c \in cid[t]
<1> USE DEF world
<1>1. container' # container
  BY DEF Exists
<1>2. ASSUME NEW d \in Container, Starts(d) \/ Restarts(d)
      PROVE  FALSE
  BY <1>2, CommandsKeep
<1>3. ASSUME NEW cs \in SUBSET Container, Stops(cs)
      PROVE  FALSE
  BY <1>3, CommandsKeep
<1>4. ASSUME NEW d \in Container, Removes(d), d # c
      PROVE  FALSE
  BY <1>4 DEF Removes, TypeOK, Exists
<1>5. \A t \in Caller : cid[t] \subseteq Container
  BY DEF TypeOK
<1>6. ASSUME NEW t \in Caller, Run(t)
      PROVE  FALSE
  <2>1. PICK d \in Container : Makes(d, at[t])
    BY <1>1, <1>6 DEF Run
  <2>2. d # c
    BY <2>1 DEF Makes, Exists
  <2>3. container'[c] = container[c]
    BY <2>1, <2>2 DEF Makes, TypeOK
  <2> QED
    BY <2>3 DEF Exists
<1>7. ASSUME NEW t \in Caller, Prepare(t) \/ Ensure(t) \/ Control(t) \/ StopAll(t)
      PROVE  FALSE
  <2>1. CASE Prepare(t) \/ Ensure(t)
    BY <1>1, <1>2, <1>5, <2>1 DEF Prepare, Ensure
  <2>2. CASE Control(t)
    BY <1>1, <1>2, <1>3, <1>5, <2>2 DEF Control
  <2>3. CASE StopAll(t)
    <3>1. ASSUME NEW cs \in SUBSET cid[t]
          PROVE  cs \in SUBSET Container
      BY <1>5
    <3> QED
      BY <1>3, <1>5, <2>3, <3>1 DEF StopAll
  <2> QED
    BY <1>7, <2>1, <2>2, <2>3
<1>8. ASSUME NEW t \in Caller, Remove(t)
      PROVE  c \in cid[t]
  BY <1>1, <1>4, <1>5, <1>8 DEF Remove
<1>9. ASSUME NEW t \in Caller, Continue(t)
      PROVE  Remove(t)
  BY <1>1, <1>6, <1>7, <1>9 DEF Continue, Lock, Lookup, Inspect, Probe, Insert, RemoveVolume, DeleteRow,
     GetLink, Resolve, Find, Identity, ResolveFails, Endpoint
<1>10. ASSUME NEW t \in Caller, Calls(t)
       PROVE  FALSE
  BY <1>1, <1>10, CallKinds DEF Call
<1>11. CASE User
  <2>1. ASSUME NEW d \in Container, UserStarts(d) \/ UserStops(d)
        PROVE  FALSE
    <3>1. {d} \in SUBSET Container
      OBVIOUS
    <3> QED
      BY <1>2, <1>3, <2>1, <3>1 DEF UserStarts, UserStops
  <2>2. ASSUME NEW d \in Container, UserRemoves(d)
        PROVE  Known(c)
    BY <1>4, <2>2 DEF UserRemoves
  <2>3. ASSUME NEW d \in Container, NEW e \in Container, UserRecreates(d, e)
        PROVE  Known(c)
    <3>1. d = c \/ e = c \/ container'[c] = container[c]
      BY <2>3 DEF UserRecreates, TypeOK
    <3>2. e # c
      BY <2>3 DEF UserRecreates, Exists
    <3> QED
      BY <2>3, <3>1, <3>2 DEF UserRecreates, Exists
  <2> QED
    BY <1>11, <2>1, <2>2, <2>3 DEF User
<1> QED
  BY <1>1, <1>8, <1>9, <1>10, <1>11 DEF Next, vars, Crash, Launch

LEMMA NextVolumeInv ==
    ASSUME TypeOK, CommandInv, UuidInv, ContainerInv, PrivateInv, LinkInv, VolumeInv, [Next]_vars, TypeOK'
    PROVE  VolumeInv'
<1> USE DockerAssumption
\* The command that uses a uuid which is not saved yet, or any more.
<1>1. ASSUME NEW t \in Caller, NEW s \in Caller, job[t] = "create", at[s] = at[t]
      PROVE  s = t
  BY <1>1 DEF UuidInv, Making
<1>2. ASSUME NEW t \in Caller, RemoveVolume(t)
      PROVE  rows[at[t]] = None
  <2>1. job[t] \in {"create", "purge"} /\ pc[t] = "removeVolume"
    BY <1>2 DEF RemoveVolume, CommandInv, Path, TypeOK, Job
  <2> QED
    BY <2>1 DEF UuidInv, Making
<1>3. ASSUME NEW t \in Caller, Run(t)
      PROVE  /\ job[t] = "create" /\ at[t] \notin cleaned /\ at[t] \notin volumes
             /\ \A c \in Container : container[c].label # at[t]
             /\ pc[t] = "run"
  <2>1. job[t] = "create" /\ pc[t] = "run"
    BY <1>3 DEF Run, CommandInv, Path, TypeOK, Job
  <2> QED
    BY <2>1 DEF VolumeInv
<1>4. SavedDataIsKept'
  <2> SUFFICES ASSUME NEW u \in Connection, rows'[u] # None, rows'[u].own = "created"
               PROVE  u \in volumes'
    BY DEF SavedDataIsKept
  <2>1. CASE rows'[u] = rows[u]
    <3>1. u \in volumes
      BY <2>1 DEF VolumeInv, SavedDataIsKept
    <3>2. ~\E t \in Caller : RemoveVolume(t) /\ at[t] = u
      BY <1>2, <2>1
    <3> QED
      BY <3>1, <3>2, NextVolumes
  <2>2. CASE rows'[u] # rows[u]
    <3>1. PICK t \in Caller : /\ Continue(t) /\ at[t] = u /\ UNCHANGED volumes
                              /\ \/ Insert(t) /\ Making(t) /\ pc[t] = "insert" /\ rows'[u] = link[t]
                                 \/ Identity(t) /\ rows[u] # None
                                 \/ Endpoint(t) /\ rows[u] # None
      BY <2>2, NextRows
    <3>2. CASE Insert(t) /\ Making(t) /\ pc[t] = "insert" /\ rows'[u] = link[t]
      <4>1. job[t] = "create"
        BY <3>2 DEF LinkInv
      <4> QED
        BY <3>1, <3>2, <4>1 DEF VolumeInv
    <3>3. CASE (Identity(t) \/ Endpoint(t)) /\ rows[u] # None
      <4>1. rows'[u].own = rows[u].own
        BY <2>2, <3>1, <3>3, RowWrites
      <4> QED
        BY <3>1, <3>3, <4>1 DEF VolumeInv, SavedDataIsKept
    <3> QED
      BY <3>1, <3>2, <3>3
  <2> QED
    BY <2>1, <2>2
<1>5. NothingLeftBehind'
  <2> SUFFICES ASSUME NEW u \in cleaned', u \notin unseen'
               PROVE  Labelled(u)' = {} /\ u \notin volumes'
    BY DEF NothingLeftBehind
  <2>1. u \in Connection
    BY DEF TypeOK
  <2>2. CASE u \in cleaned
    <3>1. Labelled(u) = {} /\ u \notin volumes
      BY <2>2, NextVolumes DEF VolumeInv, NothingLeftBehind
    <3>2. ~\E t \in Caller : Run(t) /\ at[t] = u
      BY <1>3, <2>2
    <3> QED
      BY <2>1, <3>1, <3>2, NextLabelled, NextVolumes
  <2>3. CASE u \notin cleaned
    <3>1. Labelled(u) = {} /\ UNCHANGED container
      BY <2>3, NextVolumes
    <3>2. PICK t \in Caller : /\ at[t] = u
                              /\ \/ Lookup(t) /\ UNCHANGED volumes
                                 \/ RemoveVolume(t) /\ u \notin volumes'
      BY <2>3, NextVolumes
    <3>3. CASE Lookup(t) /\ UNCHANGED volumes
      <4>1. job[t] = "create" /\ pc[t] = "lookup"
        BY <3>3 DEF Lookup, CommandInv, Path, TypeOK, Job
      <4> QED
        BY <3>1, <3>2, <3>3, <4>1 DEF VolumeInv, Labelled, Exists
    <3> QED
      BY <3>1, <3>2, <3>3 DEF Labelled, Exists
  <2> QED
    BY <2>2, <2>3
<1> DEFINE Kept(t) == /\ pc[t] \in {"inspect", "probe", "insert"} => at[t] \in volumes
                      /\ pc[t] = "run" => /\ at[t] \notin volumes /\ at[t] \notin cleaned
                                          /\ \A c \in Container : container[c].label # at[t]
                      /\ pc[t] = "lookup" => (Labelled(at[t]) = {} => at[t] \notin volumes)
<1>6. ASSUME NEW t \in Caller, job'[t] = "create"
      PROVE  Kept(t)'
  <2>1. CASE Calls(t)
    <3>1. PICK j \in Job, s \in Stage, u \in Connection \cup {None}, cs \in SUBSET Container :
              Call(t, j, s, u, cs) /\ (j = "create" => u \in fresh /\ s = "run")
      BY <2>1, CallKinds
    <3>2. pc'[t] = "run" /\ at'[t] \in fresh /\ UNCHANGED <<container, volumes, heard>>
      BY <1>6, <3>1 DEF Call, Goto, TypeOK, world
    <3> QED
      BY <3>2 DEF UuidInv, heard
  <2>2. CASE ~Calls(t)
    <3>1. job[t] = "create" /\ at'[t] = at[t] /\ (pc'[t] = pc[t] \/ Continue(t))
      BY <1>6, <2>2, NextAt
    <3>2. at[t] \in Connection /\ Kept(t) /\ Making(t)
      BY <3>1 DEF CommandInv, VolumeInv, Making
    <3>3. ~Return(t)
      BY <1>6, ReturnsAlone
    <3>4. \A s \in Caller : RemoveVolume(s) => at[s] # at[t]
      BY <1>1, <3>1, <3>3 DEF RemoveVolume
    <3>5. at[t] \in volumes => at[t] \in volumes'
      BY <3>4, NextVolumes
    <3>6. CASE Run(t)
      <4>1. CASE \E c \in Container : Makes(c, at[t]) /\ volumes' = volumes \cup {at[t]}
        <5>1. PICK c \in Container : Makes(c, at[t]) /\ volumes' = volumes \cup {at[t]}
          BY <4>1
        <5>2. container'[c].label = at[t] /\ container'[c].status \in {"running", "stopped"}
          BY <3>2, <5>1, MakeEffects
        <5>3. Labelled(at[t])' # {}
          BY <3>1, <5>2 DEF Labelled, Exists
        <5>4. pc'[t] \in {"inspect", "lookup"}
          BY <3>6 DEF Run, Goto, TypeOK
        <5> QED
          BY <3>1, <5>1, <5>3, <5>4 DEF Labelled
      <4>2. CASE UNCHANGED world /\ Goto(t, "lookup")
        <5>1. pc'[t] = "lookup" /\ UNCHANGED <<container, volumes>>
          BY <4>2 DEF Goto, TypeOK, world
        <5> QED
          BY <1>3, <3>1, <3>6, <5>1
      <4> QED
        BY <3>6, <4>1, <4>2 DEF Run
    <3>7. CASE ~Run(t) /\ Continue(t)
      <4>1. pc[t] \in {"run", "lookup", "inspect", "probe", "insert", "remove", "removeVolume"}
        BY <3>1 DEF CommandInv, Path
      <4>2. Lookup(t) \/ Inspect(t) \/ Probe(t) \/ Insert(t) \/ Remove(t) \/ RemoveVolume(t)
        BY <3>7, <4>1 DEF Continue, Lock, Prepare, DeleteRow, GetLink, Resolve, Find, Identity,
           ResolveFails, Ensure, Endpoint, Control, StopAll
      <4>3. \/ pc'[t] = "remove" \/ pc'[t] = "removeVolume"
            \/ pc[t] = "inspect" /\ pc'[t] = "probe"
            \/ pc[t] = "probe" /\ pc'[t] = "insert"
        BY <3>1, <3>3, <4>2 DEF Lookup, Inspect, Probe, Insert, Remove, RemoveVolume, Goto, TypeOK
      <4> QED
        BY <3>1, <3>2, <3>5, <4>3
    <3>8. CASE ~Run(t) /\ pc'[t] = pc[t]
      <4>1. \A s \in Caller : Run(s) => at[s] # at[t]
        BY <1>1, <3>1, <3>8
      <4>2. at[t] \notin volumes => at[t] \notin volumes'
        BY <4>1, NextVolumes
      <4>3. pc[t] = "run" /\ at[t] \notin cleaned => at[t] \notin cleaned'
        BY <1>1, <3>1, NextVolumes DEF Lookup, RemoveVolume
      <4>4. ASSUME NEW c \in Container, container[c].label # at[t]
            PROVE  container'[c].label # at[t]
        BY <3>2, <4>1, <4>4, NextLabels DEF UuidInv
      <4>5. ASSUME pc[t] = "lookup", Labelled(at[t]) # {}
            PROVE  Labelled(at[t])' # {}
        <5>1. PICK c \in Container : Exists(c) /\ container[c].label = at[t]
          BY <4>5 DEF Labelled
        <5>2. ~Known(c)
          BY <3>2, <5>1, MakingUnknown
        <5>3. \A s \in Caller : Remove(s) => c \notin cid[s]
          BY <3>1, <4>5, <5>1 DEF PrivateInv, Refers, Remove
        <5>4. Exists(c)'
          BY <5>1, <5>2, <5>3, NextGone
        <5>5. container'[c].label = at[t]
          BY <5>1, LabelStays DEF Exists
        <5> QED
          BY <3>1, <5>4, <5>5 DEF Labelled
      <4> QED
        BY <3>1, <3>2, <3>5, <3>8, <4>2, <4>3, <4>4, <4>5
    <3> QED
      BY <3>1, <3>6, <3>7, <3>8
  <2> QED
    BY <2>1, <2>2
<1> QED
  BY <1>4, <1>5, <1>6 DEF VolumeInv

-----------------------------------------------------------------------------
(* An open and its container. *)

LEMMA NextStays ==
    ASSUME TypeOK, CommandInv, LinkInv, [Next]_vars, NEW t \in Caller, ~Calls(t), job'[t] # "none"
    PROVE  \/ Continue(t) /\ ~StopAll(t) /\ ~Return(t) /\ (MovesOn(t) \/ Lock(t))
           \/ UNCHANGED <<pc[t], job[t], at[t], link[t], cid[t]>>
<1>1. ASSUME NEW s \in Caller, s # t, Calls(s)
      PROVE  UNCHANGED <<pc[t], job[t], at[t], link[t], cid[t]>>
  BY <1>1, CallKinds DEF Call, Goto, TypeOK
<1>2. ASSUME NEW s \in Caller, s # t, Return(s) \/ MovesOn(s) \/ Lock(s)
      PROVE  UNCHANGED <<pc[t], job[t], at[t], link[t], cid[t]>>
  BY <1>2, ReturnsAlone, LockKind DEF OthersStay, MovesOn
<1>3. ~Return(t)
  BY ReturnsAlone
<1>4. ASSUME NEW how \in {"clean", "failed"}, Leave(how)
      PROVE  FALSE
  BY <1>4, LeaveEnds
<1>5. CASE UNCHANGED <<caller, lock, rows, fresh, volumes, heard>>
  BY <1>5 DEF caller
<1> QED
  BY <1>1, <1>2, <1>3, <1>4, <1>5, StepKinds

\* While an open counts as not moved its container is as it was.
LEMMA NextMoved ==
    ASSUME TypeOK, CommandInv, ContainerInv, LinkInv, [Next]_vars,
           NEW t \in Caller, job'[t] = "open", ~moved'[t]
    PROVE  \/ ~moved[t] /\ \A c \in cid[t] : container'[c] = container[c]
           \/ (Inspect(t) \/ Resolve(t) \/ Find(t)) /\ UNCHANGED container
<1> USE DEF world, rest
<1> DEFINE Same == ~moved[t] /\ \A c \in cid[t] : container'[c] = container[c]
<1>1. CASE UNCHANGED <<moved, container>>
  BY <1>1
<1>2. CASE Moves
  BY <1>2 DEF Moves
<1>3. ASSUME NEW s \in Caller, Continue(s)
      PROVE  Same \/ ((Inspect(t) \/ Resolve(t) \/ Find(t)) /\ UNCHANGED container)
  <2>1. CASE Run(s)
    <3>1. moved' = moved
      BY <2>1 DEF Run
    <3>2. CASE \E c \in Container : Makes(c, at[s])
      <4>1. PICK c \in Container : Makes(c, at[s])
        BY <3>2
      <4>2. container[c].status = "unused" /\ \A d \in Container : d # c => container'[d] = container[d]
        BY <4>1 DEF Makes, TypeOK
      <4>3. c \notin cid[t] /\ cid[t] \subseteq Container
        BY <4>2 DEF ContainerInv, Refers, TypeOK
      <4>4. \A d \in cid[t] : container'[d] = container[d]
        BY <4>2, <4>3
      <4> QED
        BY <3>1, <4>4
    <3> QED
      BY <1>1, <2>1, <3>1, <3>2 DEF Run
  <2>2. CASE Inspect(s) \/ Resolve(s) \/ Find(s)
    <3>1. UNCHANGED container /\ (moved' = moved \/ moved' = [moved EXCEPT ![s] = FALSE])
      BY <2>2 DEF Inspect, Resolve, Find
    <3>2. s # t => moved'[t] = moved[t]
      BY <3>1 DEF TypeOK
    <3> QED
      BY <2>2, <3>1, <3>2
  <2>3. CASE Prepare(s) \/ Probe(s) \/ Remove(s) \/ Ensure(s) \/ Endpoint(s) \/ Control(s)
    <3>1. Moves
      BY <2>3 DEF Prepare, Probe, Remove, Ensure, Endpoint, Control
    <3> QED
      BY <1>2, <3>1
  <2>4. CASE StopAll(s)
    BY <2>4, LeaveEnds DEF StopAll
  <2>5. CASE Lock(s) \/ Lookup(s) \/ Insert(s) \/ RemoveVolume(s) \/ DeleteRow(s) \/ GetLink(s) \/ Identity(s)
             \/ ResolveFails(s)
    BY <1>1, <2>5 DEF Lock, Lookup, Insert, RemoveVolume, DeleteRow, GetLink, Identity, ResolveFails
  <2> QED
    BY <1>3, <2>1, <2>2, <2>3, <2>4, <2>5 DEF Continue
<1>4. ASSUME NEW s \in Caller, Calls(s)
      PROVE  Same
  BY <1>1, <1>4, CallKinds DEF Call
<1>5. CASE User
  BY <1>2, <1>5 DEF User, UserStarts, UserStops, UserRemoves, UserRecreates, Outside
<1>6. CASE Crash
  BY <1>6, LeaveEnds DEF Crash
<1>7. CASE Launch \/ UNCHANGED vars
  BY <1>1, <1>7 DEF Launch, vars
<1> QED
  BY <1>3, <1>4, <1>5, <1>6, <1>7 DEF Next

LEMMA NextOpenInv ==
    ASSUME TypeOK, CommandInv, UuidInv, ContainerInv, LinkInv, OpenInv, [Next]_vars, TypeOK'
    PROVE  OpenInv'
<1> USE DockerAssumption DEF world, rest
<1> SUFFICES ASSUME NEW t \in Caller, job'[t] = "open"
             PROVE  /\ \A c, d \in cid'[t] : c = d
                    /\ pc'[t] \notin {"lock", "getLink"} => rows'[at'[t]] # None
                    /\ AsRead(t)'
  BY DEF OpenInv
<1>1. CASE Calls(t)
  <2>1. PICK j \in Job, s \in Stage, u \in Connection \cup {None}, cs \in SUBSET Container :
            Call(t, j, s, u, cs) /\ (j = "open" => s = "lock" /\ cs = {})
    BY <1>1, CallKinds
  <2>2. pc'[t] = "lock" /\ cid'[t] = {}
    BY <2>1 DEF Call, Goto, TypeOK
  <2> QED
    BY <2>2 DEF AsRead
<1>2. CASE ~Calls(t)
  <2>1. job[t] = "open" /\ at'[t] = at[t] /\ at[t] \in Connection
    BY <1>2, NextAt DEF CommandInv
  <2>2. (\A c, d \in cid[t] : c = d) /\ (pc[t] \notin {"lock", "getLink"} => rows[at[t]] # None) /\ AsRead(t)
    BY <2>1 DEF OpenInv
  <2>3. ~Making(t)
    BY <2>1 DEF Making
\* Only the command that has the connect lock deletes the row.
  <2>4. ASSUME pc[t] # "lock", rows[at[t]] # None
        PROVE  /\ rows'[at[t]] # None
               /\ ~Endpoint(t) => rows'[at[t]].port = rows[at[t]].port
    <3>1. lock[at[t]] = t
      BY <2>1, <2>4 DEF CommandInv
    <3> SUFFICES ASSUME rows'[at[t]] # rows[at[t]]
                 PROVE  /\ rows'[at[t]] # None
                        /\ ~Endpoint(t) => rows'[at[t]].port = rows[at[t]].port
      BY <2>4
    <3>2. PICK s \in Caller : /\ Continue(s) /\ at[s] = at[t]
                              /\ \/ Insert(s) /\ Making(s)
                                 \/ DeleteRow(s) /\ lock[at[t]] = s
                                 \/ Identity(s) /\ rows'[at[t]] # None
                                 \/ Endpoint(s) /\ rows'[at[t]] # None
      BY <2>1, NextRows
    <3>3. ~Making(s)
      BY <2>4, <3>2 DEF UuidInv
    <3>4. ~(DeleteRow(s) /\ lock[at[t]] = s)
      BY <2>1, <3>1 DEF DeleteRow, CommandInv, Path
    <3>5. CASE Identity(s) /\ rows'[at[t]] # None
      <4>1. rows'[at[t]].port = rows[at[t]].port
        BY <2>4, <3>2, <3>5, RowWrites
      <4> QED
        BY <3>5, <4>1
    <3>6. CASE Endpoint(s) /\ rows'[at[t]] # None
      <4>1. job[s] = "open" /\ pc[s] # "lock"
        BY <3>6 DEF Endpoint, CommandInv, Path, TypeOK, Job
      <4>2. s = t
        BY <3>1, <3>2, <4>1 DEF CommandInv
      <4> QED
        BY <3>6, <4>2
    <3> QED
      BY <3>2, <3>3, <3>4, <3>5, <3>6
\* Somebody else's step.
  <2>5. CASE UNCHANGED <<pc[t], job[t], at[t], link[t], cid[t]>> /\ ~(Inspect(t) \/ Resolve(t) \/ Find(t) \/ Endpoint(t))
    <3>1. ~moved'[t] => ~moved[t] /\ \A c \in cid[t] : container'[c] = container[c]
      BY <1>2, <2>1, <2>5, NextMoved
    <3>2. pc[t] \notin {"lock", "getLink"} => rows'[at[t]] # None /\ rows'[at[t]].port = rows[at[t]].port
      BY <2>2, <2>4, <2>5
    <3>3. AsRead(t)'
      BY <2>1, <2>2, <2>5, <3>1, <3>2 DEF AsRead, Running
    <3> QED
      BY <2>1, <2>2, <2>5, <3>2, <3>3
\* Its own.
  <2>6. CASE Continue(t) /\ ~Return(t) /\ (MovesOn(t) \/ Lock(t))
    <3>1. pc[t] \in Path("open")
      BY <2>1 DEF CommandInv
    <3>2. \/ Lock(t) \/ GetLink(t) \/ Resolve(t) \/ Find(t) \/ Identity(t) \/ Ensure(t) \/ Inspect(t)
          \/ Endpoint(t) \/ Probe(t)
      BY <2>6, <3>1 DEF Path, Continue, Run, Lookup, Prepare, Insert, Remove, RemoveVolume, DeleteRow,
         ResolveFails, Control, StopAll
    <3>3. CASE Lock(t)
      <4>1. pc'[t] = "getLink" /\ cid' = cid
        BY <2>1, <3>3, LockKind
      <4> QED
        BY <2>2, <4>1 DEF AsRead
    <3>4. CASE GetLink(t)
      <4>1. rows[at[t]] # None /\ pc'[t] = "resolve" /\ cid' = cid /\ rows' = rows
        BY <2>6, <3>4 DEF GetLink, Goto, TypeOK
      <4> QED
        BY <2>1, <2>2, <4>1 DEF AsRead
    <3>5. CASE Resolve(t)
      <4>1. link[t] \in Link /\ pc[t] = "resolve"
        BY <3>5, ReadingLink DEF Resolve
      <4>2. link[t].id \in Container /\ container[link[t].id].port \in Port \cup {None}
        BY <4>1 DEF Link, TypeOK
      <4>3. rows' = rows /\ container' = container
        BY <3>5 DEF Resolve
      <4>4. CASE Resolved(t, link[t].id, container[link[t].id].port)
        <5>1. /\ cid'[t] = {link[t].id} /\ link'[t].port = container[link[t].id].port
              /\ pc'[t] \in {"ensure", "endpoint"}
          BY <2>1, <2>6, <4>1, <4>2, <4>4, ResolvedGoes
        <5> QED
          BY <2>1, <2>2, <4>1, <4>3, <5>1 DEF AsRead
      <4>5. CASE Goto(t, "find") /\ cid' = cid
        <5>1. pc'[t] = "find"
          BY <4>5 DEF Goto, TypeOK
        <5> QED
          BY <2>1, <2>2, <4>1, <4>3, <4>5, <5>1 DEF AsRead
      <4> QED
        BY <3>5, <4>4, <4>5 DEF Resolve
    <3>6. CASE Find(t)
      <4>1. PICK c \in Container : /\ cid' = [cid EXCEPT ![t] = {c}]
                                   /\ link' = [link EXCEPT ![t].port = IF job[t] = "open" THEN container[c].port ELSE None]
        BY <3>6 DEF Find
      <4>2. link[t] \in Link
        BY <3>6, ReadingLink DEF Find
      <4>3. link'[t] = [link[t] EXCEPT !.port = container[c].port] /\ cid'[t] = {c}
        BY <2>1, <4>1 DEF TypeOK
      <4>4. link'[t].port = container[c].port
        BY <4>2, <4>3 DEF Link
      <4>5. pc'[t] = "identity" /\ pc[t] = "find" /\ rows' = rows /\ container' = container
        BY <3>6 DEF Find, Goto, TypeOK
      <4> QED
        BY <2>1, <2>2, <4>3, <4>4, <4>5 DEF AsRead
    <3>7. CASE Identity(t)
      <4>1. link[t] \in Link /\ pc[t] = "identity"
        BY <3>7, ReadingLink DEF Identity
      <4>2. PICK c \in cid[t] : Resolved(t, c, link[t].port)
        BY <3>7 DEF Identity
      <4>3. c \in Container /\ link[t].port \in Port \cup {None} /\ container' = container /\ moved' = moved
        BY <3>7, <4>1 DEF Identity, Link, TypeOK
      <4>4. cid'[t] = {c} /\ link'[t].port = link[t].port /\ pc'[t] \in {"ensure", "endpoint"}
        BY <2>1, <2>6, <4>1, <4>2, <4>3, ResolvedGoes
      <4>5. rows'[at[t]] # None
        BY <2>2, <2>4, <4>1
      <4>6. ~moved[t] => link[t].port = container[c].port
        BY <2>2, <4>1, <4>2 DEF AsRead
      <4> QED
        BY <2>1, <4>3, <4>4, <4>5, <4>6 DEF AsRead
    <3>8. CASE Ensure(t) \/ Probe(t)
      <4>1. pc'[t] \in {"inspect"} /\ cid' = cid /\ pc[t] = "ensure" /\ rows' = rows
        BY <2>1, <2>6, <3>8 DEF Ensure, Probe, Goto, TypeOK
      <4> QED
        BY <2>1, <2>2, <4>1 DEF AsRead
    <3>9. CASE Inspect(t)
      <4>1. PICK c \in cid[t] : link' = [link EXCEPT ![t] = [@ EXCEPT !.port = container[c].port]]
                                /\ pc' = [pc EXCEPT ![t] = "endpoint"] /\ cid' = cid
        BY <2>1, <2>6, <3>9 DEF Inspect, Goto
      <4>2. link[t] \in Link /\ pc[t] = "inspect" /\ rows' = rows /\ container' = container
        BY <2>1, <3>9, ReadingLink DEF Inspect
      <4>3. link'[t] = [link[t] EXCEPT !.port = container[c].port] /\ pc'[t] = "endpoint"
        BY <4>1 DEF TypeOK
      <4>4. link'[t].port = container[c].port
        BY <4>2, <4>3 DEF Link
      <4> QED
        BY <2>1, <2>2, <4>1, <4>2, <4>3, <4>4 DEF AsRead
    <3>10. CASE Endpoint(t)
      <4>1. pc[t] = "endpoint" /\ pc'[t] = "probe" /\ cid' = cid /\ container' = container /\ link[t] \in Link
        BY <2>6, <3>10, ReadingLink DEF Endpoint, Goto, TypeOK
      <4>2. rows[at[t]] # None /\ rows'[at[t]] # None
        BY <2>2, <2>4, <4>1
      <4>3. link[t].port = None \/ rows'[at[t]].port = link[t].port
        BY <2>6, <3>10, <4>2, RowWrites
      <4>4. ~moved'[t] => ~moved[t]
        BY <1>2, <2>1, <4>1, NextMoved DEF Inspect, Resolve, Find
      <4>5. ~moved[t] => \A c \in cid[t] : link[t].port = container[c].port
        BY <2>2, <4>1 DEF AsRead
      <4>6. \A c \in cid[t] : Running(c) => container[c].port # None
        BY DEF ContainerInv, TypeOK
      <4>7. AsRead(t)'
        BY <2>1, <4>1, <4>3, <4>4, <4>5, <4>6 DEF AsRead, Running
      <4> QED
        BY <2>1, <2>2, <4>1, <4>2, <4>7
    <3> QED
      BY <3>2, <3>3, <3>4, <3>5, <3>6, <3>7, <3>8, <3>9, <3>10
\* A step of somebody else while it could do something itself.
  <2>7. CASE UNCHANGED <<pc[t], job[t], at[t], link[t], cid[t]>> /\ (Inspect(t) \/ Resolve(t) \/ Find(t) \/ Endpoint(t))
    <3>1. Continue(t) /\ ~StopAll(t)
      BY <2>7 DEF Continue, Inspect, Resolve, Find, Endpoint, StopAll
    <3>2. ~Return(t)
      BY <2>1, ReturnsAlone
    <3> QED
      BY <2>6, <3>1, <3>2, ContinueKinds
  <2> QED
    BY <1>2, <2>5, <2>6, <2>7, NextStays
<1> QED
  BY <1>1, <1>2

-----------------------------------------------------------------------------
(* The theorems. *)

IInv == TypeOK /\ CommandInv /\ UuidInv /\ ContainerInv /\ PrivateInv /\ RowInv /\ LinkInv /\ VolumeInv /\ OpenInv

LEMMA InitIInv == Init => IInv
<1> SUFFICES ASSUME Init
             PROVE  IInv
  OBVIOUS
<1> USE DockerAssumption
<1>1. PICK made \in SUBSET Container, p \in Port : container = [d \in Container |->
              IF d \in made THEN [status |-> "running", label |-> Service, port |-> p]
              ELSE [status |-> "unused", label |-> None, port |-> None]]
  BY DEF Init
<1>2. /\ \A d \in made : container[d] = [status |-> "running", label |-> Service, port |-> p]
      /\ \A d \in Container \ made : container[d] = [status |-> "unused", label |-> None, port |-> None]
      /\ container \in [Container -> Record]
  BY <1>1 DEF Record
<1>3. \A d \in Container : /\ container[d].label \notin Connection
                           /\ container[d].port # None <=> container[d].status = "running"
                           /\ container[d].status = "unused" => container[d].label = None
  <2> SUFFICES ASSUME NEW d \in Container
               PROVE  /\ container[d].label \notin Connection
                      /\ container[d].port # None <=> container[d].status = "running"
                      /\ container[d].status = "unused" => container[d].label = None
    OBVIOUS
  <2>1. CASE d \in made
    <3>1. container[d].label = Service /\ container[d].status = "running" /\ container[d].port = p
      BY <1>2, <2>1
    <3> QED
      BY <3>1
  <2>2. CASE d \notin made
    <3>1. container[d].label = None /\ container[d].status = "unused" /\ container[d].port = None
      BY <1>2, <2>2
    <3> QED
      BY <3>1
  <2> QED
    BY <2>1, <2>2
<1>4. /\ rows = [u \in Connection |-> None] /\ fresh = Connection /\ volumes = {} /\ cleaned = {} /\ unseen = {} /\ quit = "no"
      /\ lock = [u \in Connection |-> None] /\ failed = [t \in Caller |-> FALSE] /\ moved = [t \in Caller |-> FALSE]
  BY DEF Init
<1>5. \A t \in Caller : pc[t] = "idle" /\ job[t] = "none" /\ at[t] = None /\ link[t] = None /\ cid[t] = {}
  BY DEF Init
<1>6. TypeOK
  <2>1. /\ pc \in [Caller -> Stage] /\ job \in [Caller -> Job]
        /\ at \in [Caller -> Connection \cup {None}] /\ link \in [Caller -> Link \cup {None}]
        /\ cid \in [Caller -> SUBSET Container]
    BY DEF Init, Stage, Job
  <2> QED
    BY <1>2, <1>4, <2>1 DEF TypeOK, Record
<1>7. CommandInv
  BY <1>5 DEF CommandInv, Path
<1>8. UuidInv
  BY <1>3, <1>4, <1>5 DEF UuidInv, Making
<1>9. ContainerInv
  BY <1>3, <1>4, <1>5 DEF ContainerInv, Running, Refers, Saves
<1>10. PrivateInv /\ RowInv
  BY <1>4, <1>5 DEF PrivateInv, RowInv
<1>11. LinkInv
  BY <1>5 DEF LinkInv, Making, Reading
<1>12. VolumeInv
  BY <1>4, <1>5 DEF VolumeInv, SavedDataIsKept, NothingLeftBehind
<1>13. OpenInv
  BY <1>5 DEF OpenInv
<1> QED
  BY <1>6, <1>7, <1>8, <1>9, <1>10, <1>11, <1>12, <1>13 DEF IInv

LEMMA NextIInv == IInv /\ [Next]_vars => IInv'
<1> SUFFICES ASSUME IInv, [Next]_vars
             PROVE  IInv'
  OBVIOUS
<1> USE DEF IInv
<1>1. TypeOK' /\ CommandInv'
  BY NextTypeOK, NextCommandInv
<1> QED
  BY <1>1, NextUuidInv, NextContainerInv, NextPrivateInv, NextRowInv, NextLinkInv, NextVolumeInv, NextOpenInv

LEMMA Invariance == Spec => []IInv
BY InitIInv, NextIInv, PTL DEF Spec

\* Both stores and every command keep their types; the port of a row is there
\* exactly when the application made the container.
THEOREM TypeCorrect == Spec => []TypeOK
BY Invariance, PTL DEF IInv

\* A saved connection's volume is there, whatever failed and whoever deleted.
THEOREM DataIsKept == Spec => []SavedDataIsKept
<1>1. IInv => SavedDataIsKept
  BY DEF IInv, VolumeInv
<1> QED
  BY <1>1, Invariance, PTL

\* A clean-up that ended and reported no failure left neither a container nor a
\* volume, and nothing brings them back, unless the run failed and the look for its
\* container failed as well, of which the user is not told.
THEOREM NothingIsLeft == Spec => []NothingLeftBehind
<1>1. IInv => NothingLeftBehind
  BY DEF IInv, VolumeInv
<1> QED
  BY <1>1, Invariance, PTL

\* A row names a container made for it, by its uuid or by its service.
THEOREM LinkIsRight == Spec => []LinkIsItsOwn
<1>1. IInv => LinkIsItsOwn
  BY DEF IInv, RowInv, Fits, LinkIsItsOwn
<1> QED
  BY <1>1, Invariance, PTL

\* An open connects to the port its container has.
THEOREM OpenedRight == Spec => []OpenedAtItsPort
<1>1. IInv => OpenedAtItsPort
  BY DEF IInv, OpenInv, AsRead, OpenedAtItsPort
<1> QED
  BY <1>1, Invariance, PTL

\* A docker command changes the containers it is given.
LEMMA OnlyThese ==
    ASSUME TypeOK, NEW c \in Container, container'[c] # container[c], NEW d \in Container, NEW cs \in SUBSET Container
    PROVE  /\ Starts(d) \/ Restarts(d) \/ Removes(d) => d = c
           /\ Stops(cs) => c \in cs
           /\ \A l : Makes(d, l) => d = c /\ container[c].status = "unused"
<1>1. Starts(d) \/ Restarts(d) \/ Removes(d) => d = c
  BY DEF Starts, Restarts, Removes, TypeOK
<1>2. Stops(cs) => c \in cs
  BY DEF Stops
<1>3. ASSUME NEW l, Makes(d, l)
      PROVE  d = c /\ container[c].status = "unused"
  BY <1>3 DEF Makes, TypeOK
<1> QED
  BY <1>1, <1>2, <1>3

\* A container somebody else made is touched by the command that names its
\* connection alone.
THEOREM ForeignIsSafe == Spec => ForeignIsLeftAlone
<1> DEFINE Named(c) == \E t \in Caller : job[t] \in {"link", "control", "purge"} /\ c \in cid[t] /\ pc'[t] # pc[t]
<1>1. ASSUME IInv, [Next]_vars, NEW c \in Container, container[c].label = Service, container'[c] # container[c]
      PROVE  UNCHANGED caller \/ Named(c)
  <2>0. TypeOK /\ CommandInv /\ ContainerInv /\ LinkInv
    BY <1>1 DEF IInv
  <2> USE <2>0, DockerAssumption
  <2>1. \A t \in Caller : cid[t] \subseteq Container
    BY DEF TypeOK
  <2>2. container[c].status # "unused"
    BY <1>1 DEF ContainerInv
  <2>3. \A t \in Caller : job[t] \in {"create", "open", "exit"} => c \notin cid[t]
    BY <1>1 DEF LinkInv, CommandInv
  <2>4. ASSUME NEW t \in Caller, Continue(t)
        PROVE  Named(c)
    <3>1. pc[t] \in Path(job[t]) /\ job[t] \in Job
      BY DEF CommandInv, TypeOK
    <3>2. ~Run(t)
      BY <1>1, <2>2, OnlyThese DEF Run, world
    <3>3. CASE Prepare(t)
      <4>1. job[t] = "link" /\ pc[t] = "prepare"
        BY <3>1, <3>3 DEF Prepare, Path, Job
      <4>2. c \in cid[t]
        BY <1>1, <2>1, <3>3, OnlyThese DEF Prepare
      <4>3. pc'[t] \in {"probe", "idle"}
        BY <3>3, ReturnsAlone DEF Prepare, Goto, TypeOK
      <4> QED
        BY <4>1, <4>2, <4>3
    <3>4. ~Ensure(t)
      <4>1. Ensure(t) => job[t] = "open" /\ c \in cid[t]
        BY <1>1, <2>1, <3>1, OnlyThese DEF Ensure, Path, Job
      <4> QED
        BY <2>3, <4>1
    <3>5. CASE Remove(t)
      <4>1. c \in cid[t] /\ pc'[t] = "removeVolume" /\ pc[t] = "remove"
        BY <1>1, <2>1, <3>5, OnlyThese DEF Remove, Goto, TypeOK
      <4>2. job[t] = "purge"
        BY <2>3, <3>1, <4>1 DEF Path, Job
      <4> QED
        BY <4>1, <4>2
    <3>6. CASE Control(t)
      <4>1. job[t] = "control" /\ pc[t] = "control" /\ pc'[t] = "idle"
        BY <3>1, <3>6, ReturnsAlone DEF Control, Path, Job
      <4>2. c \in cid[t]
        BY <1>1, <2>1, <3>6, OnlyThese DEF Control
      <4> QED
        BY <4>1, <4>2
    <3>7. ~StopAll(t)
      <4> SUFFICES ASSUME StopAll(t)
                   PROVE  FALSE
        OBVIOUS
      <4>1. PICK cs \in SUBSET cid[t] : Stops(cs)
        BY DEF StopAll
      <4>2. c \in cid[t]
        BY <1>1, <2>1, <4>1, OnlyThese
      <4>3. job[t] = "exit"
        BY <3>1 DEF StopAll, Path, Job
      <4> QED
        BY <2>3, <4>2, <4>3
    <3>8. Prepare(t) \/ Remove(t) \/ Control(t)
      BY <1>1, <2>4, <3>2, <3>4, <3>7 DEF Continue, Lock, Lookup, Inspect, Probe, Insert, RemoveVolume, DeleteRow,
         GetLink, Resolve, Find, Identity, ResolveFails, Endpoint, world
    <3> QED
      BY <3>3, <3>5, <3>6, <3>8
  <2>5. ASSUME NEW t \in Caller, Calls(t)
        PROVE  FALSE
    BY <1>1, <2>5, CallKinds DEF Call, world
  <2>6. User => UNCHANGED caller
    BY DEF User, UserStarts, UserStops, UserRemoves, UserRecreates, Outside
  <2> QED
    BY <1>1, <2>4, <2>5, <2>6 DEF Next, vars, world, Crash, Launch
<1>2. IInv /\ [Next]_vars =>
         [\A c \in Container :
             container[c].label = Service /\ container'[c] # container[c] =>
                 \/ UNCHANGED caller
                 \/ \E t \in Caller : /\ job[t] \in {"link", "control", "purge"}
                                      /\ c \in cid[t]
                                      /\ pc'[t] # pc[t]]_vars
  BY <1>1
<1> QED
  BY <1>2, Invariance, PTL DEF Spec, ForeignIsLeftAlone
=============================================================================
