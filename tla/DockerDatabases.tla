--------------------------- MODULE DockerDatabases ---------------------------
(***************************************************************************)
(* The databases in Docker containers (docker/service.rs, store.rs and     *)
(* cli.rs): the application creates a container with a volume and saves a  *)
(* connection to it, or links a container that is there; it opens,         *)
(* controls and deletes what it saved and stops what it created when the   *)
(* user quits.  Two stores are written and no transaction spans them: the  *)
(* application's rows and the Docker daemon.  Any docker command can fail  *)
(* or time out, the user works on the same containers from outside, and    *)
(* the application can die between two steps.                              *)
(***************************************************************************)
EXTENDS Naturals, FiniteSets

CONSTANTS
    Connection,   \* uuids, each generated once
    Container,    \* container ids, each given once; bounds the containers
    Port,         \* host ports
    Caller,       \* concurrent commands
    Service,      \* the compose labels of a container somebody else made
    None

Link == [own: {"created", "linked"}, id: Container, service: {Service, None},
         port: Port \cup {None}]

ASSUME DockerAssumption ==
    /\ None \notin Connection \cup Container \cup Port \cup Caller \cup Link
    /\ Service \notin Connection \cup {None}

VARIABLES
    rows,         \* the saved connections and their docker_connections rows
    fresh,        \* the uuids that were not generated yet
    container,    \* what the daemon has
    volumes,      \* the named volumes, by the uuid in their name
    lock,         \* the connect lock of each connection
    quit,         \* how the application was left, "no" while it runs
    pc, job, at,  \* the stage of a caller, its command and its connection
    link,         \* the DockerLink it read or is about to insert
    cid,          \* the id of the container it works on
    failed,       \* a docker command of its clean-up failed: it says so
    moved,        \* its container was started or stopped since it looked
    cleaned,      \* the uuids whose clean-up ended and reported no failure
    unseen        \* those whose container could not be looked for, of which nobody is told

world == <<container, volumes>>
caller == <<pc, job, at, link, cid, failed>>
heard == <<cleaned, unseen>>
vars == <<rows, fresh, world, lock, quit, caller, moved, heard>>

Job == {"none", "create", "link", "open", "control", "states", "delete", "purge", "exit"}
Stage == {"idle", "lock", "run", "lookup", "inspect", "prepare", "probe", "insert", "getLink",
          "deleteRow", "resolve", "find", "identity", "ensure", "endpoint", "control",
          "remove", "removeVolume", "stopAll"}

TypeOK ==
    /\ rows \in [Connection -> Link \cup {None}]
    /\ \A u \in Connection :
          rows[u] # None => (rows[u].own = "created" <=> rows[u].port \in Port)
    /\ fresh \in SUBSET Connection
    /\ container \in [Container -> [status: {"unused", "running", "stopped", "gone"},
                                    label: Connection \cup {Service, None},
                                    port: Port \cup {None}]]
    /\ volumes \in SUBSET Connection
    /\ lock \in [Connection -> Caller \cup {None}]
    /\ quit \in {"no", "clean", "failed"}
    /\ pc \in [Caller -> Stage]
    /\ job \in [Caller -> Job]
    /\ at \in [Caller -> Connection \cup {None}]
    /\ link \in [Caller -> Link \cup {None}]
    /\ cid \in [Caller -> SUBSET Container]
    /\ failed \in [Caller -> BOOLEAN]
    /\ moved \in [Caller -> BOOLEAN]
    /\ cleaned \in SUBSET Connection
    /\ unseen \in SUBSET Connection

Init ==
    /\ rows = [u \in Connection |-> None]
    /\ fresh = Connection
    /\ \E made \in SUBSET Container, p \in Port :
          /\ Cardinality(made) <= 1
          /\ container = [d \in Container |->
              IF d \in made THEN [status |-> "running", label |-> Service, port |-> p]
              ELSE [status |-> "unused", label |-> None, port |-> None]]
    /\ volumes = {}
    /\ lock = [u \in Connection |-> None]
    /\ quit = "no"
    /\ pc = [t \in Caller |-> "idle"]
    /\ job = [t \in Caller |-> "none"]
    /\ at = [t \in Caller |-> None]
    /\ link = [t \in Caller |-> None]
    /\ cid = [t \in Caller |-> {}]
    /\ failed = [t \in Caller |-> FALSE]
    /\ moved = [t \in Caller |-> FALSE]
    /\ cleaned = {}
    /\ unseen = {}

Exists(c) == container[c].status \in {"running", "stopped"}
Running(c) == container[c].status = "running"

\* Somebody else's, or that of a saved connection.
Known(c) == container[c].label \in {Service} \cup {u \in Connection : rows[u] # None}

Labelled(l) == {c \in Container : Exists(c) /\ container[c].label = l}
FreePort == Port \ {container[c].port : c \in {d \in Container : Running(d)}}

-----------------------------------------------------------------------------
(* Docker commands, as far as they change what the daemon has. *)

\* A start that found the container running changes nothing.
Starts(c) ==
    IF Running(c) THEN UNCHANGED container
    ELSE /\ Exists(c)
         /\ \E p \in FreePort :
               container' = [container EXCEPT ![c].status = "running", ![c].port = p]

Stops(cs) ==
    container' = [c \in Container |->
        IF c \in cs /\ Exists(c) THEN [container[c] EXCEPT !.status = "stopped", !.port = None]
        ELSE container[c]]

Restarts(c) ==
    /\ Exists(c)
    /\ \E p \in FreePort \cup ({container[c].port} \ {None}) :
          container' = [container EXCEPT ![c].status = "running", ![c].port = p]

Removes(c) == container' = [container EXCEPT ![c].status = "gone", ![c].port = None]

Makes(c, l) ==
    /\ container[c].status = "unused"
    /\ \/ \E p \in FreePort :
             container' = [container EXCEPT ![c] = [status |-> "running", label |-> l, port |-> p]]
       \/ container' = [container EXCEPT ![c] = [status |-> "stopped", label |-> l, port |-> None]]

\* The opens whose container is started or stopped by this step; an open that
\* returns is none.
Moves == moved' = [t \in Caller |->
    job'[t] = "open" /\ (moved[t] \/ \E c \in cid[t] : container'[c] # container[c])]

-----------------------------------------------------------------------------
(* Calls and their end. *)

Goto(t, s) == pc' = [pc EXCEPT ![t] = s]

Call(t, j, s, u, cs) ==
    /\ quit = "no"
    /\ pc[t] = "idle"
    /\ Goto(t, s)
    /\ job' = [job EXCEPT ![t] = j]
    /\ at' = [at EXCEPT ![t] = u]
    /\ cid' = [cid EXCEPT ![t] = cs]
    /\ UNCHANGED <<rows, world, lock, quit, link, failed, moved, heard>>

\* The uuid is generated; the context is read.
CallCreate(t, u) == u \in fresh /\ fresh' = fresh \ {u} /\ Call(t, "create", "run", u, {})

CallLink(t, u, c) ==
    /\ u \in fresh
    /\ fresh' = fresh \ {u}
    /\ Exists(c) /\ Known(c)
    /\ Call(t, "link", "prepare", u, {c})

CallLocked(t, u) ==
    /\ rows[u] # None
    /\ \E j \in {"open", "delete", "purge"} : Call(t, j, "lock", u, {})
    /\ UNCHANGED fresh

CallUnlocked(t, u) ==
    /\ rows[u] # None
    /\ \E j \in {"control", "states"} : Call(t, j, "getLink", u, {})
    /\ UNCHANGED fresh

\* An exit that stops what it finds linked.
StopTargetsAll == {rows[u].id : u \in {v \in Connection : rows[v] # None}}

StopTargets == {rows[u].id : u \in {v \in Connection : rows[v] # None /\ rows[v].own = "created"}}

\* RunEvent::Exit comes once; get_created_links is read at once.
CallExit(t) ==
    /\ \A s \in Caller : job[s] # "exit"
    /\ Call(t, "exit", "stopAll", None, StopTargets)
    /\ UNCHANGED fresh

\* Several callers end at once only when the application does.
End(ts) ==
    /\ pc' = [t \in Caller |-> IF t \in ts THEN "idle" ELSE pc[t]]
    /\ job' = [t \in Caller |-> IF t \in ts THEN "none" ELSE job[t]]
    /\ at' = [t \in Caller |-> IF t \in ts THEN None ELSE at[t]]
    /\ link' = [t \in Caller |-> IF t \in ts THEN None ELSE link[t]]
    /\ cid' = [t \in Caller |-> IF t \in ts THEN {} ELSE cid[t]]
    /\ failed' = [t \in Caller |-> failed[t] /\ t \notin ts]
    /\ lock' = [u \in Connection |-> IF lock[u] \in ts THEN None ELSE lock[u]]

Return(t) == End({t})

Lock(t) ==
    /\ pc[t] = "lock"
    /\ lock[at[t]] = None
    /\ lock' = [lock EXCEPT ![at[t]] = t]
    /\ Goto(t, IF job[t] = "open" THEN "getLink" ELSE "deleteRow")
    /\ UNCHANGED <<rows, fresh, world, quit, job, at, link, cid, failed, moved, heard>>

rest == <<fresh, quit, moved, heard>>

-----------------------------------------------------------------------------
(* docker_create_database and its clean-up, docker_link_connection. *)

\* docker run; one that fails or times out may leave the container behind.
Run(t) ==
    /\ pc[t] = "run"
    /\ \/ \E c \in Container :
             /\ Makes(c, at[t])
             /\ volumes' = volumes \cup {at[t]}
             /\ \/ Goto(t, "inspect") /\ cid' = [cid EXCEPT ![t] = {c}]
                \/ Goto(t, "lookup") /\ UNCHANGED cid
       \/ Goto(t, "lookup") /\ UNCHANGED <<world, cid>>
    /\ UNCHANGED <<rows, lock, rest, job, at, link, failed>>

\* A look that sees running containers only.
LookupRunning(t) ==
    /\ pc[t] = "lookup"
    /\ \/ /\ \E c \in Labelled(at[t]) : Running(c)
          /\ cid' = [cid EXCEPT ![t] = Labelled(at[t])]
          /\ Goto(t, "remove")
          /\ UNCHANGED <<lock, job, at, link, failed, heard>>
       \/ /\ \A c \in Labelled(at[t]) : ~Running(c)
          /\ cleaned' = cleaned \cup {at[t]}
          /\ Return(t)
          /\ UNCHANGED unseen
    /\ UNCHANGED <<rows, fresh, world, quit, moved>>

\* cleanup_failed_run: a look by the labels.  A look that fails, or finds
\* several, ends the clean-up with the error of the run alone.
Lookup(t) ==
    /\ pc[t] = "lookup"
    /\ \/ /\ \E c \in Container : Labelled(at[t]) = {c} /\ cid' = [cid EXCEPT ![t] = {c}]
          /\ Goto(t, "remove")
          /\ UNCHANGED <<lock, job, at, link, failed, heard>>
       \/ /\ cleaned' = cleaned \cup {at[t]}
          /\ \/ Labelled(at[t]) = {} /\ UNCHANGED unseen
             \/ unseen' = unseen \cup {at[t]}
          /\ Return(t)
    /\ UNCHANGED <<rows, fresh, world, quit, moved>>

NewLink(own, c, p) ==
    [own |-> own, id |-> c, port |-> p,
     service |-> IF own = "linked" /\ container[c].label = Service THEN Service ELSE None]

\* The inspection after a run or a start: a container that does not run has no
\* host port.  A creation without one is taken back, an open keeps the old one.
Inspect(t) ==
    /\ pc[t] = "inspect"
    /\ \E c \in cid[t] :
       \/ /\ Exists(c)
          /\ job[t] = "open" \/ Running(c)
          /\ link' = [link EXCEPT ![t] =
                 IF job[t] = "open" THEN [@ EXCEPT !.port = container[c].port]
                 ELSE NewLink("created", c, container[c].port)]
          /\ Goto(t, IF job[t] = "open" THEN "endpoint" ELSE "probe")
          /\ UNCHANGED <<lock, job, at, cid, failed>>
       \/ /\ job[t] = "create"
          /\ Goto(t, "remove")
          /\ UNCHANGED <<lock, job, at, link, cid, failed>>
       \/ job[t] = "open" /\ Return(t)
    /\ moved' = [moved EXCEPT ![t] = FALSE]
    /\ UNCHANGED <<rows, fresh, world, quit, heard>>

\* docker_prepare_connection starts a container that is stopped.  The port saved
\* for it is the one in the user's form, which nothing here reads.
Prepare(t) ==
    /\ pc[t] = "prepare"
    /\ \E c \in cid[t] :
       \/ /\ Starts(c)
          /\ link' = [link EXCEPT ![t] = NewLink("linked", c, None)]
          /\ Goto(t, "probe")
          /\ UNCHANGED <<lock, job, at, cid, failed>>
       \/ /\ Starts(c) \/ UNCHANGED container
          /\ Return(t)
    /\ Moves
    /\ UNCHANGED <<rows, fresh, volumes, quit, heard>>

\* wait_until_ready runs a command in the container, for 45 seconds at most.
Probe(t) ==
    /\ pc[t] = "probe"
    /\ \/ /\ \A c \in cid[t] : Running(c)
          /\ IF job[t] = "open" THEN Return(t)
             ELSE Goto(t, "insert") /\ UNCHANGED <<lock, job, at, link, cid, failed>>
       \/ IF job[t] = "create"
          THEN Goto(t, "remove") /\ UNCHANGED <<lock, job, at, link, cid, failed>>
          ELSE Return(t)
    /\ UNCHANGED <<rows, world, fresh, quit, heard>>
    /\ Moves

\* An insertion without a transaction: the connection is saved, the link is not.
InsertHalf(t) ==
    /\ pc[t] = "insert"
    /\ rows' = [rows EXCEPT ![at[t]] = link[t]]
    /\ IF job[t] = "create"
       THEN Goto(t, "remove") /\ UNCHANGED <<lock, job, at, link, cid, failed>>
       ELSE Return(t)
    /\ UNCHANGED <<world, rest>>

\* insert_connection_with_link, one transaction.
Insert(t) ==
    /\ pc[t] = "insert"
    /\ \/ rows' = [rows EXCEPT ![at[t]] = link[t]] /\ Return(t)
       \/ /\ UNCHANGED rows
          /\ IF job[t] = "create"
             THEN Goto(t, "remove") /\ UNCHANGED <<lock, job, at, link, cid, failed>>
             ELSE Return(t)
    /\ UNCHANGED <<world, rest>>

\* docker rm -f; for a created database docker volume rm follows in any case.
Remove(t) ==
    /\ pc[t] = "remove"
    /\ \E c \in cid[t] :
       \/ Removes(c) /\ UNCHANGED failed
       \/ failed' = [failed EXCEPT ![t] = TRUE] /\ UNCHANGED container
    /\ Goto(t, "removeVolume")
    /\ UNCHANGED <<rows, fresh, volumes, lock, quit, job, at, link, cid, heard>>
    /\ Moves

OfLinked(t) == link[t] # None /\ link[t].own = "linked"

\* Nothing to remove for a linked container: its named volumes stay.  Docker
\* refuses while a container uses the volume.
RemoveVolume(t) ==
    /\ pc[t] = "removeVolume"
    /\ \/ /\ OfLinked(t)
          /\ UNCHANGED <<volumes, heard>>
       \/ /\ ~OfLinked(t)
          /\ Labelled(at[t]) = {}
          /\ at[t] \in volumes
          /\ volumes' = volumes \ {at[t]}
          /\ cleaned' = IF failed[t] THEN cleaned ELSE cleaned \cup {at[t]}
          /\ UNCHANGED unseen
       \/ /\ ~OfLinked(t)
          /\ UNCHANGED <<volumes, heard>>
    /\ Return(t)
    /\ UNCHANGED <<rows, fresh, container, quit, moved>>
-----------------------------------------------------------------------------
(* delete_saved_connection, and what every command on a saved container     *)
(* does first: read the link and resolve it to a container that exists.     *)

\* A row of docker_connections has no port; the port is in that of connections.
StoredLink(u) == [rows[u] EXCEPT !.port = None]

\* delete_connection_with_link, one transaction; without the data that is all.
DeleteRow(t) ==
    /\ pc[t] = "deleteRow"
    /\ \/ /\ rows' = [rows EXCEPT ![at[t]] = None]
          /\ IF job[t] = "purge" /\ rows[at[t]] # None
             THEN /\ link' = [link EXCEPT ![t] = StoredLink(at[t])]
                  /\ Goto(t, "resolve")
                  /\ UNCHANGED <<lock, job, at, cid, failed>>
             ELSE Return(t)
       \/ Return(t) /\ UNCHANGED rows
    /\ UNCHANGED <<world, rest>>

\* Only a created database is started when its connection is opened.
GetLink(t) ==
    /\ pc[t] = "getLink"
    /\ IF rows[at[t]] = None \/ (job[t] = "open" /\ rows[at[t]].own # "created")
       THEN Return(t)
       ELSE /\ link' = [link EXCEPT ![t] = StoredLink(at[t])]
            /\ Goto(t, "resolve")
            /\ UNCHANGED <<lock, job, at, cid, failed>>
    /\ UNCHANGED <<rows, world, rest>>

\* The labels by which a container that got another id is found again.
Wanted(t) == IF link[t].own = "created" THEN at[t] ELSE link[t].service

\* The container is known, and the host port it had when it was inspected.
Resolved(t, c, p) ==
    IF job[t] = "states" THEN Return(t)
    ELSE /\ cid' = [cid EXCEPT ![t] = {c}]
         /\ link' = [link EXCEPT ![t].port = IF job[t] = "open" THEN p ELSE None]
         /\ Goto(t, CASE job[t] = "control" -> "control"
                      [] job[t] = "purge" -> "remove"
                      [] OTHER -> IF p = None THEN "ensure" ELSE "endpoint")
         /\ UNCHANGED <<lock, job, at, failed>>

\* The stored id is tried first; if that inspection fails, for whatever reason,
\* the labels are.
Resolve(t) ==
    /\ pc[t] = "resolve"
    /\ LET c == link[t].id IN
       \/ /\ Exists(c)
          /\ link[t].own = "created" => container[c].label = at[t]
          /\ Resolved(t, c, container[c].port)
          /\ moved' = [moved EXCEPT ![t] = FALSE]
       \/ Goto(t, "find") /\ UNCHANGED <<lock, job, at, link, cid, failed, moved>>
    /\ UNCHANGED <<rows, world, fresh, quit, heard>>

\* A look by the label that all managed containers have.
FindManaged(t) ==
    /\ pc[t] = "find"
    /\ \E c \in Container :
          /\ Exists(c) /\ container[c].label \in Connection
          /\ cid' = [cid EXCEPT ![t] = {c}]
          /\ link' = [link EXCEPT ![t].port = container[c].port]
    /\ moved' = [moved EXCEPT ![t] = FALSE]
    /\ Goto(t, "identity")
    /\ UNCHANGED <<rows, fresh, world, lock, quit, job, at, failed, heard>>

\* find_one_by_labels: a container is taken only if it is the only one.
Find(t) ==
    /\ pc[t] = "find"
    /\ Wanted(t) # None
    /\ \E c \in Container :
          /\ Labelled(Wanted(t)) = {c}
          /\ cid' = [cid EXCEPT ![t] = {c}]
          /\ link' = [link EXCEPT ![t].port = IF job[t] = "open" THEN container[c].port ELSE None]
    /\ moved' = [moved EXCEPT ![t] = FALSE]
    /\ Goto(t, "identity")
    /\ UNCHANGED <<rows, fresh, world, lock, quit, job, at, failed, heard>>

\* update_runtime_identity; the row may have been deleted meanwhile.
Identity(t) ==
    /\ pc[t] = "identity"
    /\ \E c \in cid[t] :
          /\ rows' = IF rows[at[t]] = None THEN rows ELSE [rows EXCEPT ![at[t]].id = c]
          /\ Resolved(t, c, link[t].port)
    /\ UNCHANGED <<world, rest>>

\* Another context, a daemon or a database that does not answer, labels of
\* another connection or of none or several containers.
ResolveFails(t) ==
    /\ pc[t] \in {"resolve", "find", "identity"}
    /\ Return(t)
    /\ UNCHANGED <<rows, world, rest>>

-----------------------------------------------------------------------------
(* ensure_created_connection_running, docker_control_connection and the     *)
(* exit.                                                                    *)

\* A start that does not look at the port again.
EnsureOnly(t) ==
    /\ pc[t] = "ensure"
    /\ \E c \in cid[t] :
       \/ Starts(c) /\ Goto(t, "endpoint") /\ UNCHANGED <<lock, job, at, link, cid, failed>>
       \/ UNCHANGED container /\ Return(t)
    /\ moved' = [moved EXCEPT ![t] = FALSE]
    /\ UNCHANGED <<rows, fresh, volumes, quit, heard>>

Ensure(t) ==
    /\ pc[t] = "ensure"
    /\ \E c \in cid[t] :
       \/ Starts(c) /\ Goto(t, "inspect") /\ UNCHANGED <<lock, job, at, link, cid, failed>>
       \/ UNCHANGED container /\ Return(t)
    /\ Moves
    /\ UNCHANGED <<rows, fresh, volumes, quit, heard>>

\* update_connection_endpoint
Endpoint(t) ==
    /\ pc[t] = "endpoint"
    /\ \/ /\ rows' = IF link[t].port = None \/ rows[at[t]] = None THEN rows
                     ELSE [rows EXCEPT ![at[t]].port = link[t].port]
          /\ Goto(t, "probe")
          /\ UNCHANGED <<lock, job, at, link, cid, failed>>
       \/ Return(t) /\ UNCHANGED rows
    /\ UNCHANGED <<world, fresh, quit, heard>>
    /\ Moves

\* start, stop or restart; the saved port stays as it was.
Control(t) ==
    /\ pc[t] = "control"
    /\ \/ \E c \in cid[t] : Starts(c) \/ Restarts(c)
       \/ Stops(cid[t])
       \/ UNCHANGED container
    /\ Return(t)
    /\ Moves
    /\ UNCHANGED <<rows, fresh, volumes, quit, heard>>

\* The application is gone, and its commands with it.
Leave(how) ==
    /\ quit' = how
    /\ End(Caller)
    /\ moved' = [t \in Caller |-> FALSE]

\* docker stop names every id; one it does not know fails the command, which
\* has stopped the others.
StopAll(t) ==
    /\ pc[t] = "stopAll"
    /\ \/ /\ \A c \in cid[t] : Exists(c)
          /\ Stops(cid[t])
          /\ Leave("clean")
       \/ \E cs \in SUBSET cid[t] : Stops(cs) /\ Leave("failed")
    /\ UNCHANGED <<rows, fresh, volumes, heard>>

\* The application dies, and is started again.
Crash ==
    /\ quit = "no"
    /\ Leave("failed")
    /\ UNCHANGED <<rows, fresh, world, heard>>

Launch ==
    /\ quit # "no"
    /\ quit' = "no"
    /\ UNCHANGED <<rows, fresh, world, lock, caller, moved, heard>>

-----------------------------------------------------------------------------
(* The user, from outside, who does not remove or make anew by hand what     *)
(* the application is creating or has forgotten.                             *)

Outside == UNCHANGED <<rows, fresh, volumes, lock, quit, caller, heard>> /\ Moves

UserStarts(c) == (Starts(c) \/ Restarts(c)) /\ Outside

UserStops(c) == Running(c) /\ Stops({c}) /\ Outside

UserRemoves(c) == Exists(c) /\ Known(c) /\ Removes(c) /\ Outside

\* docker compose makes a new container with the labels of the old one, which
\* goes, or stays when the service is scaled.
UserRecreates(c, d) ==
    /\ Exists(c)
    /\ Known(c)
    /\ container[d].status = "unused"
    /\ \E p \in FreePort :
          \E old \in {container[c], [container[c] EXCEPT !.status = "gone", !.port = None]} :
             container' = [container EXCEPT
                 ![c] = old,
                 ![d] = [status |-> "running", label |-> container[c].label, port |-> p]]
    /\ Outside

-----------------------------------------------------------------------------
Calls(t) ==
    \/ \E u \in Connection :
          \/ CallCreate(t, u) \/ CallLocked(t, u) \/ CallUnlocked(t, u)
          \/ \E c \in Container : CallLink(t, u, c)
    \/ CallExit(t)

Continue(t) ==
    \/ Lock(t) \/ Run(t) \/ Lookup(t) \/ Inspect(t) \/ Prepare(t) \/ Probe(t) \/ Insert(t)
    \/ Remove(t) \/ RemoveVolume(t) \/ DeleteRow(t) \/ GetLink(t) \/ Resolve(t) \/ Find(t)
    \/ Identity(t) \/ ResolveFails(t) \/ Ensure(t) \/ Endpoint(t) \/ Control(t) \/ StopAll(t)

User == \E c \in Container :
    UserStarts(c) \/ UserStops(c) \/ UserRemoves(c) \/ \E d \in Container : UserRecreates(c, d)

Next == (\E t \in Caller : Calls(t) \/ Continue(t)) \/ Crash \/ Launch \/ User

Spec == Init /\ [][Next]_vars

-----------------------------------------------------------------------------
(* Safety. *)

\* The volume of a saved connection is never removed: the data goes only
\* after its row went, whatever fails in between.
SavedDataIsKept ==
    \A u \in Connection : rows[u] # None /\ rows[u].own = "created" => u \in volumes

\* A creation that failed and a deletion with its data leave no container and
\* no volume behind, unless the user is told that the clean-up failed.  The one
\* exception: after a failed run the look for its container fails as well.  The
\* container and its volume may stay then, and the user hears of the run alone.
NothingLeftBehind == \A u \in cleaned : u \in unseen \/ (Labelled(u) = {} /\ u \notin volumes)

\* The id saved with a connection is that of a container made for it: its own
\* one, or one of the compose service it was linked to.
LinkIsItsOwn ==
    \A u \in Connection : rows[u] # None =>
        /\ rows[u].own = "created" => container[rows[u].id].label = u
        /\ rows[u].service # None => container[rows[u].id].label = rows[u].service

\* When an open goes to connect, the saved port is the one its container has,
\* unless somebody started or stopped it in between.
OpenedAtItsPort ==
    \A t \in Caller : pc[t] = "probe" /\ job[t] = "open" /\ ~moved[t] =>
        \A c \in cid[t] : Running(c) => rows[at[t]].port = container[c].port

\* A container somebody else made is started, stopped or removed by the
\* command that names its connection, never by an open, a state poll, a failed
\* creation or the exit.
ForeignIsLeftAlone ==
    [][\A c \in Container :
          container[c].label = Service /\ container'[c] # container[c] =>
              \/ UNCHANGED caller
              \/ \E t \in Caller : /\ job[t] \in {"link", "control", "purge"}
                                   /\ c \in cid[t]
                                   /\ pc'[t] # pc[t]]_vars

\* "Quitting DBcooper stops the container": when the exit reports no failure,
\* no container the application created is running.
QuitStopsCreated ==
    [][quit = "no" /\ quit' = "clean" =>
          \A c \in Container : container'[c].label \in Connection
                               => container'[c].status # "running"]_vars
=============================================================================
