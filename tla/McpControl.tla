----------------------------- MODULE McpControl -----------------------------
(***************************************************************************)
(* The life of the embedded MCP server (mcp/control.rs, mcp/server.rs) and *)
(* the commands that switch it on and off and change its token             *)
(* (commands/mcp.rs).  The setting, the token and the server are three     *)
(* things: the two rows of the settings table are read and written without *)
(* a lock, the server is started and stopped under the handle's mutex.     *)
(*                                                                         *)
(* A server that is told to stop still finishes its requests; the stop     *)
(* waits for it with the mutex in hand.                                    *)
(***************************************************************************)
EXTENDS Naturals, FiniteSets

CONSTANTS
    Caller,       \* concurrent commands
    Server,       \* server tasks, taken up again when they were joined
    Token,        \* bearer tokens, generated anew when nobody knows them
    None

ASSUME ControlAssumption ==
    None \notin Caller \cup Server \cup Token

VARIABLES
    enabled,   \* mcp_server_enabled
    token,     \* mcp_auth_token
    revoked,   \* history: the tokens that a regeneration replaced
    handle,    \* McpControl.handle
    holder,    \* who holds its mutex
    task,      \* what each server does
    key,       \* the token it asks for
    booted,    \* the application has looked at the setting
    pc, job,   \* the stage of each caller and what it is there for
    mine,      \* the server it stops
    tok        \* the token it starts a server with

control == <<handle, holder, task, key>>
caller == <<pc, job, mine, tok>>
vars == <<enabled, token, revoked, booted, control, caller>>

Job == {"none", "boot", "enable", "disable", "regenerate", "status"}
Stage == {"idle", "boot", "write", "ask", "lockStop", "join", "lockStart",
          "token", "create", "bind", "status"}
TaskState == {"unused", "up", "closing", "over"}

TypeOK ==
    /\ enabled \in BOOLEAN
    /\ token \in Token \cup {None}
    /\ revoked \in SUBSET Token
    /\ handle \in Server \cup {None}
    /\ handle # None => task[handle] \in {"up", "over"}
    /\ holder \in Caller \cup {None}
    /\ task \in [Server -> TaskState]
    /\ key \in [Server -> Token \cup {None}]
    /\ \A s \in Server : task[s] = "up" => key[s] \in Token
    /\ booted \in BOOLEAN
    /\ pc \in [Caller -> Stage]
    /\ job \in [Caller -> Job]
    /\ mine \in [Caller -> Server \cup {None}]
    /\ tok \in [Caller -> Token \cup {None}]

Init ==
    /\ enabled \in BOOLEAN
    /\ token \in Token \cup {None}
    /\ revoked = {}
    /\ handle = None
    /\ holder = None
    /\ task = [s \in Server |-> "unused"]
    /\ key = [s \in Server |-> None]
    /\ booted = FALSE
    /\ pc = [t \in Caller |-> "idle"]
    /\ job = [t \in Caller |-> "none"]
    /\ mine = [t \in Caller |-> None]
    /\ tok = [t \in Caller |-> None]

Goto(t, s) == pc' = [pc EXCEPT ![t] = s]

\* generate_token: 256 random bits.
Fresh(k) ==
    /\ k # token
    /\ \A s \in Server : key[s] # k
    /\ \A t \in Caller : tok[t] # k

Running == handle # None /\ task[handle] = "up"

-----------------------------------------------------------------------------
(* Calls. *)

Call(t, j, stage) ==
    /\ pc[t] = "idle"
    /\ Goto(t, stage)
    /\ job' = [job EXCEPT ![t] = j]
    /\ UNCHANGED <<enabled, token, revoked, control, mine, tok>>

\* The task that setup spawns, once a session.
Boot(t) == ~booted /\ booted' = TRUE /\ Call(t, "boot", "boot")

CallCommand(t) ==
    /\ \/ \E j \in {"enable", "disable", "regenerate"} : Call(t, j, "write")
       \/ Call(t, "status", "status")
    /\ UNCHANGED booted

\* The call returns or gives up; the mutex guard goes with it.
Return(t) ==
    /\ Goto(t, "idle")
    /\ job' = [job EXCEPT ![t] = "none"]
    /\ mine' = [mine EXCEPT ![t] = None]
    /\ tok' = [tok EXCEPT ![t] = None]
    /\ holder' = IF holder = t THEN None ELSE holder

\* The settings table cannot be read or written, or no port is free.
GiveUp(t) ==
    /\ pc[t] \in {"boot", "write", "token", "create", "bind"}
    /\ Return(t)
    /\ UNCHANGED <<enabled, token, revoked, booted, handle, task, key>>

ReadEnabled(t) ==
    /\ pc[t] = "boot"
    /\ IF enabled
       THEN Goto(t, "lockStart") /\ UNCHANGED <<job, mine, tok, holder>>
       ELSE Return(t)
    /\ UNCHANGED <<enabled, token, revoked, booted, handle, task, key>>

WriteEnabled(t) ==
    /\ pc[t] = "write"
    /\ job[t] \in {"enable", "disable"}
    /\ enabled' = (job[t] = "enable")
    /\ Goto(t, IF job[t] = "enable" THEN "lockStart" ELSE "lockStop")
    /\ UNCHANGED <<token, revoked, booted, control, job, mine, tok>>

WriteToken(t, k) ==
    /\ pc[t] = "write"
    /\ job[t] = "regenerate"
    /\ Fresh(k)
    /\ token' = k
    /\ revoked' = (revoked \ {k}) \cup ({token} \ {None})
    /\ Goto(t, "ask")
    /\ UNCHANGED <<enabled, booted, control, job, mine, tok>>

\* A question that does not wait for a start that is under way.
AskRunningUnlocked(t) ==
    /\ pc[t] = "ask"
    /\ Goto(t, IF Running THEN "lockStop" ELSE "status")
    /\ UNCHANGED <<enabled, token, revoked, booted, control, job, mine, tok>>

\* is_running, and a restart only of a server that runs.
AskRunning(t) ==
    /\ pc[t] = "ask"
    /\ holder = None
    /\ Goto(t, IF Running THEN "lockStop" ELSE "status")
    /\ UNCHANGED <<enabled, token, revoked, booted, control, job, mine, tok>>

-----------------------------------------------------------------------------
(* McpControl::stop and McpControl::start. *)

AfterStop(t) == IF job[t] = "regenerate" THEN "lockStart" ELSE "status"

Closing(s) == task' = [task EXCEPT ![s] = IF @ = "up" THEN "closing" ELSE @]

\* A stop that gives the mutex back before the server is gone.
LockStopUnjoined(t) ==
    /\ pc[t] = "lockStop"
    /\ holder = None
    /\ IF handle = None
       THEN Goto(t, AfterStop(t)) /\ UNCHANGED <<control, mine>>
       ELSE /\ handle' = None
            /\ Closing(handle)
            /\ mine' = [mine EXCEPT ![t] = handle]
            /\ Goto(t, "join")
            /\ UNCHANGED <<holder, key>>
    /\ UNCHANGED <<enabled, token, revoked, booted, job, tok>>

\* The handle is taken and its server cancelled; the guard is a temporary of
\* the if-let and lives until the server was joined.
LockStop(t) ==
    /\ pc[t] = "lockStop"
    /\ holder = None
    /\ IF handle = None
       THEN Goto(t, AfterStop(t)) /\ UNCHANGED <<control, mine>>
       ELSE /\ handle' = None
            /\ holder' = t
            /\ Closing(handle)
            /\ mine' = [mine EXCEPT ![t] = handle]
            /\ Goto(t, "join")
            /\ UNCHANGED key
    /\ UNCHANGED <<enabled, token, revoked, booted, job, tok>>

\* A restart that keeps the mutex between its stop and its start.
JoinedHolding(t) ==
    /\ pc[t] = "join"
    /\ task[mine[t]] = "over"
    /\ task' = [task EXCEPT ![mine[t]] = "unused"]
    /\ key' = [key EXCEPT ![mine[t]] = None]
    /\ mine' = [mine EXCEPT ![t] = None]
    /\ holder' = IF job[t] = "regenerate" THEN t ELSE None
    /\ Goto(t, AfterStop(t))
    /\ UNCHANGED <<enabled, token, revoked, booted, handle, job, tok>>

Joined(t) ==
    /\ pc[t] = "join"
    /\ task[mine[t]] = "over"
    /\ task' = [task EXCEPT ![mine[t]] = "unused"]
    /\ key' = [key EXCEPT ![mine[t]] = None]
    /\ mine' = [mine EXCEPT ![t] = None]
    /\ holder' = None
    /\ Goto(t, AfterStop(t))
    /\ UNCHANGED <<enabled, token, revoked, booted, handle, job, tok>>

\* A start that does not ask whether a server runs.
LockStartUnasked(t) ==
    /\ pc[t] = "lockStart"
    /\ holder = None
    /\ holder' = t
    /\ handle' = None
    /\ task' = [s \in Server |-> IF s = handle /\ ~Running THEN "unused" ELSE task[s]]
    /\ key' = [s \in Server |-> IF s = handle /\ ~Running THEN None ELSE key[s]]
    /\ Goto(t, "token")
    /\ UNCHANGED <<enabled, token, revoked, booted, job, mine, tok>>

\* A server that runs is kept; one that died is joined at once.
LockStart(t) ==
    /\ pc[t] = "lockStart"
    /\ holder = None
    /\ IF Running
       THEN /\ IF job[t] = "boot"
               THEN Return(t)
               ELSE Goto(t, "status") /\ UNCHANGED <<job, mine, tok, holder>>
            /\ UNCHANGED <<handle, task, key>>
       ELSE /\ holder' = t
            /\ handle' = None
            /\ task' = [s \in Server |-> IF s = handle THEN "unused" ELSE task[s]]
            /\ key' = [s \in Server |-> IF s = handle THEN None ELSE key[s]]
            /\ Goto(t, "token")
            /\ UNCHANGED <<job, mine, tok>>
    /\ UNCHANGED <<enabled, token, revoked, booted>>

\* get_or_create_token, for the server that is being started or, without the
\* mutex, for the status that a command returns.
HaveToken(t, k) ==
    IF holder = t
    THEN /\ tok' = [tok EXCEPT ![t] = k]
         /\ Goto(t, "bind")
         /\ UNCHANGED <<job, mine, holder>>
    ELSE Return(t)

ReadToken(t) ==
    /\ pc[t] = "token"
    /\ IF token # None
       THEN HaveToken(t, token)
       ELSE Goto(t, "create") /\ UNCHANGED <<job, mine, tok, holder>>
    /\ UNCHANGED <<enabled, token, revoked, booted, handle, task, key>>

CreateToken(t, k) ==
    /\ pc[t] = "create"
    /\ Fresh(k)
    /\ token' = k
    /\ HaveToken(t, k)
    /\ revoked' = revoked \ {k}
    /\ UNCHANGED <<enabled, booted, handle, task, key>>

\* start_mcp_server: one of ten ports is free.
Bind(t, s) ==
    /\ pc[t] = "bind"
    /\ task[s] = "unused"
    /\ task' = [task EXCEPT ![s] = "up"]
    /\ key' = [key EXCEPT ![s] = tok[t]]
    /\ handle' = s
    /\ IF job[t] = "boot"
       THEN Return(t)
       ELSE /\ holder' = None
            /\ tok' = [tok EXCEPT ![t] = None]
            /\ Goto(t, "status")
            /\ UNCHANGED <<job, mine>>
    /\ UNCHANGED <<enabled, token, revoked, booted>>

\* build_status asks for the port and whether the server runs, under the mutex.
Status(t) ==
    /\ pc[t] = "status"
    /\ holder = None
    /\ Goto(t, "token")
    /\ UNCHANGED <<enabled, token, revoked, booted, control, job, mine, tok>>

-----------------------------------------------------------------------------
(* The server's task. *)

\* The graceful shutdown: its requests are answered.
Closed(s) ==
    /\ task[s] = "closing"
    /\ task' = [task EXCEPT ![s] = "over"]
    /\ UNCHANGED <<enabled, token, revoked, booted, handle, holder, key, caller>>

Dies(s) ==
    /\ task[s] = "up"
    /\ task' = [task EXCEPT ![s] = "over"]
    /\ UNCHANGED <<enabled, token, revoked, booted, handle, holder, key, caller>>

-----------------------------------------------------------------------------
Continue(t) ==
    \/ GiveUp(t) \/ ReadEnabled(t) \/ WriteEnabled(t) \/ Joined(t) \/ ReadToken(t)
    \/ \E k \in Token : WriteToken(t, k) \/ CreateToken(t, k)
    \/ \E s \in Server : Bind(t, s)

\* Those that wait for the mutex.
Waiting(t) == AskRunning(t) \/ LockStop(t) \/ LockStart(t) \/ Status(t)

Next ==
    \/ \E t \in Caller : Boot(t) \/ CallCommand(t) \/ Continue(t) \/ Waiting(t)
    \/ \E s \in Server : Closed(s) \/ Dies(s)

Spec == Init /\ [][Next]_vars

(* tokio's mutex serves its waiters in order, database calls and binds     *)
(* return, and a server that was cancelled gets its requests done.         *)
FairSpec ==
    /\ Spec
    /\ \A t \in Caller : WF_vars(Continue(t)) /\ SF_vars(Waiting(t))
    /\ \A s \in Server : WF_vars(Closed(s))

-----------------------------------------------------------------------------
(* Properties. *)

\* Never two servers: whatever start, stop and restart do beside each other,
\* the next server is bound when the last one is gone.
OneServer == Cardinality({s \in Server : task[s] \in {"up", "closing"}}) <= 1

\* A token that was regenerated is refused: a server that still asks for it
\* is about to be replaced by the regeneration.
RevokedTokenRefused ==
    \A s \in Server :
        task[s] = "up" /\ key[s] \in revoked
            => \E t \in Caller : job[t] = "regenerate" /\ pc[t] \in {"ask", "lockStop"}

\* The tokens that the servers in a state ask for.
Asking(state) == {key[s] : s \in {r \in Server : task[r] = state}}

External == INSTANCE McpServer WITH
                serving <- Asking("up"),
                finishing <- Asking("closing")

\* What a client sees is one server after the other, each with one token from
\* its start to its end, and a server that is told to stop gets to its end.
ImplementsServer == External!FairServerSpec

\* Every command returns.
CallsReturn == \A t \in Caller : pc[t] # "idle" ~> pc[t] = "idle"

Quiet == \A t \in Caller : pc[t] = "idle"

\* "It only starts when the mcp_server_enabled setting is true": with no
\* command under way, a server that runs is one the setting asks for.
RunsOnlyIfEnabled == Quiet /\ Running => enabled
=============================================================================
