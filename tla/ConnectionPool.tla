--------------------------- MODULE ConnectionPool ---------------------------
(***************************************************************************)
(* The connection pool (database/pool_manager.rs) and the commands that    *)
(* drive it (commands/pool.rs, the deletion in commands/connections.rs),   *)
(* followed for ONE saved connection: every map of the pool is keyed by    *)
(* uuid and no step relates two of them.                                   *)
(*                                                                         *)
(* A task is a Tauri command or an MCP call.  Each await at which another  *)
(* task can run is a stage of its program counter.  The idle reaper is one *)
(* more process, which takes the map's write lock but never the connect    *)
(* lock.  A driver is named by the order in which it was created.          *)
(***************************************************************************)
EXTENDS Naturals, Sequences

CONSTANTS
    Task,          \* concurrent callers
    Reaper,        \* the idle reaper, not a task
    NoTask,        \* "nobody holds the connect lock"
    Config,        \* what a saved connection may be configured as
    ReplayConfig,  \* those whose engine replays a failed read (all but D1)
    NoRow,         \* the saved connection was deleted
    MaxDrivers     \* bound: drivers created in a behaviour

ASSUME PoolAssumption ==
    /\ Reaper \notin Task
    /\ NoTask \notin Task
    /\ NoRow \notin Config
    /\ ReplayConfig \subseteq Config
    /\ MaxDrivers \in Nat

VARIABLES
    row,     \* the row of `connections`: a config or NoRow
    entry,   \* the PoolEntry of the uuid
    lock,    \* who holds the connect lock
    pc,      \* the stage of each task
    job,     \* the part of a call a task is in
    op,      \* what the call runs once connected: a read, a write or nothing
    ok,      \* whether the locked section succeeded
    retry,   \* the RetryPolicy of a read
    cfg,     \* the config a task read from the row
    arc,     \* the driver a task holds an Arc of, 0 for none
    taken,   \* an entry removed from the map and not yet shut down, by holder
    next,    \* drivers created so far
    ran,     \* the drivers a call executed its operation on, in order
    pooled,  \* history: every driver that ever entered the map
    shut     \* how often shutdown() was called on each driver

vars == <<row, entry, lock, pc, job, op, ok, retry, cfg, arc, taken, next, ran, pooled, shut>>

Driver == 1..MaxDrivers
Status == {"connected", "disconnected", "reconnecting"}

Entry == [drv : 0..MaxDrivers, cfg : Config \cup {NoRow}, status : Status, idle : BOOLEAN]
NoEntry == [drv |-> 0, cfg |-> NoRow, status |-> "disconnected", idle |-> FALSE]

Stage == {"idle", "lock", "recheck", "deleteRow", "remove", "shutdown", "config", "mark",
          "create", "test", "end", "policy", "get", "run", "health"}
Job == {"none", "connect", "ensure", "reconnect", "disconnect", "delete", "health"}

TypeOK ==
    /\ row \in Config \cup {NoRow}
    /\ entry \in Entry
    /\ lock \in Task \cup {NoTask}
    /\ pc \in [Task -> Stage]
    /\ job \in [Task -> Job]
    /\ op \in [Task -> {"none", "read", "write"}]
    /\ ok \in [Task -> BOOLEAN]
    /\ retry \in [Task -> BOOLEAN]
    /\ cfg \in [Task -> Config \cup {NoRow}]
    /\ arc \in [Task -> 0..MaxDrivers]
    /\ taken \in [Task \cup {Reaper} -> 0..MaxDrivers]
    /\ next \in 0..MaxDrivers
    /\ ran \in [Task -> Seq(Driver)]
    /\ pooled \in SUBSET (0..MaxDrivers)
    /\ shut \in [Driver -> Nat]

Pooled == entry.drv # 0

\* strong_count >= 1: the map's own Arc counts.
InUseCountingMap == Pooled

\* Arc::strong_count > 1: somebody beside the map holds the pooled driver.
InUse == \E t \in Task : arc[t] = entry.drv

Init ==
    /\ row \in Config
    /\ entry = NoEntry
    /\ lock = NoTask
    /\ pc = [t \in Task |-> "idle"]
    /\ job = [t \in Task |-> "none"]
    /\ op = [t \in Task |-> "none"]
    /\ ok = [t \in Task |-> TRUE]
    /\ retry = [t \in Task |-> FALSE]
    /\ cfg = [t \in Task |-> NoRow]
    /\ arc = [t \in Task |-> 0]
    /\ taken = [x \in Task \cup {Reaper} |-> 0]
    /\ next = 0
    /\ ran = [t \in Task |-> <<>>]
    /\ pooled = {}
    /\ shut = [d \in Driver |-> 0]

-----------------------------------------------------------------------------
(* Calls. *)

Goto(t, s) == pc' = [pc EXCEPT ![t] = s]

\* The call ends: its locals are gone.
Return(t) ==
    /\ pc' = [pc EXCEPT ![t] = "idle"]
    /\ job' = [job EXCEPT ![t] = "none"]
    /\ op' = [op EXCEPT ![t] = "none"]
    /\ ok' = [ok EXCEPT ![t] = TRUE]
    /\ retry' = [retry EXCEPT ![t] = FALSE]
    /\ cfg' = [cfg EXCEPT ![t] = NoRow]
    /\ ran' = [ran EXCEPT ![t] = <<>>]

locals == <<ok, retry, cfg, arc, taken, ran>>
world == <<row, entry, next, pooled, shut>>

\* The task's job runs under the connect lock: it asks for it first.
AskLock(t, j, o) ==
    /\ pc[t] = "idle"
    /\ Goto(t, "lock")
    /\ job' = [job EXCEPT ![t] = j]
    /\ op' = [op EXCEPT ![t] = o]
    /\ UNCHANGED <<lock, locals, world>>

\* pool_connect
CallConnect(t) == AskLock(t, "connect", "none")

\* pool_disconnect
CallDisconnect(t) == AskLock(t, "disconnect", "none")

\* with_pooled_read and the read commands: ensure_connection, then the operation
CallRead(t) == AskLock(t, "ensure", "read")

\* with_pooled_no_retry, run_mutation, pool_execute_query, the MCP tools
CallWrite(t) == AskLock(t, "ensure", "write")

\* delete_connection looks the uuid up before it asks for the lock; without a
\* row the deletion fails and touches nothing.
CallDelete(t) == row # NoRow /\ AskLock(t, "delete", "none")

\* health_check takes no connect lock: it clones the Arc and tests it.
CallHealth(t) ==
    /\ pc[t] = "idle"
    /\ Pooled
    /\ Goto(t, "health")
    /\ job' = [job EXCEPT ![t] = "health"]
    /\ arc' = [arc EXCEPT ![t] = entry.drv]
    /\ UNCHANGED <<lock, op, ok, retry, cfg, taken, ran, world>>

\* update_connection rewrites the row and leaves the pool alone.
EditRow(c) ==
    /\ row # NoRow
    /\ c # row
    /\ row' = c
    /\ UNCHANGED <<entry, lock, pc, job, op, locals, next, pooled, shut>>

-----------------------------------------------------------------------------
(* The connect lock. *)

AfterLock(t) ==
    CASE job[t] = "connect" -> "config"
      [] job[t] = "ensure" -> "recheck"
      [] job[t] = "delete" -> "deleteRow"
      [] OTHER -> "remove"

\* A caller that connects without asking for the lock.
LockUnserialized(t) ==
    /\ pc[t] = "lock"
    /\ \/ lock = NoTask
       \/ job[t] = "connect"
    /\ lock' = t
    /\ Goto(t, AfterLock(t))
    /\ UNCHANGED <<job, op, locals, world>>

Lock(t) ==
    /\ pc[t] = "lock"
    /\ lock = NoTask
    /\ lock' = t
    /\ Goto(t, AfterLock(t))
    /\ UNCHANGED <<job, op, locals, world>>

\* Connecting without looking again once the lock is held.
RecheckSkipped(t) ==
    /\ pc[t] = "recheck"
    /\ Goto(t, "config")
    /\ UNCHANGED <<row, entry, lock, job, op, locals, next, pooled, shut>>

\* ensure_connected_locked: another caller may have just connected.
Recheck(t) ==
    /\ pc[t] = "recheck"
    /\ IF Pooled
       THEN /\ entry' = [entry EXCEPT !.idle = FALSE]
            /\ Goto(t, "end")
       ELSE /\ Goto(t, "config")
            /\ UNCHANGED entry
    /\ UNCHANGED <<row, lock, job, op, locals, next, pooled, shut>>

\* Where the guard is dropped: the call returns, or its operation may run.
AfterSection(t) == IF job[t] = "ensure" /\ op[t] = "read" THEN "policy" ELSE "get"

EndSection(t) ==
    /\ pc[t] = "end"
    /\ lock' = NoTask
    /\ IF op[t] # "none" /\ ok[t]
       THEN /\ Goto(t, AfterSection(t))
            /\ cfg' = [cfg EXCEPT ![t] = NoRow]
            /\ UNCHANGED <<job, op, ok, retry, ran>>
       ELSE Return(t)
    /\ UNCHANGED <<arc, taken, world>>

Fail(t) ==
    /\ Goto(t, "end")
    /\ ok' = [ok EXCEPT ![t] = FALSE]

-----------------------------------------------------------------------------
(* Removing an entry: disconnect_locked, and the deletion before it. *)

\* delete_connection_with_link commits, or fails and leaves everything as it
\* was.  What finalize_deleted_connection stops first, the uuid's live
\* streams, is not part of this module.
DeleteRow(t) ==
    /\ pc[t] = "deleteRow"
    /\ \/ /\ row # NoRow
          /\ row' = NoRow
          /\ Goto(t, "remove")
          /\ UNCHANGED ok
       \/ Fail(t) /\ UNCHANGED row
    /\ UNCHANGED <<entry, lock, job, op, retry, cfg, arc, taken, ran, next, pooled, shut>>

AfterRemove(t) == IF job[t] = "reconnect" THEN "config" ELSE "end"

\* A removed entry that is dropped without being shut down.
RemoveLeaking(t) ==
    /\ pc[t] = "remove"
    /\ Goto(t, AfterRemove(t))
    /\ entry' = NoEntry
    /\ UNCHANGED <<row, lock, job, op, locals, next, pooled, shut>>

\* A removal that skips an entry that is not connected.
RemoveConnectedOnly(t) ==
    /\ pc[t] = "remove"
    /\ IF Pooled /\ entry.status = "connected"
       THEN /\ taken' = [taken EXCEPT ![t] = entry.drv]
            /\ entry' = NoEntry
            /\ Goto(t, "shutdown")
       ELSE /\ Goto(t, AfterRemove(t))
            /\ UNCHANGED <<taken, entry>>
    /\ UNCHANGED <<row, lock, job, op, ok, retry, cfg, arc, ran, next, pooled, shut>>

\* disconnect() in place of disconnect_locked(): it asks for the lock again.
RemoveRelocking(t) ==
    /\ pc[t] = "remove"
    /\ lock = NoTask
    /\ IF Pooled
       THEN /\ taken' = [taken EXCEPT ![t] = entry.drv]
            /\ entry' = NoEntry
            /\ Goto(t, "shutdown")
       ELSE /\ Goto(t, AfterRemove(t))
            /\ UNCHANGED <<taken, entry>>
    /\ UNCHANGED <<row, lock, job, op, ok, retry, cfg, arc, ran, next, pooled, shut>>

\* disconnect_locked: out of the map first, shut down in the next step.
Remove(t) ==
    /\ pc[t] = "remove"
    /\ IF Pooled
       THEN /\ taken' = [taken EXCEPT ![t] = entry.drv]
            /\ entry' = NoEntry
            /\ Goto(t, "shutdown")
       ELSE /\ Goto(t, AfterRemove(t))
            /\ UNCHANGED <<taken, entry>>
    /\ UNCHANGED <<row, lock, job, op, ok, retry, cfg, arc, ran, next, pooled, shut>>

\* The removed or replaced entry is shut down and dropped, its tunnel with it.
\* A task that has read its config was replacing the entry, the others removing it.
Shutdown(t) ==
    /\ pc[t] = "shutdown"
    /\ shut' = [shut EXCEPT ![taken[t]] = @ + 1]
    /\ taken' = [taken EXCEPT ![t] = 0]
    /\ Goto(t, IF cfg[t] # NoRow THEN "end" ELSE AfterRemove(t))
    /\ UNCHANGED <<row, entry, lock, job, op, ok, retry, cfg, arc, ran, next, pooled>>

-----------------------------------------------------------------------------
(* Connecting: ensure_created_connection_running, get_connection_config and *)
(* PoolManager::connect.                                                   *)

\* Docker cannot start the container, or the row is gone.
ReadConfig(t) ==
    /\ pc[t] = "config"
    /\ \/ /\ row # NoRow
          /\ cfg' = [cfg EXCEPT ![t] = row]
          /\ Goto(t, "mark")
          /\ UNCHANGED ok
       \/ Fail(t) /\ UNCHANGED cfg
    /\ UNCHANGED <<lock, job, op, retry, arc, taken, ran, world>>

Mark(t) ==
    /\ pc[t] = "mark"
    /\ Goto(t, "create")
    /\ IF Pooled THEN entry' = [entry EXCEPT !.status = "reconnecting"] ELSE UNCHANGED entry
    /\ UNCHANGED <<row, lock, job, op, locals, next, pooled, shut>>

\* create_driver_with_ssh or MongoDriver::connect: an unusable config, an SSH
\* timeout and a refused connection all return early.
CreateDriver(t) ==
    /\ pc[t] = "create"
    /\ next < MaxDrivers
    /\ next' = next + 1
    /\ arc' = [arc EXCEPT ![t] = next + 1]
    /\ Goto(t, "test")
    /\ UNCHANGED <<row, entry, lock, job, op, ok, retry, cfg, taken, ran, pooled, shut>>

CreateFails(t) ==
    /\ pc[t] = "create"
    /\ Fail(t)
    /\ UNCHANGED <<lock, job, op, retry, cfg, arc, taken, ran, world>>

\* test_connection is an Err: the new driver is dropped, the old entry stays.
TestFails(t) ==
    /\ pc[t] = "test"
    /\ arc' = [arc EXCEPT ![t] = 0]
    /\ Fail(t)
    /\ UNCHANGED <<lock, job, op, retry, cfg, taken, ran, world>>

\* A replacement that forgets the entry it replaces.
InsertLeaking(t, success) ==
    /\ pc[t] = "test"
    /\ entry' = [drv |-> arc[t], cfg |-> cfg[t], idle |-> FALSE,
                 status |-> IF success THEN "connected" ELSE "disconnected"]
    /\ pooled' = pooled \cup {arc[t]}
    /\ arc' = [arc EXCEPT ![t] = 0]
    /\ ok' = [ok EXCEPT ![t] = success]
    /\ Goto(t, "end")
    /\ UNCHANGED <<row, lock, job, op, retry, cfg, taken, ran, next, shut>>

\* test_connection answered, well or badly, and replace_pool_entry stores the
\* entry either way.  A replaced entry is still to be shut down.
InsertEntry(t, success) ==
    /\ pc[t] = "test"
    /\ entry' = [drv |-> arc[t], cfg |-> cfg[t], idle |-> FALSE,
                 status |-> IF success THEN "connected" ELSE "disconnected"]
    /\ pooled' = pooled \cup {arc[t]}
    /\ arc' = [arc EXCEPT ![t] = 0]
    /\ ok' = [ok EXCEPT ![t] = success]
    /\ IF Pooled
       THEN taken' = [taken EXCEPT ![t] = entry.drv] /\ Goto(t, "shutdown")
       ELSE Goto(t, "end") /\ UNCHANGED taken
    /\ UNCHANGED <<row, lock, job, op, retry, cfg, ran, next, shut>>

-----------------------------------------------------------------------------
(* Running an operation: execute_with_retry_policy. *)

\* read_retry_policy looks at the config of whatever entry is pooled now.
ReadPolicy(t) ==
    /\ pc[t] = "policy"
    /\ retry' = [retry EXCEPT ![t] = Pooled /\ entry.cfg \in ReplayConfig]
    /\ Goto(t, "get")
    /\ UNCHANGED <<lock, job, op, ok, cfg, arc, taken, ran, world>>

\* A retry policy that also covers writes.
AfterErrorReplayingWrites(t) ==
    IF retry[t] \/ op[t] = "write" THEN "reconnect" ELSE "none"

\* The reconnect an operation's error leads to, if any: a read's first error only.
AfterError(t) == IF retry[t] /\ job[t] = "ensure" THEN "reconnect" ELSE "none"

\* operation() was an Err.
OperationFails(t) ==
    IF AfterError(t) = "none"
    THEN Return(t)
    ELSE /\ Goto(t, "lock")
         /\ job' = [job EXCEPT ![t] = AfterError(t)]
         /\ UNCHANGED <<op, ok, retry, cfg, ran>>

\* An operation that takes for granted that the entry is still there.
GetDriverUnchecked(t) ==
    /\ pc[t] = "get"
    /\ arc' = [arc EXCEPT ![t] = entry.drv]
    /\ entry' = [entry EXCEPT !.idle = FALSE]
    /\ ran' = [ran EXCEPT ![t] = Append(@, entry.drv)]
    /\ Goto(t, "run")
    /\ UNCHANGED <<row, lock, job, op, ok, retry, cfg, taken, next, pooled, shut>>

\* get_cached: the connection may have been removed since it was ensured.
GetDriver(t) ==
    /\ pc[t] = "get"
    /\ IF Pooled
       THEN /\ arc' = [arc EXCEPT ![t] = entry.drv]
            /\ entry' = [entry EXCEPT !.idle = FALSE]
            /\ ran' = [ran EXCEPT ![t] = Append(@, entry.drv)]
            /\ Goto(t, "run")
            /\ UNCHANGED <<job, op, ok, retry, cfg>>
       ELSE /\ OperationFails(t)
            /\ UNCHANGED <<arc, entry>>
    /\ UNCHANGED <<row, lock, taken, next, pooled, shut>>

\* The operation ends; its Arc is dropped.
RunEnds(t) ==
    /\ pc[t] = "run"
    /\ arc' = [arc EXCEPT ![t] = 0]
    /\ Return(t) \/ OperationFails(t)
    /\ UNCHANGED <<lock, taken, world>>

\* The health check ends: it writes what it found to whatever entry is there
\* now, unless the test was an Err.
HealthEnds(t) ==
    /\ pc[t] = "health"
    /\ \/ \E s \in {"connected", "disconnected"} :
             entry' = IF Pooled THEN [entry EXCEPT !.status = s] ELSE entry
       \/ UNCHANGED entry
    /\ arc' = [arc EXCEPT ![t] = 0]
    /\ Return(t)
    /\ UNCHANGED <<row, lock, taken, next, pooled, shut>>

-----------------------------------------------------------------------------
(* The idle reaper.  IDLE_TIMEOUT is a flag: `idle` says last_used is older. *)

GrowIdle ==
    /\ Pooled
    /\ ~entry.idle
    /\ entry' = [entry EXCEPT !.idle = TRUE]
    /\ UNCHANGED <<row, lock, pc, job, op, locals, next, pooled, shut>>

\* A reaper that never looks at the Arcs.
TakeIdleBlindly ==
    /\ taken[Reaper] = 0
    /\ Pooled
    /\ entry.idle
    /\ taken' = [taken EXCEPT ![Reaper] = entry.drv]
    /\ entry' = NoEntry
    /\ UNCHANGED <<row, lock, pc, job, op, ok, retry, cfg, arc, ran, next, pooled, shut>>

\* One tick, take_idle_entries: an entry somebody uses has its last_used
\* refreshed, an idle one that nobody uses leaves the map.
TakeIdle ==
    /\ taken[Reaper] = 0
    /\ Pooled
    /\ entry.idle
    /\ IF InUse
       THEN entry' = [entry EXCEPT !.idle = FALSE] /\ UNCHANGED taken
       ELSE entry' = NoEntry /\ taken' = [taken EXCEPT ![Reaper] = entry.drv]
    /\ UNCHANGED <<row, lock, pc, job, op, ok, retry, cfg, arc, ran, next, pooled, shut>>

\* shutdown_entries, with no lock held.
ReaperShutdown ==
    /\ taken[Reaper] # 0
    /\ shut' = [shut EXCEPT ![taken[Reaper]] = @ + 1]
    /\ taken' = [taken EXCEPT ![Reaper] = 0]
    /\ UNCHANGED <<row, entry, lock, pc, job, op, ok, retry, cfg, arc, ran, next, pooled>>

-----------------------------------------------------------------------------
Call(t) ==
    \/ CallConnect(t) \/ CallDisconnect(t) \/ CallRead(t)
    \/ CallWrite(t) \/ CallDelete(t) \/ CallHealth(t)

\* What a task does by itself once it holds what it waits for.
Continue(t) ==
    \/ Recheck(t) \/ EndSection(t) \/ DeleteRow(t) \/ Remove(t) \/ Shutdown(t)
    \/ ReadConfig(t) \/ Mark(t) \/ CreateDriver(t) \/ CreateFails(t) \/ TestFails(t)
    \/ \E success \in BOOLEAN : InsertEntry(t, success)
    \/ ReadPolicy(t) \/ GetDriver(t) \/ RunEnds(t) \/ HealthEnds(t)

Reap == TakeIdle \/ ReaperShutdown

Next ==
    \/ \E t \in Task : Call(t) \/ Lock(t) \/ Continue(t)
    \/ \E c \in Config : EditRow(c)
    \/ GrowIdle
    \/ Reap

Spec == Init /\ [][Next]_vars

(* Drivers answer or time out, time passes and the reaper's interval keeps *)
(* ticking, and tokio's Mutex hands the connect lock to its waiters in     *)
(* order.                                                                  *)
FairSpec ==
    /\ Spec
    /\ \A t \in Task : WF_vars(Continue(t)) /\ SF_vars(Lock(t))
    /\ WF_vars(GrowIdle) /\ WF_vars(Reap)
-----------------------------------------------------------------------------
(* Safety. *)

\* Every connection that ever entered the pool is in one place: in the map, in
\* the hands of the one step that will shut it down, or shut down, once
\* (replace_pool_entry, disconnect_locked, shutdown_entries).
ClosedOnce ==
    \A d \in pooled :
        /\ shut[d] <= 1
        /\ shut[d] = 0 => entry.drv = d \/ \E x \in Task \cup {Reaper} : taken[x] = d
        /\ entry.drv = d => shut[d] = 0
        /\ \A x \in Task \cup {Reaper} :
               taken[x] = d =>
                   /\ shut[d] = 0
                   /\ entry.drv # d
                   /\ \A y \in Task \cup {Reaper} : taken[y] = d => x = y

\* A deleted connection is not pooled again: no call that read the config
\* before the deletion can still insert an entry after it.
DeletedStaysGone ==
    row = NoRow /\ Pooled => \E t \in Task : job[t] = "delete" /\ pc[t] = "remove"

\* When pool_disconnect, or a deletion that succeeded, is about to return,
\* nothing is pooled: no connect was under way beside it.
DisconnectClears ==
    \A t \in Task :
        pc[t] = "end" /\ job[t] \in {"disconnect", "delete"} /\ ok[t] => ~Pooled

\* The reaper never shuts down a connection under an operation or a health
\* check, although it takes neither the connect lock nor an Arc.
ReaperSparesInUse ==
    taken[Reaper] # 0 => \A t \in Task : arc[t] # taken[Reaper]

\* A write reaches the database once at most, a read twice, and the second
\* time on a connection made after the first one (execute_with_retry_policy).
\* The comment of pool_execute_query, "auto-retries on error", says otherwise of
\* statements; the policy it passes, RetryPolicy::Never, is what holds.
RunsBounded ==
    \A t \in Task :
        /\ Len(ran[t]) <= IF op[t] = "read" THEN 2 ELSE 1
        /\ Len(ran[t]) = 2 => ran[t][1] < ran[t][2]

\* ensure_connected takes no connection away that another caller made: what
\* leaves the map is replaced by pool_connect, removed by a disconnect, a deletion
\* or a retry, all under the lock, or idle and in nobody's hands.  A retry removes
\* what it finds, also what another retry just made, but only before it connects.
EnsureKeepsPooled ==
    [][Pooled /\ entry'.drv # entry.drv =>
        \/ taken'[Reaper] = entry.drv /\ ~InUse
        \/ \E t \in Task :
            /\ lock = t
            /\ \/ job[t] = "connect" /\ pc[t] = "test"
               \/ job[t] \in {"reconnect", "disconnect", "delete"} /\ pc[t] = "remove"]_vars

-----------------------------------------------------------------------------
(* Liveness, and the abstract slot. *)

\* Every call returns, whatever the others do: no lost lock, no self-deadlock.
CallsReturn == \A t \in Task : pc[t] # "idle" ~> pc[t] = "idle"

\* Left alone, the application ends up holding no connection, so that no SSH
\* tunnel lingers for the whole session.
LeftAloneDrains == <>[](\A t \in Task : pc[t] = "idle") => <>[]~Pooled

Slot == INSTANCE PoolSlot WITH
            slot <- entry.drv,
            entered <- pooled,
            leaving <- {taken[x] : x \in Task \cup {Reaper}} \ {0},
            closed <- {d \in Driver : shut[d] > 0}

\* The pool is a slot whose connections enter once and are shut down in the end.
ImplementsSlot == Slot!FairSlotSpec
=============================================================================
