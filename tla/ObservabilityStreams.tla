------------------------ MODULE ObservabilityStreams ------------------------
(***************************************************************************)
(* The live log and activity streams (observability/mod.rs) and the        *)
(* commands that start and stop them: start_observability_stream and       *)
(* stop_observability_stream, the disconnect and the deletion of a         *)
(* connection, which stop its streams under the connect lock, and the exit *)
(* of the application, which stops them all and takes no connect lock.     *)
(*                                                                         *)
(* A stream is a tokio task.  Cancelling it is a request it may be slow to *)
(* see; aborting it takes effect at its next await, but only once somebody *)
(* has its abort handle, which start stores after the task is running.     *)
(***************************************************************************)
EXTENDS Naturals, FiniteSets

CONSTANTS
    Connection,
    Stream,       \* stream ids, each used once; bounds the streams started
    Caller,       \* concurrent commands
    MaxStreams,   \* MAX_STREAMS_PER_CONNECTION
    None

Reason == {"source_ended", "requested", "disconnected"}

ASSUME StreamsAssumption ==
    /\ None \notin Connection \cup Stream \cup Caller \cup Reason
    /\ MaxStreams \in Nat
    /\ IsFiniteSet(Stream)

VARIABLES
    rows,       \* the saved connections that were not deleted
    streams,    \* ManagerState.streams: the registered stream ids
    closing,    \* ManagerState.shutdown
    of,         \* the connection a stream was registered for
    cancelled,  \* ActiveStream.cancellation
    reason,     \* ActiveStream.stop_reason
    handle,     \* ActiveStream.worker is Some: the supervisor runs
    force,      \* ActiveStream.force_abort
    done,       \* ActiveStream.done
    aborting,   \* abort() was called on the task
    worker,     \* where the task is
    sent,       \* the reason of the Stopped event it sent
    lock,       \* the connect lock of each connection
    pc, job,    \* the stage of each caller and what it is there for
    at,         \* the connection a caller works on
    mine,       \* the stream it starts, or the streams it stops
    todo, cur   \* those it still has to signal, and the one it is at

stream == <<streams, of, cancelled, reason, handle, force, done, aborting, worker, sent>>
caller == <<pc, job, at, mine, todo, cur>>
vars == <<rows, closing, stream, lock, caller>>

Job == {"none", "start", "disconnect", "delete", "stop", "exit"}
Stage == {"idle", "lock", "register", "spawn", "supervise", "deleteRow", "collect",
          "signal", "wait", "abort", "abortWait", "remove"}
Worker == {"none", "running", "over", "stopped", "ended"}

TypeOK ==
    /\ rows \in SUBSET Connection
    /\ streams \in SUBSET Stream
    /\ closing \in BOOLEAN
    /\ of \in [Stream -> Connection \cup {None}]
    /\ cancelled \in [Stream -> BOOLEAN]
    /\ reason \in [Stream -> Reason]
    /\ handle \in [Stream -> BOOLEAN]
    /\ force \in [Stream -> BOOLEAN]
    /\ done \in [Stream -> BOOLEAN]
    /\ aborting \in [Stream -> BOOLEAN]
    /\ worker \in [Stream -> Worker]
    /\ sent \in [Stream -> Reason \cup {None}]
    /\ lock \in [Connection -> Caller \cup {None}]
    /\ pc \in [Caller -> Stage]
    /\ job \in [Caller -> Job]
    /\ at \in [Caller -> Connection \cup {None}]
    /\ mine \in [Caller -> SUBSET Stream]
    /\ todo \in [Caller -> SUBSET Stream]
    /\ cur \in [Caller -> Stream \cup {None}]

Init ==
    /\ rows = Connection
    /\ streams = {}
    /\ closing = FALSE
    /\ of = [s \in Stream |-> None]
    /\ cancelled = [s \in Stream |-> FALSE]
    /\ reason = [s \in Stream |-> "source_ended"]
    /\ handle = [s \in Stream |-> FALSE]
    /\ force = [s \in Stream |-> FALSE]
    /\ done = [s \in Stream |-> FALSE]
    /\ aborting = [s \in Stream |-> FALSE]
    /\ worker = [s \in Stream |-> "none"]
    /\ sent = [s \in Stream |-> None]
    /\ lock = [c \in Connection |-> None]
    /\ pc = [t \in Caller |-> "idle"]
    /\ job = [t \in Caller |-> "none"]
    /\ at = [t \in Caller |-> None]
    /\ mine = [t \in Caller |-> {}]
    /\ todo = [t \in Caller |-> {}]
    /\ cur = [t \in Caller |-> None]

Goto(t, s) == pc' = [pc EXCEPT ![t] = s]

StreamsOf(c) == {s \in streams : of[s] = c}

-----------------------------------------------------------------------------
(* Calls. *)

Call(t, j, stage, c, ss) ==
    /\ pc[t] = "idle"
    /\ Goto(t, stage)
    /\ job' = [job EXCEPT ![t] = j]
    /\ at' = [at EXCEPT ![t] = c]
    /\ mine' = [mine EXCEPT ![t] = ss]
    /\ UNCHANGED <<rows, closing, stream, lock, todo, cur>>

\* A start that does not wait for its turn on the connection.
CallStartUnlocked(t, c) == Call(t, "start", "register", c, {})

CallStart(t, c) == Call(t, "start", "lock", c, {})

CallDisconnect(t, c) == Call(t, "disconnect", "lock", c, {})

CallDelete(t, c) == c \in rows /\ Call(t, "delete", "lock", c, {})

\* The viewer knows the id from the first event the stream sends.
CallStop(t, s) == worker[s] # "none" /\ Call(t, "stop", "collect", None, {s})

\* RunEvent::Exit comes once.
CallExit(t) ==
    /\ ~closing
    /\ \A u \in Caller : job[u] # "exit"
    /\ Call(t, "exit", "collect", None, {})

\* The call returns, and with it goes the guard of the connect lock.
Return(t) ==
    /\ Goto(t, "idle")
    /\ job' = [job EXCEPT ![t] = "none"]
    /\ at' = [at EXCEPT ![t] = None]
    /\ mine' = [mine EXCEPT ![t] = {}]
    /\ todo' = [todo EXCEPT ![t] = {}]
    /\ cur' = [cur EXCEPT ![t] = None]
    /\ lock' = [c \in Connection |-> IF lock[c] = t THEN None ELSE lock[c]]

AfterLock(t) ==
    CASE job[t] = "start" -> "register"
      [] job[t] = "delete" -> "deleteRow"
      [] OTHER -> "collect"

Lock(t) ==
    /\ pc[t] = "lock"
    /\ lock[at[t]] = None
    /\ lock' = [lock EXCEPT ![at[t]] = t]
    /\ Goto(t, AfterLock(t))
    /\ UNCHANGED <<rows, closing, stream, job, at, mine, todo, cur>>

-----------------------------------------------------------------------------
(* start_observability_stream. *)

\* The connection is gone, its source is unavailable, it cannot connect, or
\* register refuses.
StartFails(t) ==
    /\ pc[t] = "register"
    /\ Return(t)
    /\ UNCHANGED <<rows, closing, stream>>

\* A start that does not look the connection up.
RegisterUnchecked(t, s) ==
    /\ pc[t] = "register"
    /\ ~closing
    /\ Cardinality(StreamsOf(at[t])) < MaxStreams
    /\ of[s] = None
    /\ of' = [of EXCEPT ![s] = at[t]]
    /\ streams' = streams \cup {s}
    /\ mine' = [mine EXCEPT ![t] = {s}]
    /\ Goto(t, "spawn")
    /\ UNCHANGED <<rows, closing, cancelled, reason, handle, force, done, aborting, worker,
                   sent, lock, job, at, todo, cur>>

\* A registration that does not know of the shutdown.
RegisterClosing(t, s) ==
    /\ pc[t] = "register"
    /\ at[t] \in rows
    /\ Cardinality(StreamsOf(at[t])) < MaxStreams
    /\ of[s] = None
    /\ of' = [of EXCEPT ![s] = at[t]]
    /\ streams' = streams \cup {s}
    /\ mine' = [mine EXCEPT ![t] = {s}]
    /\ Goto(t, "spawn")
    /\ UNCHANGED <<rows, closing, cancelled, reason, handle, force, done, aborting, worker,
                   sent, lock, job, at, todo, cur>>

\* The row is there, and register finds the manager open and below the limit.
Register(t, s) ==
    /\ pc[t] = "register"
    /\ at[t] \in rows
    /\ ~closing
    /\ Cardinality(StreamsOf(at[t])) < MaxStreams
    /\ of[s] = None
    /\ of' = [of EXCEPT ![s] = at[t]]
    /\ streams' = streams \cup {s}
    /\ mine' = [mine EXCEPT ![t] = {s}]
    /\ Goto(t, "spawn")
    /\ UNCHANGED <<rows, closing, cancelled, reason, handle, force, done, aborting, worker,
                   sent, lock, job, at, todo, cur>>

Spawn(t) ==
    /\ pc[t] = "spawn"
    /\ worker' = [s \in Stream |-> IF s \in mine[t] THEN "running" ELSE worker[s]]
    /\ Goto(t, "supervise")
    /\ UNCHANGED <<rows, closing, streams, of, cancelled, reason, handle, force, done, aborting,
                   sent, lock, job, at, mine, todo, cur>>

\* A supervisor that does not ask whether somebody gave up waiting before.
SuperviseUnforced(t) ==
    /\ pc[t] = "supervise"
    /\ handle' = [s \in Stream |-> s \in mine[t] \/ handle[s]]
    /\ Return(t)
    /\ UNCHANGED <<rows, closing, streams, of, cancelled, reason, force, done, aborting, worker, sent>>

\* supervise_worker: the handle is stored and force_abort read under the
\* stream's own mutex; the supervisor is spawned and start returns.
Supervise(t) ==
    /\ pc[t] = "supervise"
    /\ handle' = [s \in Stream |-> s \in mine[t] \/ handle[s]]
    /\ aborting' = [s \in Stream |-> aborting[s] \/ (s \in mine[t] /\ force[s])]
    /\ Return(t)
    /\ UNCHANGED <<rows, closing, streams, of, cancelled, reason, force, done, worker, sent>>

-----------------------------------------------------------------------------
(* Stopping: stop, stop_connection, stop_all and stop_active. *)

\* delete_saved_connection commits, or fails and the command with it.
DeleteRow(t) ==
    /\ pc[t] = "deleteRow"
    /\ \/ /\ rows' = rows \ {at[t]}
          /\ Goto(t, "collect")
          /\ UNCHANGED <<lock, job, at, mine, todo, cur>>
       \/ Return(t) /\ UNCHANGED rows
    /\ UNCHANGED <<closing, stream>>

\* What the caller stops: one look at the map under the manager's mutex.
Targets(t) ==
    CASE job[t] = "stop" -> mine[t] \cap streams
      [] job[t] = "exit" -> streams
      [] OTHER -> StreamsOf(at[t])

\* Once its streams are stopped, a disconnect or a deletion goes on to the pool.
Stopped(t) ==
    IF job[t] \in {"disconnect", "delete"}
    THEN Goto(t, "remove") /\ UNCHANGED <<lock, job, at, mine, todo, cur>>
    ELSE Return(t)

Collect(t) ==
    /\ pc[t] = "collect"
    /\ closing' = (closing \/ job[t] = "exit")
    /\ IF Targets(t) = {}
       THEN Stopped(t)
       ELSE /\ mine' = [mine EXCEPT ![t] = Targets(t)]
            /\ todo' = [todo EXCEPT ![t] = Targets(t)]
            /\ Goto(t, "signal")
            /\ UNCHANGED <<lock, job, at, cur>>
    /\ UNCHANGED <<rows, stream>>

StopReason(t) == IF job[t] \in {"disconnect", "delete"} THEN "disconnected" ELSE "requested"

\* A stop that does not say why.
SetReasonForgotten(t, s) ==
    /\ pc[t] = "signal"
    /\ cur[t] = None
    /\ s \in todo[t]
    /\ cur' = [cur EXCEPT ![t] = s]
    /\ UNCHANGED <<rows, closing, stream, lock, pc, job, at, mine, todo>>

\* set_stop_reason: the first explicit reason stays.
SetReason(t, s) ==
    /\ pc[t] = "signal"
    /\ cur[t] = None
    /\ s \in todo[t]
    /\ cur' = [cur EXCEPT ![t] = s]
    /\ reason' = [reason EXCEPT ![s] = IF @ = "source_ended" THEN StopReason(t) ELSE @]
    /\ UNCHANGED <<rows, closing, streams, of, cancelled, handle, force, done, aborting, worker,
                   sent, lock, pc, job, at, mine, todo>>

\* The caller is through with one stream; with the last one it moves on.
Next1(t, stage) ==
    /\ cur' = [cur EXCEPT ![t] = None]
    /\ todo' = [todo EXCEPT ![t] = @ \ {cur[t]}]
    /\ IF todo[t] = {cur[t]} THEN Goto(t, stage) ELSE UNCHANGED pc

Cancel(t) ==
    /\ pc[t] = "signal"
    /\ cur[t] # None
    /\ cancelled' = [cancelled EXCEPT ![cur[t]] = TRUE]
    /\ Next1(t, "wait")
    /\ UNCHANGED <<rows, closing, streams, of, reason, handle, force, done, aborting, worker,
                   sent, lock, job, at, mine>>

\* wait_for_streams
Waited(t) ==
    /\ pc[t] \in {"wait", "abortWait"}
    /\ \A s \in mine[t] : done[s]
    /\ Stopped(t)
    /\ UNCHANGED <<rows, closing, stream>>

\* Waiting for the streams that listen without a bound.
CooperativeUntimed(t) ==
    /\ pc[t] = "wait"
    /\ \A s \in mine[t] : done[s]
    /\ todo' = [todo EXCEPT ![t] = mine[t]]
    /\ Goto(t, "abort")
    /\ UNCHANGED <<rows, closing, stream, lock, job, at, mine, cur>>

\* Half of the shutdown timeout is for the streams that listen.
CooperativeTimeout(t) ==
    /\ pc[t] = "wait"
    /\ todo' = [todo EXCEPT ![t] = mine[t]]
    /\ Goto(t, "abort")
    /\ UNCHANGED <<rows, closing, stream, lock, job, at, mine, cur>>

SetForce(t, s) ==
    /\ pc[t] = "abort"
    /\ cur[t] = None
    /\ s \in todo[t]
    /\ cur' = [cur EXCEPT ![t] = s]
    /\ force' = [force EXCEPT ![s] = @ \/ ~done[s]]
    /\ UNCHANGED <<rows, closing, streams, of, cancelled, reason, handle, done, aborting, worker,
                   sent, lock, pc, job, at, mine, todo>>

\* An abort that takes the stream off the map before its task has ended.
AbortHandleForgetting(t) ==
    /\ pc[t] = "abort"
    /\ cur[t] # None
    /\ aborting' = [aborting EXCEPT ![cur[t]] = @ \/ handle[cur[t]]]
    /\ streams' = streams \ {cur[t]}
    /\ Next1(t, "abortWait")
    /\ UNCHANGED <<rows, closing, of, cancelled, reason, handle, force, done, worker,
                   sent, lock, job, at, mine>>

\* The task is aborted if its handle is there; else Supervise will see force.
AbortHandle(t) ==
    /\ pc[t] = "abort"
    /\ cur[t] # None
    /\ aborting' = [aborting EXCEPT ![cur[t]] = @ \/ handle[cur[t]]]
    /\ Next1(t, "abortWait")
    /\ UNCHANGED <<rows, closing, streams, of, cancelled, reason, handle, force, done, worker,
                   sent, lock, job, at, mine>>

\* The other half: after that the caller goes on, whatever the streams do.
AbortTimeout(t) ==
    /\ pc[t] = "abortWait"
    /\ Stopped(t)
    /\ UNCHANGED <<rows, closing, stream>>

\* disconnect_locked, and the command returns.
Remove(t) ==
    /\ pc[t] = "remove"
    /\ Return(t)
    /\ UNCHANGED <<rows, closing, stream>>

-----------------------------------------------------------------------------
(* The task of a stream, and its supervisor. *)

To(s, w) == worker' = [worker EXCEPT ![s] = w]

taskless == <<streams, of, cancelled, reason, handle, force, done, aborting>>

\* run_native_source or run_docker_logs returns: the source ended or failed,
\* the viewer was closed, or the task saw its cancellation.
SourceEnds(s) ==
    /\ worker[s] = "running"
    /\ To(s, "over")
    /\ UNCHANGED <<rows, closing, taskless, sent, lock, caller>>

\* Only a task that was cancelled asks for the reason.
ReadCancelled(s) ==
    /\ worker[s] = "over"
    /\ IF cancelled[s]
       THEN To(s, "stopped") /\ UNCHANGED sent
       ELSE To(s, "ended") /\ sent' = [sent EXCEPT ![s] = "source_ended"]
    /\ UNCHANGED <<rows, closing, taskless, lock, caller>>

ReadReason(s) ==
    /\ worker[s] = "stopped"
    /\ To(s, "ended")
    /\ sent' = [sent EXCEPT ![s] = reason[s]]
    /\ UNCHANGED <<rows, closing, taskless, lock, caller>>

\* The abort takes effect, or the task panics: no Stopped event.
Aborted(s) ==
    /\ worker[s] = "running"
    /\ aborting[s]
    /\ To(s, "ended")
    /\ UNCHANGED <<rows, closing, taskless, sent, lock, caller>>

Panics(s) ==
    /\ worker[s] = "running"
    /\ To(s, "ended")
    /\ UNCHANGED <<rows, closing, taskless, sent, lock, caller>>

\* The supervisor's worker.await is over: finish.
Finish(s) ==
    /\ worker[s] = "ended"
    /\ handle[s]
    /\ s \in streams
    /\ streams' = streams \ {s}
    /\ done' = [done EXCEPT ![s] = TRUE]
    /\ UNCHANGED <<rows, closing, of, cancelled, reason, handle, force, aborting, worker, sent,
                   lock, caller>>

-----------------------------------------------------------------------------
Calls(t) ==
    \/ \E c \in Connection : CallStart(t, c) \/ CallDisconnect(t, c) \/ CallDelete(t, c)
    \/ \E s \in Stream : CallStop(t, s)
    \/ CallExit(t)

\* What a caller does by itself; both waits of stop_active end in time.
Continue(t) ==
    \/ StartFails(t) \/ Spawn(t) \/ Supervise(t) \/ DeleteRow(t) \/ Collect(t)
    \/ \E s \in Stream : Register(t, s) \/ SetReason(t, s) \/ SetForce(t, s)
    \/ Cancel(t) \/ Waited(t) \/ CooperativeTimeout(t)
    \/ AbortHandle(t) \/ AbortTimeout(t) \/ Remove(t)

\* What the runtime does for a task sooner or later.
Wind(s) == ReadCancelled(s) \/ ReadReason(s) \/ Aborted(s) \/ Finish(s)

Next ==
    \/ \E t \in Caller : Calls(t) \/ Lock(t) \/ Continue(t)
    \/ \E s \in Stream : SourceEnds(s) \/ Panics(s) \/ Wind(s)

Spec == Init /\ [][Next]_vars

(* Nothing is assumed of a source: it may ignore its cancellation forever. *)
(* tokio schedules every ready task, aborts a task at its next await and   *)
(* hands the connect lock to its waiters in order.                         *)
FairSpec ==
    /\ Spec
    /\ \A t \in Caller : WF_vars(Continue(t)) /\ SF_vars(Lock(t))
    /\ \A s \in Stream : WF_vars(Wind(s))

-----------------------------------------------------------------------------
(* Safety. *)

Live(s) == worker[s] \in {"running", "over", "stopped"}

\* The limit is one on tasks, not on map entries: no connection has more
\* than MaxStreams tasks, those that ignore their cancellation included.
TasksBounded ==
    \A c \in Connection : Cardinality({s \in Stream : Live(s) /\ of[s] = c}) <= MaxStreams

\* When pool_disconnect or delete_connection turns to the pool, every stream
\* of the connection has been told to stop: none was started beside it.
DisconnectStopsAll ==
    \A t \in Caller : pc[t] = "remove" => \A s \in StreamsOf(at[t]) : cancelled[s]

\* Nobody streams from a deleted connection.
DeletedIsSilent ==
    \A c \in Connection \ rows :
        lock[c] = None => \A s \in StreamsOf(c) : cancelled[s]

\* Once the exit has stopped the streams no stream is left that was not told.
ExitStopsAll ==
    closing /\ (\A t \in Caller : job[t] # "exit") => \A s \in streams : cancelled[s]

\* A stream that somebody stopped does not say that its source ended.
StopsAreNamed ==
    [][\A s \in Stream : sent[s] = None /\ sent'[s] = "source_ended" => ~cancelled[s]]_vars

-----------------------------------------------------------------------------
(* Liveness. *)

\* A stream that is told to stop is off the map in the end, even if its source
\* never listens and even if it was told before its handle was stored.
StoppedStreamsEnd == \A s \in Stream : cancelled[s] ~> s \notin streams

\* Every command returns, whatever the sources do.
CallsReturn == \A t \in Caller : pc[t] # "idle" ~> pc[t] = "idle"
=============================================================================
