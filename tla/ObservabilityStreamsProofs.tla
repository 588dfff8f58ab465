--------------------- MODULE ObservabilityStreamsProofs ---------------------
(***************************************************************************)
(* What ObservabilityStreams promises for every set of connections,        *)
(* streams and callers and every limit.  CallerInv says where a command    *)
(* can be and which connect lock it holds there, StreamInv what is true of *)
(* a stream from its registration to the end of its task; the connect lock *)
(* is what ties the two together, since a stream is being started by at    *)
(* most one command.                                                       *)
(***************************************************************************)
EXTENDS ObservabilityStreams, FiniteSetTheorems, TLAPS

Stopping == {"collect", "signal", "wait", "abort", "abortWait"}

\* The stages of each kind of command.
Path(j) ==
    CASE j = "none" -> {"idle"}
      [] j = "start" -> {"lock", "register", "spawn", "supervise"}
      [] j = "disconnect" -> {"lock", "remove"} \cup Stopping
      [] j = "delete" -> {"lock", "deleteRow", "remove"} \cup Stopping
      [] OTHER -> Stopping

\* A command that works on a connection, past its wait for the connect lock.
Holds(t) == job[t] \in {"start", "disconnect", "delete"} /\ pc[t] # "lock"

CallerInv ==
    \A t \in Caller :
        /\ pc[t] \in Path(job[t])
        /\ job[t] \in {"start", "disconnect", "delete"} => at[t] \in Connection
        /\ Holds(t) => lock[at[t]] = t
        /\ pc[t] \notin {"signal", "abort"} => cur[t] = None

\* A command that registered a stream and has not handed it to its supervisor.
Starting(t) == pc[t] \in {"spawn", "supervise"}

StreamInv ==
    /\ \A s \in streams : of[s] \in Connection
    /\ \A s \in Stream : Live(s) => s \in streams
    /\ \A s \in Stream : handle[s] \/ worker[s] # "none" => of[s] # None
    /\ \A t \in Caller : Starting(t) => \A s \in mine[t] :
          s \in streams /\ of[s] = at[t] /\ ~handle[s]
    /\ \A t \in Caller : pc[t] = "spawn" => \A s \in mine[t] : worker[s] = "none"

\* No connection has more streams on the map than it may have.
LimitInv == \A c \in Connection : Cardinality(StreamsOf(c)) <= MaxStreams

\* Whom a command has told to stop so far.
ToldInv ==
    \A t \in Caller :
        /\ pc[t] = "signal" => \A s \in mine[t] : cancelled[s] \/ s \in todo[t]
        /\ pc[t] \in {"wait", "abort", "abortWait"} => \A s \in mine[t] : cancelled[s]
        /\ pc[t] = "remove" => \A s \in StreamsOf(at[t]) : cancelled[s]
        /\ job[t] \in {"disconnect", "delete"} /\ pc[t] \in Stopping \ {"collect"} =>
              StreamsOf(at[t]) \subseteq mine[t]

\* A connection is deleted before its streams are stopped, by the same command.
SilentInv ==
    \A c \in Connection \ rows : \A s \in StreamsOf(c) :
        \/ cancelled[s]
        \/ \E t \in Caller : job[t] = "delete" /\ at[t] = c /\ pc[t] \in Stopping

\* The exit closes the map and reads it in one step.
ExitInv ==
    closing => \A s \in streams :
        \/ cancelled[s]
        \/ \E t \in Caller : job[t] = "exit" /\ pc[t] = "signal" /\ s \in todo[t]

\* The reason is set before the cancellation that makes the task read it.
ReasonInv ==
    /\ \A s \in Stream : cancelled[s] => reason[s] # "source_ended"
    /\ \A s \in Stream : worker[s] = "stopped" => cancelled[s]
    /\ \A t \in Caller : pc[t] = "signal" /\ cur[t] # None => reason[cur[t]] # "source_ended"

\* Who asks for an abort leaves a mark that the start sees which stores the
\* handle, or sees the handle.
AbortInv ==
    /\ \A s \in Stream : force[s] /\ handle[s] =>
          aborting[s] \/ \E t \in Caller : pc[t] = "abort" /\ cur[t] = s
    /\ \A t \in Caller :
          /\ pc[t] = "abort" => \A s \in mine[t] : done[s] \/ force[s] \/ (s \in todo[t] /\ s # cur[t])
          /\ pc[t] = "abortWait" => \A s \in mine[t] : done[s] \/ force[s]

-----------------------------------------------------------------------------
(* Types. *)

LEMMA InitInv == Init => TypeOK /\ CallerInv /\ StreamInv /\ LimitInv
                         /\ ToldInv /\ SilentInv /\ ExitInv /\ ReasonInv /\ AbortInv
<1> SUFFICES ASSUME Init
             PROVE  TypeOK /\ CallerInv /\ StreamInv /\ LimitInv
                    /\ ToldInv /\ SilentInv /\ ExitInv /\ ReasonInv /\ AbortInv
  OBVIOUS
<1>1. TypeOK
  BY DEF Init, TypeOK, Stage, Job, Worker, Reason
<1>2. CallerInv
  BY DEF Init, CallerInv, Path, Holds
<1>3. StreamInv
  BY DEF Init, StreamInv, Live, Starting
<1>4. LimitInv
  <2>1. ASSUME NEW c \in Connection
        PROVE  StreamsOf(c) = {}
    BY DEF Init, StreamsOf
  <2> QED
    BY <2>1, FS_EmptySet, StreamsAssumption DEF LimitInv
<1>5. ToldInv /\ SilentInv /\ ExitInv /\ ReasonInv /\ AbortInv
  BY DEF Init, ToldInv, SilentInv, ExitInv, ReasonInv, AbortInv, Stopping, StreamsOf
<1> QED
  BY <1>1, <1>2, <1>3, <1>4, <1>5

\* A command on a connection begins with its connect lock, the others with
\* the streams that they stop.
LEMMA CallKinds ==
    ASSUME NEW t \in Caller, Calls(t)
    PROVE  \E j \in Job, stage \in {"lock", "collect"}, c \in Connection \cup {None}, ss \in SUBSET Stream :
              /\ Call(t, j, stage, c, ss)
              /\ stage \in Path(j)
              /\ j \in {"start", "disconnect", "delete"} => c \in Connection /\ stage = "lock"
<1>1. {} \in SUBSET Stream /\ "start" \in Job /\ "disconnect" \in Job /\ "delete" \in Job
      /\ "stop" \in Job /\ "exit" \in Job
  BY DEF Job
<1>2. /\ "lock" \in Path("start") /\ "lock" \in Path("disconnect") /\ "lock" \in Path("delete")
      /\ "collect" \in Path("stop") /\ "collect" \in Path("exit")
  BY DEF Path, Stopping
<1>3. CASE \E c \in Connection : CallStart(t, c)
  BY <1>1, <1>2, <1>3 DEF CallStart
<1>4. CASE \E c \in Connection : CallDisconnect(t, c)
  BY <1>1, <1>2, <1>4 DEF CallDisconnect
<1>5. CASE \E c \in Connection : CallDelete(t, c)
  BY <1>1, <1>2, <1>5 DEF CallDelete
<1>6. CASE \E s \in Stream : CallStop(t, s)
  <2>1. PICK s \in Stream : CallStop(t, s)
    BY <1>6
  <2>2. {s} \in SUBSET Stream
    OBVIOUS
  <2> QED
    BY <1>1, <1>2, <2>1, <2>2 DEF CallStop
<1>7. CASE CallExit(t)
  BY <1>1, <1>2, <1>7 DEF CallExit
<1> QED
  BY <1>3, <1>4, <1>5, <1>6, <1>7 DEF Calls

\* What a command leaves behind that returns.
LEMMA ReturnTypes ==
    ASSUME TypeOK, NEW t \in Caller, Return(t)
    PROVE  /\ pc' \in [Caller -> Stage] /\ job' \in [Caller -> Job]
           /\ at' \in [Caller -> Connection \cup {None}]
           /\ mine' \in [Caller -> SUBSET Stream] /\ todo' \in [Caller -> SUBSET Stream]
           /\ cur' \in [Caller -> Stream \cup {None}]
           /\ lock' \in [Connection -> Caller \cup {None}]
BY DEF Return, Goto, TypeOK, Stage, Job

\* The end of a command's stops: it returns, or goes on to the pool.
LEMMA StoppedEither ==
    ASSUME NEW t \in Caller, Stopped(t)
    PROVE  \/ Return(t)
           \/ /\ job[t] \in {"disconnect", "delete"}
              /\ pc' = [pc EXCEPT ![t] = "remove"]
              /\ UNCHANGED <<lock, job, at, mine, todo, cur>>
BY DEF Stopped, Goto

LEMMA NextTypeOK ==
    ASSUME TypeOK, [Next]_vars
    PROVE  TypeOK'
<1> USE DEF stream, caller
<1>1. ASSUME NEW t \in Caller, NEW j \in Job, NEW stage \in Stage,
             NEW c \in Connection \cup {None}, NEW ss \in SUBSET Stream, Call(t, j, stage, c, ss)
      PROVE  TypeOK'
  BY <1>1 DEF Call, Goto, TypeOK
<1>2. ASSUME NEW t \in Caller, Calls(t)
      PROVE  TypeOK'
  BY <1>1, <1>2, CallKinds DEF Stage
<1>3. ASSUME NEW t \in Caller, Return(t), UNCHANGED <<rows, closing, stream>>
      PROVE  TypeOK'
  BY <1>3, ReturnTypes DEF TypeOK
<1>4. ASSUME NEW t \in Caller, Stopped(t), UNCHANGED <<rows, closing, stream>>
      PROVE  TypeOK'
  <2>1. CASE Return(t)
    BY <1>3, <1>4, <2>1
  <2>2. CASE pc' = [pc EXCEPT ![t] = "remove"] /\ UNCHANGED <<lock, job, at, mine, todo, cur>>
    BY <1>4, <2>2 DEF TypeOK, Stage
  <2> QED
    BY <1>4, <2>1, <2>2, StoppedEither
<1>5. ASSUME NEW t \in Caller, Lock(t)
      PROVE  TypeOK'
  <2>1. AfterLock(t) \in Stage
    BY DEF AfterLock, Stage
  <2>2. lock' \in [Connection -> Caller \cup {None}]
    BY <1>5 DEF Lock, TypeOK
  <2> QED
    BY <1>5, <2>1, <2>2 DEF Lock, Goto, TypeOK
<1>6. ASSUME NEW t \in Caller, NEW s \in Stream, Register(t, s)
      PROVE  TypeOK'
  BY <1>6 DEF Register, Goto, TypeOK, Stage
<1>7. ASSUME NEW t \in Caller, Spawn(t)
      PROVE  TypeOK'
  BY <1>7 DEF Spawn, Goto, TypeOK, Stage, Worker
<1>8. ASSUME NEW t \in Caller, Supervise(t)
      PROVE  TypeOK'
  <2>1. handle' \in [Stream -> BOOLEAN] /\ aborting' \in [Stream -> BOOLEAN]
    BY <1>8 DEF Supervise, TypeOK
  <2> QED
    BY <1>8, <2>1, ReturnTypes DEF Supervise, TypeOK
<1>9. ASSUME NEW t \in Caller, DeleteRow(t)
      PROVE  TypeOK'
  <2>1. CASE Return(t)
    BY <1>9, <2>1, ReturnTypes DEF DeleteRow, TypeOK
  <2>2. CASE ~Return(t)
    BY <1>9, <2>2 DEF DeleteRow, Goto, TypeOK, Stage
  <2> QED
    BY <2>1, <2>2
<1>10. ASSUME NEW t \in Caller, Collect(t)
       PROVE  TypeOK'
  <2>1. closing' \in BOOLEAN
    BY <1>10 DEF Collect
  <2>2. CASE Targets(t) = {}
    <3>1. CASE Return(t)
      BY <1>10, <2>1, <3>1, ReturnTypes DEF Collect, TypeOK
    <3>2. CASE pc' = [pc EXCEPT ![t] = "remove"] /\ UNCHANGED <<lock, job, at, mine, todo, cur>>
      BY <1>10, <2>1, <3>2 DEF Collect, TypeOK, Stage
    <3> QED
      BY <1>10, <2>2, <3>1, <3>2, StoppedEither DEF Collect
  <2>3. CASE Targets(t) # {}
    <3>1. Targets(t) \in SUBSET Stream
      BY DEF Targets, StreamsOf, TypeOK
    <3> QED
      BY <1>10, <2>1, <2>3, <3>1 DEF Collect, Goto, TypeOK, Stage
  <2> QED
    BY <2>2, <2>3
<1>11. ASSUME NEW t \in Caller, NEW s \in Stream, SetReason(t, s)
       PROVE  TypeOK'
  BY <1>11 DEF SetReason, StopReason, TypeOK, Reason
<1>12. ASSUME NEW t \in Caller, NEW s \in Stream, SetForce(t, s)
       PROVE  TypeOK'
  BY <1>12 DEF SetForce, TypeOK
<1>13. ASSUME NEW t \in Caller, Cancel(t)
       PROVE  TypeOK'
  <2>1. pc' \in [Caller -> Stage]
    BY <1>13 DEF Cancel, Next1, Goto, TypeOK, Stage
  <2> QED
    BY <1>13, <2>1 DEF Cancel, Next1, TypeOK
<1>14. ASSUME NEW t \in Caller, CooperativeTimeout(t)
       PROVE  TypeOK'
  BY <1>14 DEF CooperativeTimeout, Goto, TypeOK, Stage
<1>15. ASSUME NEW t \in Caller, AbortHandle(t)
       PROVE  TypeOK'
  <2>1. pc' \in [Caller -> Stage]
    BY <1>15 DEF AbortHandle, Next1, Goto, TypeOK, Stage
  <2>2. cur[t] \in Stream
    BY <1>15 DEF AbortHandle, TypeOK
  <2>3. aborting' \in [Stream -> BOOLEAN]
    BY <1>15, <2>2 DEF AbortHandle, TypeOK
  <2> QED
    BY <1>15, <2>1, <2>3 DEF AbortHandle, Next1, TypeOK
<1>16. ASSUME NEW t \in Caller, StartFails(t) \/ Waited(t) \/ AbortTimeout(t) \/ Remove(t)
       PROVE  TypeOK'
  BY <1>3, <1>4, <1>16 DEF StartFails, Waited, AbortTimeout, Remove
<1>17. ASSUME NEW s \in Stream, SourceEnds(s) \/ Panics(s) \/ Wind(s)
       PROVE  TypeOK'
  <2> USE DEF taskless
  <2>1. CASE SourceEnds(s) \/ Panics(s) \/ Aborted(s)
    BY <2>1 DEF SourceEnds, Panics, Aborted, To, TypeOK, Worker
  <2>2. CASE ReadCancelled(s)
    BY <2>2 DEF ReadCancelled, To, TypeOK, Worker, Reason
  <2>3. CASE ReadReason(s)
    BY <2>3 DEF ReadReason, To, TypeOK, Worker
  <2>4. CASE Finish(s)
    BY <2>4 DEF Finish, TypeOK
  <2> QED
    BY <1>17, <2>1, <2>2, <2>3, <2>4 DEF Wind
<1>18. CASE UNCHANGED vars
  BY <1>18 DEF vars, TypeOK
<1> QED
  BY <1>2, <1>5, <1>6, <1>7, <1>8, <1>9, <1>10, <1>11, <1>12, <1>13, <1>14, <1>15, <1>16,
     <1>17, <1>18 DEF Next, Continue

-----------------------------------------------------------------------------
(* Commands and their locks. *)

\* What a step of one command leaves as it is of the others.
OthersStay(t) ==
    /\ \A u \in Caller \ {t} :
          /\ pc'[u] = pc[u] /\ job'[u] = job[u] /\ at'[u] = at[u]
          /\ mine'[u] = mine[u] /\ todo'[u] = todo[u] /\ cur'[u] = cur[u]
    /\ \A c \in Connection : lock[c] \notin {t, None} => lock'[c] = lock[c]

LEMMA ReturnsAlone ==
    ASSUME TypeOK, NEW t \in Caller, Return(t)
    PROVE  /\ OthersStay(t)
           /\ pc'[t] = "idle" /\ job'[t] = "none" /\ at'[t] = None
           /\ mine'[t] = {} /\ todo'[t] = {} /\ cur'[t] = None
<1> DEFINE unlock == [c \in Connection |-> IF lock[c] = t THEN None ELSE lock[c]]
<1>1. lock' = unlock
  BY DEF Return
<1>2. \A c \in Connection : lock[c] # t => lock'[c] = lock[c]
  BY <1>1
<1> QED
  BY <1>2 DEF Return, Goto, OthersStay, TypeOK

LEMMA CallerSteps ==
    ASSUME TypeOK, NEW t \in Caller, Calls(t) \/ Lock(t) \/ Continue(t)
    PROVE  OthersStay(t)
<1> USE DEF stream, caller
<1>1. ASSUME NEW j, NEW stage, NEW c, NEW ss, Call(t, j, stage, c, ss)
      PROVE  OthersStay(t)
  BY <1>1 DEF Call, Goto, OthersStay, TypeOK
<1>2. CASE Calls(t)
  BY <1>1, <1>2, CallKinds
<1>3. ASSUME Stopped(t)
      PROVE  OthersStay(t)
  <2>1. CASE Return(t)
    BY <2>1, ReturnsAlone
  <2>2. CASE ~Return(t)
    BY <1>3, <2>2, StoppedEither DEF OthersStay, TypeOK
  <2> QED
    BY <2>1, <2>2
<1>4. CASE Lock(t)
  BY <1>4 DEF Lock, Goto, OthersStay, TypeOK
<1>5. CASE \E s \in Stream : Register(t, s) \/ SetReason(t, s) \/ SetForce(t, s)
  BY <1>5 DEF Register, SetReason, SetForce, Goto, OthersStay, TypeOK
<1>6. CASE Spawn(t) \/ Cancel(t) \/ CooperativeTimeout(t) \/ AbortHandle(t)
  BY <1>6 DEF Spawn, Cancel, CooperativeTimeout, AbortHandle, Next1, Goto, OthersStay, TypeOK
<1>7. CASE StartFails(t) \/ Supervise(t) \/ Remove(t)
  BY <1>7, ReturnsAlone DEF StartFails, Supervise, Remove
<1>8. CASE DeleteRow(t)
  <2>1. CASE Return(t)
    BY <2>1, ReturnsAlone
  <2>2. CASE ~Return(t)
    BY <1>8, <2>2 DEF DeleteRow, Goto, OthersStay, TypeOK
  <2> QED
    BY <2>1, <2>2
<1>9. CASE Collect(t)
  <2>1. CASE Targets(t) = {}
    BY <1>3, <1>9, <2>1 DEF Collect
  <2>2. CASE Targets(t) # {}
    BY <1>9, <2>2 DEF Collect, Goto, OthersStay, TypeOK
  <2> QED
    BY <2>1, <2>2
<1>10. CASE Waited(t) \/ AbortTimeout(t)
  BY <1>3, <1>10 DEF Waited, AbortTimeout
<1> QED
  BY <1>2, <1>4, <1>5, <1>6, <1>7, <1>8, <1>9, <1>10 DEF Continue

LEMMA NextCallerInv ==
    ASSUME TypeOK, CallerInv, [Next]_vars
    PROVE  CallerInv'
<1> USE DEF stream, caller
<1> DEFINE Fine(u) ==
        /\ pc[u] \in Path(job[u])
        /\ job[u] \in {"start", "disconnect", "delete"} => at[u] \in Connection
        /\ Holds(u) => lock[at[u]] = u
        /\ pc[u] \notin {"signal", "abort"} => cur[u] = None
<1>1. ASSUME NEW t \in Caller, OthersStay(t), (Fine(t))'
      PROVE  CallerInv'
  <2> SUFFICES ASSUME NEW u \in Caller \ {t}
               PROVE  (Fine(u))'
    BY <1>1 DEF CallerInv
  <2>1. Fine(u)
    BY DEF CallerInv
  <2>2. Holds(u) => lock'[at[u]] = u
    BY <1>1, <2>1, StreamsAssumption DEF OthersStay, Holds
  <2> QED
    BY <1>1, <2>1, <2>2 DEF OthersStay, Holds
<1>2. ASSUME NEW t \in Caller, Calls(t)
      PROVE  CallerInv'
  <2>1. PICK j \in Job, stage \in {"lock", "collect"}, c \in Connection \cup {None}, ss \in SUBSET Stream :
            /\ Call(t, j, stage, c, ss)
            /\ stage \in Path(j)
            /\ j \in {"start", "disconnect", "delete"} => c \in Connection /\ stage = "lock"
    BY <1>2, CallKinds
  <2>2. cur[t] = None
    BY <2>1 DEF Call, CallerInv
  <2>3. pc'[t] = stage /\ job'[t] = j /\ at'[t] = c /\ cur'[t] = None
    BY <2>1, <2>2 DEF Call, Goto, TypeOK
  <2>4. (Fine(t))'
    BY <2>1, <2>3 DEF Holds
  <2> QED
    BY <1>1, <1>2, <2>4, CallerSteps
<1>3. ASSUME NEW t \in Caller, Lock(t)
      PROVE  CallerInv'
  <2>1. job[t] \in {"start", "disconnect", "delete"} /\ at[t] \in Connection /\ cur[t] = None
    BY <1>3 DEF Lock, CallerInv, Path, Stopping, TypeOK, Job
  <2>2. AfterLock(t) \in Path(job[t]) /\ AfterLock(t) \notin {"signal", "abort"}
    BY <2>1 DEF AfterLock, Path, Stopping
  <2>3. pc'[t] = AfterLock(t) /\ lock'[at[t]] = t /\ job' = job /\ at' = at /\ cur' = cur
    BY <1>3, <2>1 DEF Lock, Goto, TypeOK
  <2>4. (Fine(t))'
    BY <2>1, <2>2, <2>3
  <2> QED
    BY <1>1, <1>3, <2>4, CallerSteps
<1>4. ASSUME NEW t \in Caller, Return(t)
      PROVE  CallerInv'
  <2>1. (Fine(t))'
    BY <1>4, ReturnsAlone DEF Path, Holds
  <2> QED
    BY <1>1, <1>4, <2>1, ReturnsAlone
\* A command that moves on keeps its connection and its lock.
<1>5. ASSUME NEW t \in Caller, Continue(t), UNCHANGED <<job, at, lock>>, pc[t] # "lock",
             pc'[t] \in Path(job[t]), pc'[t] \notin {"signal", "abort"} => cur'[t] = None
      PROVE  CallerInv'
  <2>1. (Fine(t))'
    BY <1>5 DEF Holds, CallerInv
  <2> QED
    BY <1>1, <1>5, <2>1, CallerSteps
<1>6. ASSUME NEW t \in Caller, Stopped(t), Continue(t), pc[t] \in Stopping \ {"signal", "abort"}
      PROVE  CallerInv'
  <2>1. CASE Return(t)
    BY <1>4, <2>1
  <2>2. CASE ~Return(t)
    <3>1. /\ pc'[t] = "remove" /\ cur'[t] = None /\ UNCHANGED <<job, at, lock>>
          /\ job[t] \in {"disconnect", "delete"}
      BY <1>6, <2>2, StoppedEither DEF TypeOK, CallerInv, Stopping
    <3>2. "remove" \in Path(job[t])
      BY <3>1 DEF Path
    <3> QED
      BY <1>5, <1>6, <3>1, <3>2 DEF Stopping
  <2> QED
    BY <2>1, <2>2
\* The stages of the stops lead to one another.
<1>7. ASSUME NEW t \in Caller, pc[t] \in Stopping
      PROVE  Stopping \subseteq Path(job[t])
  BY <1>7 DEF CallerInv, Path, Stopping, TypeOK, Job
<1>8. ASSUME NEW t \in Caller, Continue(t)
      PROVE  CallerInv'
  <2>1. CASE StartFails(t) \/ Supervise(t) \/ Remove(t)
    BY <1>4, <2>1 DEF StartFails, Supervise, Remove
  <2>2. CASE Spawn(t) \/ \E s \in Stream : Register(t, s)
    <3>1. pc[t] \in {"register", "spawn"} /\ pc'[t] \in {"spawn", "supervise"}
          /\ UNCHANGED <<job, at, lock, cur>>
      BY <2>2 DEF Spawn, Register, Goto, TypeOK
    <3>2. job[t] = "start" /\ cur[t] = None
      BY <3>1 DEF CallerInv, Path, Stopping, TypeOK, Job
    <3>3. pc'[t] \in Path(job[t])
      BY <3>1, <3>2 DEF Path
    <3> QED
      BY <1>5, <1>8, <3>1, <3>2, <3>3
  <2>3. CASE DeleteRow(t)
    <3>1. CASE Return(t)
      BY <1>4, <3>1
    <3>2. CASE ~Return(t)
      <4>1. pc[t] = "deleteRow" /\ pc'[t] = "collect" /\ UNCHANGED <<job, at, lock, cur>>
        BY <2>3, <3>2 DEF DeleteRow, Goto, TypeOK
      <4>2. job[t] = "delete" /\ cur[t] = None
        BY <4>1 DEF CallerInv, Path, Stopping, TypeOK, Job
      <4>3. pc'[t] \in Path(job[t])
        BY <4>1, <4>2 DEF Path, Stopping
      <4> QED
        BY <1>5, <1>8, <4>1, <4>2, <4>3
    <3> QED
      BY <3>1, <3>2
  <2>4. CASE Collect(t)
    <3>1. CASE Targets(t) = {}
      BY <1>6, <1>8, <2>4, <3>1 DEF Collect, Stopping
    <3>2. CASE Targets(t) # {}
      <4>1. pc[t] = "collect" /\ pc'[t] = "signal" /\ UNCHANGED <<job, at, lock, cur>>
        BY <2>4, <3>2 DEF Collect, Goto, TypeOK
      <4> QED
        BY <1>5, <1>7, <1>8, <4>1 DEF Stopping
    <3> QED
      BY <3>1, <3>2
  <2>5. CASE \E s \in Stream : SetReason(t, s) \/ SetForce(t, s)
    <3>1. pc[t] \in {"signal", "abort"} /\ UNCHANGED <<pc, job, at, lock>>
      BY <2>5 DEF SetReason, SetForce
    <3> QED
      BY <1>5, <1>7, <1>8, <3>1 DEF Stopping
  <2>6. CASE Cancel(t) \/ AbortHandle(t)
    <3>1. /\ pc[t] \in {"signal", "abort"} /\ pc'[t] \in {pc[t], "wait", "abortWait"}
          /\ UNCHANGED <<job, at, lock>> /\ cur'[t] = None
      BY <2>6 DEF Cancel, AbortHandle, Next1, Goto, TypeOK
    <3> QED
      BY <1>5, <1>7, <1>8, <3>1 DEF Stopping
  <2>7. CASE CooperativeTimeout(t)
    <3>1. pc[t] = "wait" /\ pc'[t] = "abort" /\ UNCHANGED <<job, at, lock>>
      BY <2>7 DEF CooperativeTimeout, Goto, TypeOK
    <3> QED
      BY <1>5, <1>7, <1>8, <3>1 DEF Stopping
  <2>8. CASE Waited(t) \/ AbortTimeout(t)
    BY <1>6, <1>8, <2>8 DEF Waited, AbortTimeout, Stopping
  <2> QED
    BY <1>8, <2>1, <2>2, <2>3, <2>4, <2>5, <2>6, <2>7, <2>8 DEF Continue
<1>9. CASE UNCHANGED <<lock, caller>>
  BY <1>9 DEF CallerInv, Holds
<1>10. ASSUME NEW s \in Stream, SourceEnds(s) \/ Panics(s) \/ Wind(s)
       PROVE  UNCHANGED <<lock, caller>>
  BY <1>10 DEF SourceEnds, Panics, Wind, ReadCancelled, ReadReason, Aborted, Finish, taskless
<1> QED
  BY <1>2, <1>3, <1>8, <1>9, <1>10 DEF Next, vars

-----------------------------------------------------------------------------
(* Streams and their limit. *)

LEMMA OneStarter ==
    ASSUME CallerInv, NEW t \in Caller, NEW u \in Caller, Holds(t), Holds(u), at[t] = at[u]
    PROVE  t = u
BY DEF CallerInv

LEMMA StartingHolds ==
    ASSUME TypeOK, CallerInv, NEW t \in Caller, pc[t] \in {"register", "spawn", "supervise"}
    PROVE  job[t] = "start" /\ Holds(t) /\ at[t] \in Connection
BY DEF CallerInv, Path, Stopping, Holds, TypeOK, Job

\* What the commands that stop a stream do to a starting one: nothing.
LEMMA StoppingSteps ==
    ASSUME TypeOK, NEW t \in Caller, pc[t] \notin {"register", "spawn", "supervise"},
           Calls(t) \/ Lock(t) \/ Continue(t)
    PROVE  UNCHANGED <<streams, of, handle, worker>> /\ ~Starting(t)'
<1> USE DEF stream, caller
<1>1. CASE Calls(t)
  BY <1>1, CallKinds DEF Call, Goto, Starting, TypeOK
<1>2. CASE Lock(t)
  BY <1>2 DEF Lock, AfterLock, Goto, Starting, TypeOK
<1>3. ASSUME Stopped(t)
      PROVE  ~Starting(t)'
  BY <1>3, StoppedEither, ReturnsAlone DEF Starting, TypeOK
<1>4. CASE DeleteRow(t)
  BY <1>4, ReturnsAlone DEF DeleteRow, Goto, Starting, TypeOK
<1>5. CASE Collect(t)
  BY <1>3, <1>5 DEF Collect, Goto, Starting, TypeOK
<1>6. CASE \E s \in Stream : SetReason(t, s) \/ SetForce(t, s)
  BY <1>6 DEF SetReason, SetForce, Starting
<1>7. CASE Cancel(t) \/ AbortHandle(t) \/ CooperativeTimeout(t)
  BY <1>7 DEF Cancel, AbortHandle, CooperativeTimeout, Next1, Goto, Starting, TypeOK
<1>8. CASE Waited(t) \/ AbortTimeout(t) \/ Remove(t)
  BY <1>3, <1>8, ReturnsAlone DEF Waited, AbortTimeout, Remove, Starting
<1> QED
  BY <1>1, <1>2, <1>4, <1>5, <1>6, <1>7, <1>8
  DEF Continue, StartFails, Spawn, Supervise, Register

LEMMA NextStreamInv ==
    ASSUME TypeOK, CallerInv, StreamInv, [Next]_vars
    PROVE  StreamInv'
<1> USE StreamsAssumption DEF stream, caller
<1>1. ASSUME NEW t \in Caller, OthersStay(t), UNCHANGED <<streams, of, handle, worker>>, ~Starting(t)'
      PROVE  StreamInv'
  BY <1>1 DEF StreamInv, OthersStay, Starting, Live
<1>2. ASSUME NEW t \in Caller, Calls(t) \/ Lock(t) \/ Continue(t),
             pc[t] \notin {"register", "spawn", "supervise"}
      PROVE  StreamInv'
  BY <1>1, <1>2, StoppingSteps, CallerSteps
<1>3. ASSUME NEW t \in Caller, StartFails(t)
      PROVE  StreamInv'
  BY <1>1, <1>3, ReturnsAlone DEF StartFails, Starting
\* The new stream is nobody else's.
<1>4. ASSUME NEW t \in Caller, NEW s \in Stream, Register(t, s)
      PROVE  StreamInv'
  <2>1. at[t] \in Connection
    BY <1>4, StartingHolds DEF Register
  <2>2. ~handle[s] /\ worker[s] = "none" /\ s \notin streams
    BY <1>4 DEF Register, StreamInv
  <2>3. /\ of'[s] = at[t] /\ \A r \in Stream \ {s} : of'[r] = of[r]
        /\ streams' = streams \cup {s} /\ UNCHANGED <<handle, worker, at>>
        /\ mine'[t] = {s} /\ pc'[t] = "spawn"
    BY <1>4 DEF Register, Goto, TypeOK
  <2>4. OthersStay(t)
    BY <1>4, CallerSteps DEF Continue
  <2>5. (\A r \in streams : of[r] \in Connection)'
    BY <2>1, <2>3 DEF StreamInv, TypeOK
  <2>6. (\A r \in Stream : Live(r) => r \in streams)'
    BY <2>3 DEF StreamInv, Live
  <2>7. (\A r \in Stream : handle[r] \/ worker[r] # "none" => of[r] # None)'
    BY <2>2, <2>3 DEF StreamInv
  <2>8. ASSUME NEW u \in Caller, Starting(u)', NEW r \in mine'[u]
        PROVE  /\ r \in streams' /\ of'[r] = at'[u] /\ ~handle'[r]
               /\ pc'[u] = "spawn" => worker'[r] = "none"
    <3>1. CASE u = t
      BY <2>2, <2>3, <2>8, <3>1
    <3>2. CASE u # t
      <4>1. Starting(u) /\ r \in mine[u] /\ at'[u] = at[u] /\ pc'[u] = pc[u] /\ r \in Stream
        BY <2>4, <2>8, <3>2 DEF OthersStay, Starting, TypeOK
      <4>2. r \in streams /\ of[r] = at[u] /\ ~handle[r] /\ (pc[u] = "spawn" => worker[r] = "none")
        BY <4>1 DEF StreamInv
      <4>3. r # s
        BY <2>2, <4>2
      <4> QED
        BY <2>3, <4>1, <4>2, <4>3
    <3> QED
      BY <3>1, <3>2
  <2> QED
    BY <2>5, <2>6, <2>7, <2>8 DEF StreamInv, Starting
\* Two commands that start a stream start different ones.
<1>5. ASSUME NEW t \in Caller, NEW u \in Caller, u # t, Starting(t), Starting(u)
      PROVE  mine[t] \cap mine[u] = {}
  <2>1. at[t] # at[u]
    BY <1>5, OneStarter, StartingHolds DEF Starting
  <2> QED
    BY <1>5, <2>1 DEF StreamInv
<1>6. ASSUME NEW t \in Caller, Spawn(t)
      PROVE  StreamInv'
  <2>1. /\ worker' = [s \in Stream |-> IF s \in mine[t] THEN "running" ELSE worker[s]]
        /\ UNCHANGED <<streams, of, handle, at, mine>> /\ pc'[t] = "supervise"
    BY <1>6 DEF Spawn, Goto, TypeOK
  <2>2. OthersStay(t) /\ Starting(t)
    BY <1>6, CallerSteps DEF Continue, Spawn, Starting
  <2>3. \A s \in mine[t] : s \in streams /\ of[s] # None
    BY <2>2 DEF StreamInv
  <2>4. (\A s \in Stream : Live(s) => s \in streams)'
    BY <2>1, <2>3 DEF StreamInv, Live
  <2>5. (\A s \in Stream : handle[s] \/ worker[s] # "none" => of[s] # None)'
    BY <2>1, <2>3 DEF StreamInv
  <2>6. ASSUME NEW u \in Caller, Starting(u)', NEW s \in mine[u]
        PROVE  /\ s \in streams /\ of[s] = at[u] /\ ~handle[s]
               /\ pc'[u] = "spawn" => worker'[s] = "none"
    <3>1. Starting(u) /\ s \in Stream
      BY <2>2, <2>6 DEF OthersStay, Starting, TypeOK
    <3>2. CASE u = t
      BY <2>1, <3>1, <3>2 DEF StreamInv
    <3>3. CASE u # t
      <4>1. s \notin mine[t] /\ pc'[u] = pc[u]
        BY <1>5, <2>2, <3>1, <3>3 DEF OthersStay
      <4> QED
        BY <2>1, <3>1, <4>1 DEF StreamInv
    <3> QED
      BY <3>2, <3>3
  <2> QED
    BY <2>1, <2>4, <2>5, <2>6 DEF StreamInv, Starting, Live
<1>7. ASSUME NEW t \in Caller, Supervise(t)
      PROVE  StreamInv'
  <2>1. /\ handle' = [s \in Stream |-> s \in mine[t] \/ handle[s]]
        /\ UNCHANGED <<streams, of, worker>> /\ ~Starting(t)'
    BY <1>7, ReturnsAlone DEF Supervise, Starting
  <2>2. OthersStay(t) /\ Starting(t)
    BY <1>7, CallerSteps DEF Continue, Supervise, Starting
  <2>3. \A s \in mine[t] : of[s] # None
    BY <2>2 DEF StreamInv
  <2>4. ASSUME NEW s \in Stream, handle'[s]
        PROVE  s \in mine[t] \/ handle[s]
    BY <2>1, <2>4
  <2>5. ASSUME NEW s \in Stream, handle'[s] \/ worker'[s] # "none"
        PROVE  of'[s] # None
    BY <2>1, <2>3, <2>4, <2>5 DEF StreamInv
  <2>6. ASSUME NEW u \in Caller, Starting(u)', NEW s \in mine'[u]
        PROVE  /\ s \in streams /\ of[s] = at'[u] /\ ~handle'[s]
               /\ pc'[u] = "spawn" => worker[s] = "none"
    <3>1. u # t /\ Starting(u) /\ s \in Stream /\ s \in mine[u] /\ at'[u] = at[u] /\ pc'[u] = pc[u]
      BY <2>1, <2>2, <2>6 DEF OthersStay, Starting, TypeOK
    <3>2. s \notin mine[t]
      BY <1>5, <2>2, <3>1
    <3>3. ~handle'[s]
      BY <2>4, <3>1, <3>2 DEF StreamInv
    <3> QED
      BY <3>1, <3>3 DEF StreamInv
  <2> QED
    BY <2>1, <2>5, <2>6 DEF StreamInv, Live, Starting
<1>8. ASSUME NEW s \in Stream, SourceEnds(s) \/ Panics(s) \/ Wind(s)
      PROVE  StreamInv'
  <2> USE DEF taskless
  <2>1. ASSUME worker[s] # "none",
               UNCHANGED <<streams, of, handle, caller>>,
               \E w \in {"over", "stopped", "ended"} : To(s, w) /\ (w # "ended" => Live(s))
        PROVE  StreamInv'
    <3>1. \A r \in Stream : worker'[r] # "none" => worker[r] # "none"
      BY <2>1 DEF To, TypeOK
    <3>2. \A r \in Stream : r # s => worker'[r] = worker[r]
      BY <2>1 DEF To, TypeOK
    <3>3. s \in streams \/ ~Live(s)'
      <4>1. CASE Live(s)
        BY <4>1 DEF StreamInv
      <4>2. CASE ~Live(s)
        BY <2>1, <4>2 DEF To, Live, TypeOK
      <4> QED
        BY <4>1, <4>2
    <3>4. (\A r \in Stream : Live(r) => r \in streams)'
      BY <2>1, <3>2, <3>3 DEF StreamInv, Live
    <3>5. \A r \in Stream : worker[r] = "none" => worker'[r] = "none"
      BY <2>1, <3>2
    <3> QED
      BY <2>1, <3>1, <3>4, <3>5 DEF StreamInv, Starting, TypeOK
  <2>2. CASE SourceEnds(s) \/ Panics(s) \/ Aborted(s)
    BY <2>1, <2>2 DEF SourceEnds, Panics, Aborted, Live, Worker, To
  <2>3. CASE ReadCancelled(s)
    BY <2>1, <2>3 DEF ReadCancelled, Live, Worker, To
  <2>4. CASE ReadReason(s)
    BY <2>1, <2>4 DEF ReadReason, Live, Worker, To
  <2>5. CASE Finish(s)
    BY <2>5 DEF Finish, StreamInv, Starting, Live
  <2> QED
    BY <1>8, <2>2, <2>3, <2>4, <2>5 DEF Wind
<1>9. CASE UNCHANGED vars
  BY <1>9 DEF vars, StreamInv, Starting, Live
<1> QED
  BY <1>2, <1>3, <1>4, <1>6, <1>7, <1>8, <1>9
  DEF Next, Calls, Call, CallStart, CallDisconnect, CallDelete, CallStop, CallExit, Lock, Continue,
      DeleteRow, Collect, SetReason, SetForce, Cancel, Waited, CooperativeTimeout, AbortHandle,
      AbortTimeout, Remove

\* A step but a registration adds nothing to the map, and nobody takes a
\* cancellation or a reason back.
LEMMA Onward ==
    ASSUME TypeOK, [Next]_vars
    PROVE  /\ \/ \E t \in Caller, s \in Stream : Register(t, s)
              \/ of' = of /\ streams' \subseteq streams
           /\ \A s \in Stream : cancelled[s] => cancelled'[s]
           /\ \A s \in Stream : reason[s] # "source_ended" => reason'[s] # "source_ended"
<1> USE DEF stream, caller
<1> DEFINE Plain ==
        /\ of' = of /\ streams' \subseteq streams
        /\ \A s \in Stream : cancelled[s] => cancelled'[s]
        /\ \A s \in Stream : reason[s] # "source_ended" => reason'[s] # "source_ended"
<1>1. CASE UNCHANGED vars
  BY <1>1 DEF vars
<1>2. ASSUME NEW s \in Stream, SourceEnds(s) \/ Panics(s) \/ Wind(s)
      PROVE  Plain
  BY <1>2 DEF SourceEnds, Panics, Wind, ReadCancelled, ReadReason, Aborted, Finish, taskless
<1>3. ASSUME NEW t \in Caller, Calls(t) \/ Lock(t)
      PROVE  Plain
  BY <1>3, CallKinds DEF Call, Lock
<1>4. ASSUME NEW t \in Caller, NEW s \in Stream, SetReason(t, s) \/ SetForce(t, s)
      PROVE  Plain
  BY <1>4 DEF SetReason, SetForce, TypeOK
<1>5. ASSUME NEW t \in Caller, NEW s \in Stream, Register(t, s)
      PROVE  UNCHANGED <<cancelled, reason>>
  BY <1>5 DEF Register
<1>6. ASSUME NEW t \in Caller, Cancel(t)
      PROVE  Plain
  BY <1>6 DEF Cancel, TypeOK
<1>7. ASSUME NEW t \in Caller, StartFails(t) \/ Spawn(t) \/ Supervise(t) \/ DeleteRow(t)
                               \/ Collect(t) \/ Waited(t) \/ CooperativeTimeout(t)
                               \/ AbortHandle(t) \/ AbortTimeout(t) \/ Remove(t)
      PROVE  Plain
  BY <1>7 DEF StartFails, Spawn, Supervise, DeleteRow, Collect, Waited, CooperativeTimeout,
     AbortHandle, AbortTimeout, Remove
<1> QED
  BY <1>1, <1>2, <1>3, <1>4, <1>5, <1>6, <1>7 DEF Next, Continue

\* So the streams of a connection grow by a registration of its own only.
LEMMA StreamsShrink ==
    ASSUME TypeOK, StreamInv, [Next]_vars, NEW c \in Connection,
           \A t \in Caller, s \in Stream : Register(t, s) => at[t] # c
    PROVE  (StreamsOf(c))' \subseteq StreamsOf(c)
<1>1. CASE \E t \in Caller, s \in Stream : Register(t, s)
  <2>1. PICK t \in Caller, s \in Stream : Register(t, s)
    BY <1>1
  <2>2. /\ at[t] # c /\ streams' = streams \cup {s} /\ of'[s] = at[t]
        /\ \A r \in Stream \ {s} : of'[r] = of[r]
    BY <2>1 DEF Register, TypeOK
  <2> QED
    BY <2>2 DEF StreamsOf, TypeOK
<1>2. CASE of' = of /\ streams' \subseteq streams
  BY <1>2 DEF StreamsOf
<1> QED
  BY <1>1, <1>2, Onward

LEMMA FiniteStreams ==
    ASSUME TypeOK, NEW ss \in SUBSET Stream
    PROVE  IsFiniteSet(ss) /\ Cardinality(ss) \in Nat
BY FS_Subset, FS_CardinalityType, StreamsAssumption

LEMMA NextLimitInv ==
    ASSUME TypeOK, StreamInv, LimitInv, [Next]_vars, TypeOK'
    PROVE  LimitInv'
<1> SUFFICES ASSUME NEW c \in Connection
             PROVE  Cardinality((StreamsOf(c))') <= MaxStreams
  BY DEF LimitInv
<1>1. IsFiniteSet(StreamsOf(c)) /\ Cardinality(StreamsOf(c)) \in Nat
  BY FiniteStreams DEF StreamsOf, TypeOK
<1>2. CASE \E t \in Caller, s \in Stream : Register(t, s) /\ at[t] = c
  <2>1. PICK t \in Caller, s \in Stream : Register(t, s) /\ at[t] = c
    BY <1>2
  <2>2. (StreamsOf(c))' = StreamsOf(c) \cup {s}
    BY <2>1 DEF Register, StreamsOf, StreamInv, TypeOK
  <2>3. Cardinality(StreamsOf(c)) < MaxStreams
    BY <2>1 DEF Register
  <2>4. s \notin StreamsOf(c)
    BY <2>1, StreamsAssumption DEF Register, StreamsOf
  <2>5. Cardinality(StreamsOf(c) \cup {s}) = Cardinality(StreamsOf(c)) + 1
    BY <1>1, <2>4, FS_AddElement
  <2> QED
    BY <1>1, <2>2, <2>3, <2>5, StreamsAssumption
<1>3. CASE \A t \in Caller, s \in Stream : Register(t, s) => at[t] # c
  <2>1. (StreamsOf(c))' \subseteq StreamsOf(c)
    BY <1>3, StreamsShrink
  <2>2. Cardinality((StreamsOf(c))') <= Cardinality(StreamsOf(c)) /\ Cardinality((StreamsOf(c))') \in Nat
    BY <1>1, <2>1, FS_Subset, FS_CardinalityType
  <2>3. Cardinality(StreamsOf(c)) <= MaxStreams
    BY DEF LimitInv
  <2> QED
    BY <1>1, <2>2, <2>3, StreamsAssumption
<1> QED
  BY <1>2, <1>3

-----------------------------------------------------------------------------
(* Whom the stops have told. *)

\* Nobody registers a stream of a connection that another command holds.
LEMMA HeldShrinks ==
    ASSUME TypeOK, CallerInv, StreamInv, [Next]_vars, NEW u \in Caller, Holds(u), job[u] # "start"
    PROVE  (StreamsOf(at[u]))' \subseteq {s \in streams : of[s] = at[u]} \/ at'[u] # at[u]
<1> SUFFICES ASSUME at'[u] = at[u]
             PROVE  (StreamsOf(at[u]))' \subseteq {s \in streams : of[s] = at[u]}
  OBVIOUS
<1> DEFINE c == at[u]
<1>1. c \in Connection
  BY DEF CallerInv, Holds
<1>2. \A t \in Caller, s \in Stream : Register(t, s) => at[t] # c
  BY OneStarter, StartingHolds DEF Register
<1> QED
  BY <1>1, <1>2, StreamsShrink DEF StreamsOf

LEMMA RemoveHolds ==
    ASSUME TypeOK, CallerInv, NEW u \in Caller,
           pc[u] = "remove" \/ (job[u] \in {"disconnect", "delete"} /\ pc[u] \in Stopping)
    PROVE  Holds(u) /\ job[u] \in {"disconnect", "delete"} /\ at[u] \in Connection
BY DEF CallerInv, Path, Stopping, Holds, TypeOK, Job

LEMMA NextToldInv ==
    ASSUME TypeOK, CallerInv, StreamInv, ToldInv, [Next]_vars
    PROVE  ToldInv'
<1> USE DEF stream, caller
<1> DEFINE Told(u) ==
        /\ pc[u] = "signal" => \A s \in mine[u] : cancelled[s] \/ s \in todo[u]
        /\ pc[u] \in {"wait", "abort", "abortWait"} => \A s \in mine[u] : cancelled[s]
        /\ pc[u] = "remove" => \A s \in StreamsOf(at[u]) : cancelled[s]
        /\ job[u] \in {"disconnect", "delete"} /\ pc[u] \in Stopping \ {"collect"} =>
              StreamsOf(at[u]) \subseteq mine[u]
\* A command that does nothing is none the worse for what the others do.
<1>1. ASSUME NEW u \in Caller, UNCHANGED <<pc[u], job[u], at[u], mine[u], todo[u]>>
      PROVE  Told(u)'
  <2>1. Told(u)
    BY DEF ToldInv
  <2>2. \A s \in Stream : cancelled[s] => cancelled'[s]
    BY Onward
  <2>3. mine[u] \subseteq Stream /\ streams \subseteq Stream
    BY DEF TypeOK
  <2>4. CASE pc[u] = "remove" \/ (job[u] \in {"disconnect", "delete"} /\ pc[u] \in Stopping)
    <3>1. (StreamsOf(at[u]))' \subseteq StreamsOf(at[u])
      BY <1>1, <2>4, RemoveHolds, HeldShrinks DEF StreamsOf
    <3>2. StreamsOf(at[u]) \subseteq Stream
      BY <2>3 DEF StreamsOf
    <3> HIDE DEF Told
    <3>3. pc'[u] = "remove" => \A s \in (StreamsOf(at[u]))' : cancelled'[s]
      BY <1>1, <2>1, <2>2, <3>1, <3>2 DEF Told
    <3>4. job'[u] \in {"disconnect", "delete"} /\ pc'[u] \in Stopping \ {"collect"} =>
              (StreamsOf(at[u]))' \subseteq mine'[u]
      BY <1>1, <2>1, <3>1 DEF Told
    <3>5. /\ pc'[u] = "signal" => \A s \in mine'[u] : cancelled'[s] \/ s \in todo'[u]
          /\ pc'[u] \in {"wait", "abort", "abortWait"} => \A s \in mine'[u] : cancelled'[s]
      BY <1>1, <2>1, <2>2, <2>3 DEF Told
    <3> QED
      BY <3>3, <3>4, <3>5 DEF Told
  <2>5. CASE ~(pc[u] = "remove" \/ (job[u] \in {"disconnect", "delete"} /\ pc[u] \in Stopping))
    BY <1>1, <2>1, <2>2, <2>3, <2>5
  <2> QED
    BY <2>4, <2>5
<1>2. ASSUME NEW t \in Caller, OthersStay(t), Told(t)'
      PROVE  ToldInv'
  <2> SUFFICES ASSUME NEW u \in Caller
               PROVE  Told(u)'
    BY DEF ToldInv
  <2>1. CASE u = t
    BY <1>2, <2>1
  <2>2. CASE u # t
    BY <1>1, <1>2, <2>2 DEF OthersStay
  <2> QED
    BY <2>1, <2>2
<1>3. ASSUME NEW t \in Caller, Calls(t) \/ Lock(t)
      PROVE  ToldInv'
  <2>1. pc'[t] \in {"lock", "collect", "register", "deleteRow"}
    BY <1>3, CallKinds DEF Call, Lock, AfterLock, Goto, TypeOK
  <2>2. Told(t)'
    BY <2>1 DEF Stopping
  <2> QED
    BY <1>2, <1>3, <2>2, CallerSteps
<1>4. ASSUME NEW t \in Caller, Return(t)
      PROVE  ToldInv'
  BY <1>2, <1>4, ReturnsAlone DEF Stopping
<1>5. ASSUME NEW t \in Caller, Stopped(t), Continue(t), UNCHANGED stream,
             pc[t] \in Stopping, \A s \in StreamsOf(at[t]) : cancelled[s]
      PROVE  ToldInv'
  <2>1. CASE Return(t)
    BY <1>4, <2>1
  <2>2. CASE ~Return(t)
    <3>1. pc'[t] = "remove" /\ at' = at
      BY <1>5, <2>2, StoppedEither DEF TypeOK
    <3>2. Told(t)'
      BY <1>5, <3>1 DEF Stopping, StreamsOf
    <3> QED
      BY <1>2, <1>5, <3>2, CallerSteps
  <2> QED
    BY <2>1, <2>2
<1>6. ASSUME NEW t \in Caller, Continue(t)
      PROVE  ToldInv'
  <2>1. CASE StartFails(t) \/ Supervise(t) \/ Remove(t)
    BY <1>4, <2>1 DEF StartFails, Supervise, Remove
  <2>2. CASE Spawn(t) \/ \E s \in Stream : Register(t, s)
    <3>1. pc'[t] \in {"spawn", "supervise"}
      BY <2>2 DEF Spawn, Register, Goto, TypeOK
    <3> QED
      BY <1>2, <1>6, <3>1, CallerSteps DEF Stopping
  <2>3. CASE DeleteRow(t)
    <3>1. CASE Return(t)
      BY <1>4, <3>1
    <3>2. CASE ~Return(t)
      <4>1. pc'[t] = "collect"
        BY <2>3, <3>2 DEF DeleteRow, Goto, TypeOK
      <4> QED
        BY <1>2, <1>6, <4>1, CallerSteps DEF Stopping
    <3> QED
      BY <3>1, <3>2
  <2>4. CASE Collect(t)
    <3>1. job[t] \in {"disconnect", "delete"} => Targets(t) = StreamsOf(at[t])
      BY DEF Targets
    <3>2. CASE Targets(t) = {} /\ job[t] \in {"disconnect", "delete"}
      BY <1>5, <1>6, <2>4, <3>1, <3>2 DEF Collect, Stopping
    <3>3. CASE Targets(t) = {} /\ job[t] \notin {"disconnect", "delete"}
      BY <1>4, <2>4, <3>3 DEF Collect, Stopped
    <3>4. CASE Targets(t) # {}
      <4>1. /\ pc'[t] = "signal" /\ mine'[t] = Targets(t) /\ todo'[t] = Targets(t)
            /\ UNCHANGED <<job, at, streams, of>>
        BY <2>4, <3>4 DEF Collect, Goto, TypeOK
      <4>2. Told(t)'
        BY <3>1, <4>1 DEF StreamsOf
      <4> QED
        BY <1>2, <1>6, <4>2, CallerSteps
    <3> QED
      BY <3>2, <3>3, <3>4
  <2>5. CASE \E s \in Stream : SetReason(t, s) \/ SetForce(t, s)
    <3>1. UNCHANGED <<pc, job, at, mine, todo>>
      BY <2>5 DEF SetReason, SetForce
    <3> QED
      BY <1>1, <1>2, <1>6, <3>1, CallerSteps
  <2>6. CASE Cancel(t)
    <3>1. /\ pc[t] = "signal" /\ pc'[t] = IF todo[t] = {cur[t]} THEN "wait" ELSE "signal"
          /\ todo'[t] = todo[t] \ {cur[t]}
          /\ UNCHANGED <<job, at, mine, streams, of>>
      BY <2>6 DEF Cancel, Next1, Goto, TypeOK
    <3>2. \A s \in Stream : cancelled[s] \/ s = cur[t] => cancelled'[s]
      BY <2>6 DEF Cancel, TypeOK
    <3>3. mine[t] \subseteq Stream
      BY DEF TypeOK
    <3>4. \A s \in mine[t] : cancelled'[s] \/ s \in todo'[t]
      BY <3>1, <3>2, <3>3 DEF ToldInv
    <3>5. job[t] \in {"disconnect", "delete"} => StreamsOf(at[t]) \subseteq mine[t]
      BY <3>1 DEF ToldInv, Stopping
    <3>6. pc'[t] = "wait" => todo'[t] = {}
      BY <3>1
    <3>7. Told(t)'
      BY <3>1, <3>4, <3>5, <3>6 DEF StreamsOf
    <3> QED
      BY <1>2, <1>6, <3>7, CallerSteps
  <2>7. CASE AbortHandle(t) \/ CooperativeTimeout(t)
    <3>1. /\ pc[t] \in {"wait", "abort"} /\ pc'[t] \in {"abort", "abortWait"}
          /\ UNCHANGED <<job, at, mine, streams, of, cancelled>>
      BY <2>7 DEF AbortHandle, CooperativeTimeout, Next1, Goto, TypeOK
    <3>2. Told(t)'
      BY <3>1 DEF ToldInv, Stopping, StreamsOf
    <3> QED
      BY <1>2, <1>6, <3>2, CallerSteps
  <2>8. CASE Waited(t) \/ AbortTimeout(t)
    <3>1. pc[t] \in {"wait", "abortWait"} /\ Stopped(t) /\ UNCHANGED stream
      BY <2>8 DEF Waited, AbortTimeout
    <3>2. CASE job[t] \in {"disconnect", "delete"}
      <4>1. \A s \in StreamsOf(at[t]) : cancelled[s]
        BY <3>1, <3>2 DEF ToldInv, Stopping
      <4> QED
        BY <1>5, <1>6, <3>1, <4>1 DEF Stopping
    <3>3. CASE job[t] \notin {"disconnect", "delete"}
      BY <1>4, <3>1, <3>3 DEF Stopped
    <3> QED
      BY <3>2, <3>3
  <2> QED
    BY <1>6, <2>1, <2>2, <2>3, <2>4, <2>5, <2>6, <2>7, <2>8 DEF Continue
<1>7. CASE UNCHANGED caller
  BY <1>1, <1>7 DEF ToldInv
<1>8. ASSUME NEW s \in Stream, SourceEnds(s) \/ Panics(s) \/ Wind(s)
      PROVE  UNCHANGED caller
  BY <1>8 DEF SourceEnds, Panics, Wind, ReadCancelled, ReadReason, Aborted, Finish, taskless
<1> QED
  BY <1>3, <1>6, <1>7, <1>8 DEF Next, vars

-----------------------------------------------------------------------------
(* Deletions, the exit and the reasons. *)

\* A command that stops a connection's streams goes on until they are told.
LEMMA StoppingGoesOn ==
    ASSUME TypeOK, CallerInv, [Next]_vars, NEW t \in Caller,
           job[t] \in {"disconnect", "delete"}, pc[t] \in Stopping
    PROVE  pc'[t] \in Stopping \cup {"remove"} /\ job'[t] = job[t] /\ at'[t] = at[t]
<1> USE DEF stream, caller
<1>1. ASSUME NEW u \in Caller, Calls(u) \/ Lock(u) \/ Continue(u), u # t
      PROVE  UNCHANGED <<pc[t], job[t], at[t]>>
  BY <1>1, CallerSteps DEF OthersStay
<1>2. ~Calls(t) /\ ~Lock(t)
  BY CallKinds DEF Call, Lock, Stopping
<1>3. ASSUME Stopped(t)
      PROVE  pc'[t] = "remove" /\ job' = job /\ at' = at
  BY <1>3 DEF Stopped, Goto, TypeOK
<1>4. ASSUME Continue(t)
      PROVE  pc'[t] \in Stopping \cup {"remove"} /\ job' = job /\ at' = at
  <2>1. CASE Collect(t)
    BY <1>3, <2>1 DEF Collect, Goto, Stopping, TypeOK
  <2>2. CASE Waited(t) \/ AbortTimeout(t)
    BY <1>3, <2>2 DEF Waited, AbortTimeout
  <2>3. CASE Cancel(t) \/ AbortHandle(t) \/ CooperativeTimeout(t)
    BY <2>3 DEF Cancel, AbortHandle, CooperativeTimeout, Next1, Goto, Stopping, TypeOK
  <2>4. CASE \E s \in Stream : SetReason(t, s) \/ SetForce(t, s)
    BY <2>4 DEF SetReason, SetForce
  <2> QED
    BY <1>4, <2>1, <2>2, <2>3, <2>4
    DEF Continue, StartFails, Spawn, Supervise, DeleteRow, Register, Remove, Stopping
<1>5. ASSUME NEW s \in Stream, SourceEnds(s) \/ Panics(s) \/ Wind(s)
      PROVE  UNCHANGED caller
  BY <1>5 DEF SourceEnds, Panics, Wind, ReadCancelled, ReadReason, Aborted, Finish, taskless
<1> QED
  BY <1>1, <1>2, <1>4, <1>5 DEF Next, vars

\* A row goes only by the step that makes its command stop the streams.
LEMMA RowsGo ==
    ASSUME TypeOK, CallerInv, [Next]_vars, NEW c \in rows, c \notin rows'
    PROVE  \E t \in Caller : job'[t] = "delete" /\ at'[t] = c /\ pc'[t] \in Stopping
<1> USE DEF stream, caller
<1>1. PICK t \in Caller : DeleteRow(t)
  <2>1. ASSUME NEW t \in Caller, Calls(t) \/ Lock(t)
        PROVE  rows' = rows
    BY <2>1, CallKinds DEF Call, Lock
  <2>2. ASSUME NEW t \in Caller, Continue(t), ~DeleteRow(t)
        PROVE  rows' = rows
    BY <2>2 DEF Continue, StartFails, Spawn, Supervise, Collect, Register, SetReason, SetForce,
       Cancel, Waited, CooperativeTimeout, AbortHandle, AbortTimeout, Remove
  <2>3. ASSUME NEW s \in Stream, SourceEnds(s) \/ Panics(s) \/ Wind(s)
        PROVE  rows' = rows
    BY <2>3 DEF SourceEnds, Panics, Wind, ReadCancelled, ReadReason, Aborted, Finish, taskless
  <2> QED
    BY <2>1, <2>2, <2>3 DEF Next, vars
<1>2. rows' = rows \ {at[t]} /\ pc'[t] = "collect" /\ job' = job /\ at' = at
  BY <1>1 DEF DeleteRow, Goto, TypeOK
<1>3. job[t] = "delete"
  BY <1>1 DEF DeleteRow, CallerInv, Path, Stopping, TypeOK, Job
<1> QED
  BY <1>2, <1>3 DEF Stopping

LEMMA NextSilentInv ==
    ASSUME TypeOK, CallerInv, StreamInv, SilentInv, ToldInv', TypeOK', [Next]_vars
    PROVE  SilentInv'
<1> SUFFICES ASSUME NEW c \in Connection, c \notin rows', NEW s \in (StreamsOf(c))'
             PROVE  \/ cancelled'[s]
                    \/ \E t \in Caller : job'[t] = "delete" /\ at'[t] = c /\ pc'[t] \in Stopping
  BY DEF SilentInv
<1>1. CASE c \in rows
  BY <1>1, RowsGo
<1>2. CASE c \notin rows
  <2>1. s \in StreamsOf(c)
    BY <1>2, StreamsShrink DEF Register
  <2>2. s \in Stream
    BY <2>1 DEF StreamsOf, TypeOK
  <2>3. CASE cancelled[s]
    BY <2>2, <2>3, Onward
  <2>4. CASE \E t \in Caller : job[t] = "delete" /\ at[t] = c /\ pc[t] \in Stopping
    <3>1. PICK t \in Caller : job[t] = "delete" /\ at[t] = c /\ pc[t] \in Stopping
      BY <2>4
    <3>2. job'[t] = "delete" /\ at'[t] = c /\ pc'[t] \in Stopping \cup {"remove"}
      BY <3>1, StoppingGoesOn
    <3>3. pc'[t] = "remove" => cancelled'[s]
      BY <3>2 DEF ToldInv
    <3> QED
      BY <3>2, <3>3
  <2> QED
    BY <1>2, <2>1, <2>3, <2>4 DEF SilentInv
<1> QED
  BY <1>1, <1>2

LEMMA NextExitInv ==
    ASSUME TypeOK, CallerInv, StreamInv, ExitInv, [Next]_vars, TypeOK'
    PROVE  ExitInv'
<1> USE DEF stream, caller
<1> DEFINE Telling(t, s) == job[t] = "exit" /\ pc[t] = "signal" /\ s \in todo[t]
<1> SUFFICES ASSUME closing', NEW s \in streams'
             PROVE  cancelled'[s] \/ \E t \in Caller : Telling(t, s)'
  BY DEF ExitInv
<1>1. CASE ~closing
  <2>1. PICK t \in Caller : Collect(t)
    <3>1. ASSUME NEW t \in Caller, Calls(t) \/ Lock(t)
          PROVE  closing' = closing
      BY <3>1, CallKinds DEF Call, Lock
    <3>2. ASSUME NEW t \in Caller, Continue(t), ~Collect(t)
          PROVE  closing' = closing
      BY <3>2 DEF Continue, StartFails, Spawn, Supervise, DeleteRow, Register, SetReason, SetForce,
         Cancel, Waited, CooperativeTimeout, AbortHandle, AbortTimeout, Remove
    <3>3. ASSUME NEW r \in Stream, SourceEnds(r) \/ Panics(r) \/ Wind(r)
          PROVE  closing' = closing
      BY <3>3 DEF SourceEnds, Panics, Wind, ReadCancelled, ReadReason, Aborted, Finish, taskless
    <3> QED
      BY <1>1, <3>1, <3>2, <3>3 DEF Next, vars
  <2>2. job[t] = "exit" /\ streams' = streams
    BY <1>1, <2>1 DEF Collect
  <2>3. Targets(t) = streams
    BY <2>2 DEF Targets
  <2>4. pc'[t] = "signal" /\ todo'[t] = streams /\ job' = job
    BY <2>1, <2>2, <2>3 DEF Collect, Goto, TypeOK
  <2> QED
    BY <2>2, <2>4
<1>2. CASE closing
  <2>1. s \in streams /\ s \in Stream
    BY <1>2, Onward DEF Register, TypeOK
  <2>2. CASE cancelled[s]
    BY <2>1, <2>2, Onward
  <2>3. CASE \E t \in Caller : Telling(t, s)
    <3>1. PICK t \in Caller : Telling(t, s)
      BY <2>3
    <3>2. CASE UNCHANGED <<pc[t], job[t], todo[t]>>
      BY <3>1, <3>2
    <3>3. CASE Cancel(t)
      <4>1. s = cur[t] => cancelled'[s]
        BY <2>1, <3>3 DEF Cancel, TypeOK
      <4>2. s # cur[t] => Telling(t, s)'
        BY <3>1, <3>3 DEF Cancel, Next1, TypeOK
      <4> QED
        BY <4>1, <4>2
    <3>4. ASSUME NEW u \in Caller, Calls(u) \/ Lock(u) \/ Continue(u)
          PROVE  UNCHANGED <<pc[t], job[t], todo[t]>> \/ Cancel(t)
      <4>1. CASE u # t
        BY <3>4, <4>1, CallerSteps DEF OthersStay
      <4>2. CASE u = t
        <5>1. ~Calls(t) /\ ~Lock(t)
          BY <3>1, CallKinds DEF Call, Lock
        <5>2. CASE Continue(t)
          BY <3>1, <5>2 DEF Continue, StartFails, Spawn, Supervise, DeleteRow, Collect, Register, SetReason,
             SetForce, Waited, CooperativeTimeout, AbortHandle, AbortTimeout, Remove
        <5> QED
          BY <3>4, <4>2, <5>1, <5>2
      <4> QED
        BY <4>1, <4>2
    <3>5. ASSUME NEW r \in Stream, SourceEnds(r) \/ Panics(r) \/ Wind(r)
          PROVE  UNCHANGED caller
      BY <3>5 DEF SourceEnds, Panics, Wind, ReadCancelled, ReadReason, Aborted, Finish, taskless
    <3> QED
      BY <3>2, <3>3, <3>4, <3>5 DEF Next, vars
  <2> QED
    BY <1>2, <2>1, <2>2, <2>3 DEF ExitInv
<1> QED
  BY <1>1, <1>2

LEMMA NextReasonInv ==
    ASSUME TypeOK, CallerInv, ReasonInv, [Next]_vars
    PROVE  ReasonInv'
<1> USE DEF stream, caller
<1>1. \A s \in Stream : /\ cancelled[s] => cancelled'[s]
                        /\ reason[s] # "source_ended" => reason'[s] # "source_ended"
  BY Onward
<1>2. ASSUME NEW s \in Stream, cancelled'[s]
      PROVE  reason'[s] # "source_ended"
  <2>1. CASE cancelled[s]
    BY <1>1, <2>1 DEF ReasonInv
  <2>2. CASE ~cancelled[s]
    <3>1. PICK t \in Caller : Cancel(t)
      <4>1. ASSUME NEW t \in Caller, Calls(t) \/ Lock(t)
            PROVE  UNCHANGED cancelled
        BY <4>1, CallKinds DEF Call, Lock
      <4>2. ASSUME NEW t \in Caller, Continue(t), ~Cancel(t)
            PROVE  UNCHANGED cancelled
        BY <4>2 DEF Continue, StartFails, Spawn, Supervise, DeleteRow, Collect, Register, SetReason,
           SetForce, Waited, CooperativeTimeout, AbortHandle, AbortTimeout, Remove
      <4>3. ASSUME NEW r \in Stream, SourceEnds(r) \/ Panics(r) \/ Wind(r)
            PROVE  UNCHANGED cancelled
        BY <4>3 DEF SourceEnds, Panics, Wind, ReadCancelled, ReadReason, Aborted, Finish, taskless
      <4> QED
        BY <1>2, <2>2, <4>1, <4>2, <4>3 DEF Next, vars
    <3>2. s = cur[t] /\ reason' = reason
      BY <1>2, <2>2, <3>1 DEF Cancel, TypeOK
    <3> QED
      BY <3>1, <3>2 DEF Cancel, ReasonInv
  <2> QED
    BY <2>1, <2>2
\* Only a task that was cancelled asks for the reason.
<1>3. ASSUME NEW s \in Stream, worker'[s] = "stopped"
      PROVE  cancelled'[s]
  <2>1. CASE worker[s] = "stopped"
    BY <1>1, <2>1 DEF ReasonInv
  <2>2. CASE worker[s] # "stopped"
    <3>1. ASSUME NEW t \in Caller, Calls(t) \/ Lock(t)
          PROVE  UNCHANGED worker
      BY <3>1, CallKinds DEF Call, Lock
    <3>2. ASSUME NEW t \in Caller, Continue(t)
          PROVE  worker'[s] \in {worker[s], "running"}
      <4>1. CASE Spawn(t)
        BY <4>1 DEF Spawn
      <4>2. CASE ~Spawn(t)
        BY <3>2, <4>2 DEF Continue, StartFails, Supervise, DeleteRow, Collect, Register, SetReason,
           SetForce, Cancel, Waited, CooperativeTimeout, AbortHandle, AbortTimeout, Remove
      <4> QED
        BY <4>1, <4>2
    <3>3. ASSUME NEW r \in Stream, SourceEnds(r) \/ Panics(r) \/ Wind(r)
          PROVE  cancelled'[s]
      <4>1. CASE ReadCancelled(r)
        BY <1>3, <2>2, <4>1 DEF ReadCancelled, To, taskless, TypeOK
      <4>2. CASE SourceEnds(r) \/ Panics(r) \/ ReadReason(r) \/ Aborted(r) \/ Finish(r)
        BY <1>3, <2>2, <4>2 DEF SourceEnds, Panics, ReadReason, Aborted, Finish, To, TypeOK
      <4> QED
        BY <3>3, <4>1, <4>2 DEF Wind
    <3> QED
      BY <1>3, <2>2, <3>1, <3>2, <3>3 DEF Next, vars
  <2> QED
    BY <2>1, <2>2
\* A stream gets its reason when the command that stops it turns to it.
<1>4. ASSUME NEW t \in Caller, pc'[t] = "signal", cur'[t] # None
      PROVE  reason'[cur'[t]] # "source_ended"
  <2>1. CASE UNCHANGED <<pc[t], cur[t]>>
    BY <1>1, <1>4, <2>1 DEF ReasonInv, TypeOK
  <2>2. ASSUME NEW s \in Stream, SetReason(t, s)
        PROVE  reason'[cur'[t]] # "source_ended"
    <3>1. cur'[t] = s /\ reason'[s] = IF reason[s] = "source_ended" THEN StopReason(t) ELSE reason[s]
      BY <2>2 DEF SetReason, TypeOK
    <3>2. StopReason(t) # "source_ended"
      BY DEF StopReason
    <3> QED
      BY <3>1, <3>2
  <2>3. ASSUME NEW u \in Caller, Calls(u) \/ Lock(u) \/ Continue(u)
        PROVE  UNCHANGED <<pc[t], cur[t]>> \/ \E s \in Stream : SetReason(t, s)
    <3>1. CASE u # t
      BY <2>3, <3>1, CallerSteps DEF OthersStay
    <3>2. CASE u = t
      <4>1. ~Calls(t) /\ ~Lock(t)
        BY <1>4, CallKinds DEF Call, Lock, AfterLock, Goto, TypeOK
      <4>2. ASSUME Return(t) \/ Stopped(t)
            PROVE  FALSE
        BY <1>4, <4>2, ReturnsAlone, StoppedEither DEF TypeOK
      <4>3. CASE Collect(t)
        <5>1. cur[t] = None
          BY <4>3 DEF Collect, CallerInv
        <5>2. cur' = cur
          BY <4>2, <4>3 DEF Collect
        <5> QED
          BY <1>4, <5>1, <5>2
      <4>4. CASE Cancel(t)
        BY <1>4, <4>4 DEF Cancel, Next1, TypeOK
      <4>5. CASE StartFails(t) \/ Supervise(t) \/ Waited(t) \/ AbortTimeout(t) \/ Remove(t)
        BY <4>2, <4>5 DEF StartFails, Supervise, Waited, AbortTimeout, Remove
      <4>6. CASE Spawn(t) \/ DeleteRow(t) \/ CooperativeTimeout(t) \/ \E s \in Stream : Register(t, s)
        BY <1>4, <4>2, <4>6 DEF Spawn, DeleteRow, CooperativeTimeout, Register, Goto, TypeOK
      <4>7. CASE AbortHandle(t) \/ \E s \in Stream : SetForce(t, s)
        BY <1>4, <4>7 DEF AbortHandle, SetForce, Next1, Goto, TypeOK
      <4> QED
        BY <2>3, <3>2, <4>1, <4>3, <4>4, <4>5, <4>6, <4>7 DEF Continue
    <3> QED
      BY <3>1, <3>2
  <2>4. ASSUME NEW r \in Stream, SourceEnds(r) \/ Panics(r) \/ Wind(r)
        PROVE  UNCHANGED caller
    BY <2>4 DEF SourceEnds, Panics, Wind, ReadCancelled, ReadReason, Aborted, Finish, taskless
  <2> QED
    BY <2>1, <2>2, <2>3, <2>4 DEF Next, vars
<1> QED
  BY <1>2, <1>3, <1>4 DEF ReasonInv

\* What a command does around its aborts.
LEMMA AbortSteps ==
    ASSUME TypeOK, CallerInv, [Next]_vars, NEW t \in Caller
    PROVE  \/ pc'[t] = pc[t] /\ mine'[t] = mine[t] /\ todo'[t] = todo[t] /\ cur'[t] = cur[t]
           \/ CooperativeTimeout(t)
           \/ \E s \in Stream : SetForce(t, s)
           \/ AbortHandle(t)
           \/ (pc[t] = "abort" => cur[t] = None) /\ pc'[t] \notin {"abort", "abortWait"}
<1> USE DEF stream, caller
<1> DEFINE Same == pc'[t] = pc[t] /\ mine'[t] = mine[t] /\ todo'[t] = todo[t] /\ cur'[t] = cur[t]
           Away == pc[t] # "abort" /\ pc'[t] \notin {"abort", "abortWait"}
<1>1. ASSUME NEW u \in Caller, Calls(u) \/ Lock(u) \/ Continue(u), u # t
      PROVE  Same
  BY <1>1, CallerSteps DEF OthersStay
<1>2. ASSUME Calls(t) \/ Lock(t)
      PROVE  Away
  BY <1>2, CallKinds DEF Call, Lock, AfterLock, Goto, TypeOK
<1>3. ASSUME Return(t) \/ Stopped(t)
      PROVE  pc'[t] \in {"idle", "remove"}
  BY <1>3, ReturnsAlone, StoppedEither DEF TypeOK
<1>4. CASE StartFails(t) \/ Supervise(t) \/ Waited(t) \/ AbortTimeout(t) \/ Remove(t)
  BY <1>3, <1>4 DEF StartFails, Supervise, Waited, AbortTimeout, Remove
<1>5. CASE DeleteRow(t) \/ Collect(t)
  BY <1>3, <1>5 DEF DeleteRow, Collect, Goto, TypeOK
<1>6. CASE Spawn(t) \/ \E s \in Stream : Register(t, s)
  BY <1>6 DEF Spawn, Register, Goto, TypeOK
<1>7. CASE Cancel(t) \/ \E s \in Stream : SetReason(t, s)
  BY <1>7 DEF Cancel, SetReason, Next1, Goto, TypeOK
<1>8. ASSUME NEW s \in Stream, SourceEnds(s) \/ Panics(s) \/ Wind(s)
      PROVE  Same
  BY <1>8 DEF SourceEnds, Panics, Wind, ReadCancelled, ReadReason, Aborted, Finish, taskless
<1>9. CASE UNCHANGED vars
  BY <1>9 DEF vars
<1> QED
  BY <1>1, <1>2, <1>4, <1>5, <1>6, <1>7, <1>8, <1>9 DEF Next, Continue

\* Who writes the flags of an abort.
LEMMA FlagSteps ==
    ASSUME TypeOK, [Next]_vars
    PROVE  /\ \A s \in Stream : done[s] => done'[s]
           /\ \A s \in Stream : force[s] => force'[s]
           /\ \A s \in Stream : aborting[s] => aborting'[s]
           /\ \/ UNCHANGED <<force, handle>>
              \/ \E t \in Caller : Supervise(t)
              \/ \E t \in Caller, s \in Stream : SetForce(t, s)
<1> USE DEF stream, caller
<1> DEFINE Plain == UNCHANGED <<force, handle, aborting, done>>
           Keeps == /\ \A s \in Stream : done[s] => done'[s]
                    /\ \A s \in Stream : force[s] => force'[s]
                    /\ \A s \in Stream : aborting[s] => aborting'[s]
<1>1. ASSUME NEW t \in Caller, Calls(t) \/ Lock(t)
      PROVE  Plain
  BY <1>1, CallKinds DEF Call, Lock
<1>2. ASSUME NEW t \in Caller, StartFails(t) \/ Spawn(t) \/ DeleteRow(t) \/ Collect(t) \/ Cancel(t)
             \/ Waited(t) \/ CooperativeTimeout(t) \/ AbortTimeout(t) \/ Remove(t)
      PROVE  Plain
  BY <1>2 DEF StartFails, Spawn, DeleteRow, Collect, Cancel, Waited, CooperativeTimeout, AbortTimeout, Remove
<1>3. ASSUME NEW t \in Caller, NEW s \in Stream, Register(t, s) \/ SetReason(t, s)
      PROVE  Plain
  BY <1>3 DEF Register, SetReason
<1>4. ASSUME NEW t \in Caller, Supervise(t)
      PROVE  Keeps
  BY <1>4 DEF Supervise
<1>5. ASSUME NEW t \in Caller, NEW s \in Stream, SetForce(t, s)
      PROVE  Keeps
  BY <1>5 DEF SetForce, TypeOK
<1>6. ASSUME NEW t \in Caller, AbortHandle(t)
      PROVE  Keeps /\ UNCHANGED <<force, handle>>
  BY <1>6 DEF AbortHandle, TypeOK
<1>7. ASSUME NEW s \in Stream, SourceEnds(s) \/ Panics(s) \/ Wind(s)
      PROVE  Keeps /\ UNCHANGED <<force, handle>>
  BY <1>7 DEF SourceEnds, Panics, Wind, ReadCancelled, ReadReason, Aborted, Finish, taskless, TypeOK
<1>8. CASE UNCHANGED vars
  BY <1>8 DEF vars
<1> QED
  BY <1>1, <1>2, <1>3, <1>4, <1>5, <1>6, <1>7, <1>8 DEF Next, Continue

LEMMA NextAbortInv ==
    ASSUME TypeOK, CallerInv, AbortInv, [Next]_vars
    PROVE  AbortInv'
<1> USE StreamsAssumption
<1>1. ASSUME NEW s \in Stream, force'[s], handle'[s]
      PROVE  aborting'[s] \/ \E t \in Caller : pc'[t] = "abort" /\ cur'[t] = s
  <2>1. ASSUME NEW t \in Caller, Supervise(t), s \in mine[t]
        PROVE  aborting'[s]
    <3>1. force[s]
      BY <1>1, <2>1 DEF Supervise
    <3> QED
      BY <2>1, <3>1 DEF Supervise
  <2>2. ASSUME NEW t \in Caller, SetForce(t, s)
        PROVE  pc'[t] = "abort" /\ cur'[t] = s
    BY <2>2 DEF SetForce, TypeOK
  <2>3. CASE ~(force[s] /\ handle[s])
    <3>1. CASE \E t \in Caller : Supervise(t)
      <4>1. PICK t \in Caller : Supervise(t)
        BY <3>1
      <4>2. s \in mine[t]
        BY <1>1, <2>3, <4>1 DEF Supervise
      <4> QED
        BY <2>1, <4>1, <4>2
    <3>2. CASE \E t \in Caller, r \in Stream : SetForce(t, r)
      <4>1. PICK t \in Caller, r \in Stream : SetForce(t, r)
        BY <3>2
      <4>2. s = r
        BY <1>1, <2>3, <4>1 DEF SetForce, TypeOK
      <4> QED
        BY <2>2, <4>1, <4>2
    <3> QED
      BY <1>1, <2>3, <3>1, <3>2, FlagSteps
  <2>4. CASE aborting[s]
    BY <2>4, FlagSteps
  <2>5. ASSUME NEW t \in Caller, pc[t] = "abort", cur[t] = s, handle[s]
        PROVE  aborting'[s] \/ (pc'[t] = "abort" /\ cur'[t] = s)
    <3>1. s # None
      OBVIOUS
    <3>2. CASE AbortHandle(t)
      BY <2>5, <3>2 DEF AbortHandle, TypeOK
    <3>3. ~CooperativeTimeout(t) /\ \A r \in Stream : ~SetForce(t, r)
      BY <2>5, <3>1 DEF CooperativeTimeout, SetForce
    <3> QED
      BY <2>5, <3>1, <3>2, <3>3, AbortSteps
  <2> QED
    BY <2>3, <2>4, <2>5 DEF AbortInv
<1>2. ASSUME NEW t \in Caller
      PROVE  /\ pc'[t] = "abort" => \A s \in mine'[t] : done'[s] \/ force'[s] \/ (s \in todo'[t] /\ s # cur'[t])
             /\ pc'[t] = "abortWait" => \A s \in mine'[t] : done'[s] \/ force'[s]
  <2>1. mine[t] \subseteq Stream
    BY DEF TypeOK
  <2>2. \A s \in Stream : done[s] \/ force[s] => done'[s] \/ force'[s]
    BY FlagSteps
  <2>3. CASE pc'[t] = pc[t] /\ mine'[t] = mine[t] /\ todo'[t] = todo[t] /\ cur'[t] = cur[t]
    BY <2>1, <2>2, <2>3 DEF AbortInv
  <2>4. CASE CooperativeTimeout(t)
    <3>1. pc'[t] = "abort" /\ mine'[t] = mine[t] /\ todo'[t] = mine[t] /\ cur'[t] = cur[t] /\ pc[t] = "wait"
      BY <2>4 DEF CooperativeTimeout, Goto, TypeOK
    <3>2. cur'[t] = None
      BY <3>1 DEF CallerInv
    <3> QED
      BY <2>1, <3>1, <3>2
  <2>5. ASSUME NEW r \in Stream, SetForce(t, r)
        PROVE  /\ pc'[t] = "abort"
               /\ \A s \in mine'[t] : done'[s] \/ force'[s] \/ (s \in todo'[t] /\ s # cur'[t])
    <3>1. /\ pc[t] = "abort" /\ UNCHANGED <<pc, mine, todo, done>> /\ cur'[t] = r
          /\ done'[r] \/ force'[r]
      BY <2>5 DEF SetForce, TypeOK
    <3>2. ASSUME NEW s \in mine[t], s # r
          PROVE  done'[s] \/ force'[s] \/ s \in todo[t]
      BY <2>1, <2>2, <3>1, <3>2 DEF AbortInv
    <3> QED
      BY <3>1, <3>2
  <2>6. CASE AbortHandle(t)
    <3>1. /\ pc[t] = "abort" /\ cur[t] # None /\ UNCHANGED <<mine, done, force>> /\ cur'[t] = None
          /\ todo'[t] = todo[t] \ {cur[t]}
      BY <2>6 DEF AbortHandle, Next1, TypeOK
    <3>2. IF todo[t] = {cur[t]} THEN pc'[t] = "abortWait" ELSE pc'[t] = "abort"
      BY <2>6 DEF AbortHandle, Next1, Goto, TypeOK
    <3>3. \A s \in mine[t] : done[s] \/ force[s] \/ s \in todo[t] \ {cur[t]}
      BY <3>1 DEF AbortInv
    <3>4. CASE todo[t] = {cur[t]}
      BY <3>1, <3>2, <3>3, <3>4
    <3>5. CASE todo[t] # {cur[t]}
      BY <2>1, <3>1, <3>2, <3>3, <3>5
    <3> QED
      BY <3>4, <3>5
  <2> QED
    BY <2>3, <2>4, <2>5, <2>6, AbortSteps
<1> QED
  BY <1>1, <1>2 DEF AbortInv

-----------------------------------------------------------------------------
(* The invariant of all of it, and what it says. *)

StreamsInv ==
    /\ TypeOK /\ CallerInv /\ StreamInv /\ LimitInv
    /\ ToldInv /\ SilentInv /\ ExitInv /\ ReasonInv /\ AbortInv

LEMMA Invariance == Spec => []StreamsInv
<1>1. Init => StreamsInv
  BY InitInv DEF StreamsInv
<1>2. StreamsInv /\ [Next]_vars => StreamsInv'
  BY NextTypeOK, NextCallerInv, NextStreamInv, NextLimitInv, NextToldInv, NextSilentInv,
     NextExitInv, NextReasonInv, NextAbortInv DEF StreamsInv
<1> QED
  BY <1>1, <1>2, PTL DEF Spec

\* Every variable keeps its type, whatever is called, stopped, cancelled or
\* aborted in which order.
THEOREM TypeCorrect == Spec => []TypeOK
<1>1. StreamsInv => TypeOK
  BY DEF StreamsInv
<1> QED
  BY <1>1, Invariance, PTL

\* No connection ever has more tasks than MAX_STREAMS_PER_CONNECTION, those
\* that ignore their cancellation and their abort included: a task that runs
\* is on the map, and register counts the map.
THEOREM TasksAreBounded == Spec => []TasksBounded
<1>1. ASSUME StreamsInv, NEW c \in Connection
      PROVE  Cardinality({s \in Stream : Live(s) /\ of[s] = c}) <= MaxStreams
  <2> DEFINE Tasks == {s \in Stream : Live(s) /\ of[s] = c}
  <2>1. TypeOK /\ StreamInv /\ LimitInv
    BY <1>1 DEF StreamsInv
  <2>2. Tasks \subseteq StreamsOf(c)
    BY <2>1 DEF StreamInv, StreamsOf
  <2>3. IsFiniteSet(StreamsOf(c)) /\ Cardinality(StreamsOf(c)) \in Nat
    BY <2>1, FiniteStreams DEF StreamsOf, TypeOK
  <2>4. Cardinality(Tasks) <= Cardinality(StreamsOf(c)) /\ Cardinality(Tasks) \in Nat
    BY <2>2, <2>3, FS_Subset, FS_CardinalityType
  <2>5. Cardinality(StreamsOf(c)) <= MaxStreams
    BY <2>1 DEF LimitInv
  <2> QED
    BY <2>3, <2>4, <2>5, StreamsAssumption
<1>2. StreamsInv => TasksBounded
  BY <1>1 DEF TasksBounded
<1> QED
  BY <1>2, Invariance, PTL

\* When a disconnect or a deletion turns to the pool, every stream of its
\* connection has been told to stop: the connect lock keeps a start out from
\* the look at the map to the end.
THEOREM DisconnectTellsAll == Spec => []DisconnectStopsAll
<1>1. StreamsInv => DisconnectStopsAll
  BY DEF StreamsInv, ToldInv, DisconnectStopsAll
<1> QED
  BY <1>1, Invariance, PTL

\* A deleted connection that nobody works on has no stream that was not told
\* to stop.
THEOREM DeletedStaysSilent == Spec => []DeletedIsSilent
<1>1. ASSUME StreamsInv, NEW c \in Connection \ rows, lock[c] = None, NEW s \in StreamsOf(c)
      PROVE  cancelled[s]
  <2>1. TypeOK /\ CallerInv /\ SilentInv
    BY <1>1 DEF StreamsInv
  <2>2. ASSUME NEW t \in Caller, job[t] = "delete", at[t] = c, pc[t] \in Stopping
        PROVE  FALSE
    <3>1. Holds(t)
      BY <2>1, <2>2, RemoveHolds
    <3>2. lock[c] = t
      BY <2>1, <2>2, <3>1 DEF CallerInv
    <3> QED
      BY <1>1, <3>2, StreamsAssumption
  <2> QED
    BY <1>1, <2>1, <2>2 DEF SilentInv
<1>2. StreamsInv => DeletedIsSilent
  BY <1>1 DEF DeletedIsSilent
<1> QED
  BY <1>2, Invariance, PTL

\* Once the exit has returned, no stream is on the map that was not told to
\* stop, and register lets none in.
THEOREM ExitTellsAll == Spec => []ExitStopsAll
<1>1. StreamsInv => ExitStopsAll
  BY DEF StreamsInv, ExitInv, ExitStopsAll
<1> QED
  BY <1>1, Invariance, PTL

\* A stream that somebody stopped never says that its source ended: the
\* reason is set before the token is cancelled and read after it.
THEOREM StopsSayWhy == Spec => StopsAreNamed
<1> DEFINE Named == \A s \in Stream : sent[s] = None /\ sent'[s] = "source_ended" => ~cancelled[s]
<1>1. ASSUME StreamsInv, [Next]_vars
      PROVE  Named
  <2> USE DEF stream, caller, taskless
  <2>1. TypeOK /\ ReasonInv
    BY <1>1 DEF StreamsInv
  <2> SUFFICES ASSUME NEW s \in Stream, sent[s] = None, sent'[s] = "source_ended"
               PROVE  ~cancelled[s]
    OBVIOUS
  <2>2. sent'[s] # sent[s]
    BY StreamsAssumption DEF Reason
  <2>3. ASSUME NEW t \in Caller, Calls(t) \/ Lock(t) \/ Continue(t)
        PROVE  UNCHANGED sent
    <3>1. CASE Calls(t) \/ Lock(t)
      BY <3>1, CallKinds DEF Call, Lock
    <3>2. CASE Continue(t)
      BY <3>2 DEF Continue, StartFails, Spawn, Supervise, DeleteRow, Collect, Register, SetReason,
         SetForce, Cancel, Waited, CooperativeTimeout, AbortHandle, AbortTimeout, Remove
    <3> QED
      BY <2>3, <3>1, <3>2
  <2>4. ASSUME NEW r \in Stream, ReadCancelled(r), sent'[s] # sent[s]
        PROVE  ~cancelled[s]
    BY <2>1, <2>4 DEF ReadCancelled, TypeOK
  <2>5. ASSUME NEW r \in Stream, ReadReason(r), sent'[s] # sent[s]
        PROVE  ~cancelled[s]
    <3>1. s = r /\ worker[s] = "stopped" /\ reason[s] = "source_ended"
      BY <2>1, <2>5 DEF ReadReason, TypeOK
    <3> QED
      BY <2>1, <3>1 DEF ReasonInv
  <2>6. ASSUME NEW r \in Stream, SourceEnds(r) \/ Panics(r) \/ Aborted(r) \/ Finish(r)
        PROVE  UNCHANGED sent
    BY <2>6 DEF SourceEnds, Panics, Aborted, Finish
  <2> QED
    BY <1>1, <2>2, <2>3, <2>4, <2>5, <2>6 DEF Next, Wind, vars
<1>2. StreamsInv /\ [Next]_vars => [Named]_vars
  BY <1>1
<1> QED
  BY <1>2, Invariance, PTL DEF Spec, StopsAreNamed

\* Whatever a command waits for after its aborts has ended or is being aborted,
\* or will be by the start that stores its handle or by the command that is at it.
AbortIsNotLost ==
    \A t \in Caller : pc[t] = "abortWait" => \A s \in mine[t] :
        \/ done[s]
        \/ aborting[s]
        \/ force[s] /\ ~handle[s]
        \/ \E u \in Caller : pc[u] = "abort" /\ cur[u] = s

\* However a force abort and the storing of the handle interleave, one of the
\* two sees what the other wrote (stop_active and supervise_worker): the safe
\* half of StoppedStreamsEnd.
THEOREM AbortsReachTheirTasks == Spec => []AbortIsNotLost
<1>1. StreamsInv => AbortIsNotLost
  BY DEF StreamsInv, TypeOK, AbortInv, AbortIsNotLost
<1> QED
  BY <1>1, Invariance, PTL
=============================================================================
