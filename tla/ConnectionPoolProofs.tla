------------------------ MODULE ConnectionPoolProofs ------------------------
(***************************************************************************)
(* What ConnectionPool promises for every set of callers, every set of     *)
(* configurations and every number of drivers.  The inductive invariant    *)
(* IInv is a conjunction of five parts, each with a lemma of its own; the  *)
(* theorems follow from it.                                                *)
(***************************************************************************)
EXTENDS ConnectionPool, TLAPS

\* The stages in which a task holds the connect lock.
Locked == {"recheck", "deleteRow", "remove", "shutdown", "config", "mark", "create", "test", "end"}

\* The lock is held exactly by the task in a locked stage, and each stage is
\* one of the job the task is in.
LockInv ==
    \A t \in Task :
        /\ lock = t <=> pc[t] \in Locked
        /\ pc[t] = "idle" => job[t] = "none" /\ ~retry[t]
        /\ pc[t] = "lock" => job[t] \in {"connect", "ensure", "reconnect", "disconnect", "delete"}
        /\ op[t] # "none" => job[t] \in {"ensure", "reconnect"}
        /\ pc[t] = "recheck" => job[t] = "ensure"
        /\ pc[t] = "deleteRow" => job[t] = "delete"
        /\ pc[t] = "remove" => job[t] \in {"disconnect", "delete", "reconnect"}
        /\ pc[t] \in {"config", "mark", "create", "test"} => job[t] \in {"connect", "ensure", "reconnect"}
        /\ pc[t] \in {"mark", "create", "test"} => row # NoRow
        /\ cfg[t] # NoRow =>
            /\ pc[t] \in {"mark", "create", "test", "shutdown", "end"}
            /\ job[t] \in {"connect", "ensure", "reconnect"}
        /\ pc[t] \in {"mark", "create", "test"} => cfg[t] # NoRow

\* Who holds which driver: the one being built is the newest and was never
\* pooled, one that is used was.
ArcInv ==
    /\ pooled \subseteq 1..next
    /\ entry.drv \in pooled \cup {0}
    /\ \A t \in Task :
        /\ pc[t] = "test" => arc[t] = next /\ next \in Driver \ pooled
        /\ pc[t] \in {"run", "health"} => arc[t] \in pooled
        /\ pc[t] \notin {"test", "run", "health"} => arc[t] = 0

\* A task has an entry to shut down exactly in the stage that does it.
TakenInv ==
    /\ \A x \in Task \cup {Reaper} : taken[x] \in pooled \cup {0}
    /\ \A t \in Task : taken[t] # 0 <=> pc[t] = "shutdown"
    /\ \A d \in Driver \ pooled : shut[d] = 0
    /\ ClosedOnce
    /\ ReaperSparesInUse

\* What a task knows of the slot: when it is empty.
EmptyFor(t) ==
    /\ pc[t] = "end" /\ job[t] \in {"disconnect", "delete"} /\ ok[t] => ~Pooled
    /\ pc[t] \in {"config", "mark", "create", "test"} /\ job[t] \in {"ensure", "reconnect"} => ~Pooled
    /\ pc[t] = "shutdown" /\ cfg[t] = NoRow => ~Pooled

EmptyInv == DeletedStaysGone /\ \A t \in Task : EmptyFor(t)

\* How often an operation ran, and that a retry found a newer driver.
RunFor(t) ==
    /\ \A i \in 1..Len(ran[t]) : ran[t][i] \in pooled
    /\ job[t] \notin {"ensure", "reconnect"} => ran[t] = <<>>
    /\ job[t] = "ensure" => Len(ran[t]) <= 1 /\ (pc[t] # "run" => ran[t] = <<>>)
    /\ job[t] = "reconnect" =>
        /\ op[t] = "read"
        /\ Len(ran[t]) <= 2
        /\ pc[t] # "run" => Len(ran[t]) <= 1
        /\ Len(ran[t]) = 1 /\ Pooled /\ pc[t] \notin {"lock", "remove", "run"} => ran[t][1] < entry.drv
    /\ retry[t] \/ pc[t] = "policy" => op[t] = "read"
    /\ pc[t] \in {"policy", "get", "run"} => job[t] \in {"ensure", "reconnect"}
    /\ pc[t] = "run" => ran[t] # <<>>
    /\ Len(ran[t]) = 2 => ran[t][1] < ran[t][2]

RunInv == \A t \in Task : RunFor(t)

IInv == TypeOK /\ LockInv /\ ArcInv /\ TakenInv /\ EmptyInv /\ RunInv

-----------------------------------------------------------------------------
\* A field of an entry is updated in place.
LEMMA EntryUpdate ==
    ASSUME NEW e \in Entry
    PROVE  /\ \A b \in BOOLEAN : [e EXCEPT !.idle = b] \in Entry
           /\ \A s \in Status : [e EXCEPT !.status = s] \in Entry
           /\ \A b \in BOOLEAN : [e EXCEPT !.idle = b].drv = e.drv
           /\ \A s \in Status : [e EXCEPT !.status = s].drv = e.drv
           /\ e.drv \in 0..MaxDrivers
           /\ NoEntry.drv = 0
BY DEF Entry, NoEntry

LEMMA Incremented ==
    ASSUME NEW f \in [Driver -> Nat], NEW d
    PROVE  [f EXCEPT ![d] = @ + 1] \in [Driver -> Nat]
<1>1. CASE d \in Driver
  BY <1>1
<1>2. CASE d \notin Driver
  BY <1>2
<1> QED
  BY <1>1, <1>2

\* What appending does to a record of runs.
LEMMA Appended ==
    ASSUME NEW s \in Seq(Driver), NEW d \in Driver
    PROVE  /\ Append(s, d) # <<>>
           /\ Len(s) \in Nat /\ Len(Append(s, d)) = Len(s) + 1
           /\ \A i \in 1..Len(s) : Append(s, d)[i] = s[i]
           /\ Append(s, d)[Len(s) + 1] = d
<1>1. Len(s) \in Nat /\ Len(Append(s, d)) = Len(s) + 1
  OBVIOUS
<1>2. Append(s, d) # <<>>
  BY <1>1
<1> QED
  BY <1>1, <1>2

LEMMA InitTypeOK == Init => TypeOK
BY PoolAssumption DEF Init, TypeOK, Entry, NoEntry, Driver, Status, Stage, Job

\* What the end of a call leaves of its locals.
LocalsOK ==
    /\ pc \in [Task -> Stage]
    /\ job \in [Task -> Job]
    /\ op \in [Task -> {"none", "read", "write"}]
    /\ ok \in [Task -> BOOLEAN]
    /\ retry \in [Task -> BOOLEAN]
    /\ cfg \in [Task -> Config \cup {NoRow}]
    /\ ran \in [Task -> Seq(Driver)]

LEMMA ReturnTypes ==
    ASSUME TypeOK, NEW t \in Task, Return(t)
    PROVE  LocalsOK'
<1>1. <<>> \in Seq(Driver)
  OBVIOUS
<1> QED
  BY <1>1 DEF TypeOK, LocalsOK, Return, Stage, Job

LEMMA OperationFailsTypes ==
    ASSUME TypeOK, NEW t \in Task, OperationFails(t)
    PROVE  LocalsOK'
<1>1. CASE AfterError(t) = "none"
  BY <1>1, ReturnTypes DEF OperationFails
<1>2. CASE AfterError(t) # "none"
  BY <1>2 DEF OperationFails, AfterError, Goto, TypeOK, LocalsOK, Stage, Job
<1> QED
  BY <1>1, <1>2

\* Every step keeps the types.
LEMMA NextTypeOK ==
    ASSUME TypeOK, [Next]_vars
    PROVE  TypeOK'
<1> USE PoolAssumption DEF TypeOK, LocalsOK, Goto, locals, world
<1>e. NoEntry \in Entry /\ NoEntry.drv = 0
  BY DEF NoEntry, Entry, Status
<1>d. entry.drv \in 0..MaxDrivers /\ entry.cfg \in Config \cup {NoRow}
  BY DEF Entry
<1>1. ASSUME NEW t \in Task, Call(t)
      PROVE  TypeOK'
  <2>1. CASE CallHealth(t)
    BY <2>1 DEF CallHealth, Stage, Job, Entry
  <2>2. ASSUME NEW j \in Job, NEW o \in {"none", "read", "write"}, AskLock(t, j, o)
        PROVE  TypeOK'
    BY <2>2 DEF AskLock, Stage
  <2> QED
    BY <1>1, <2>1, <2>2
    DEF Job, Call, CallConnect, CallDisconnect, CallRead, CallWrite, CallDelete
<1>2. ASSUME NEW t \in Task, Lock(t)
      PROVE  TypeOK'
  BY <1>2 DEF Lock, AfterLock, Stage
<1>3. ASSUME NEW t \in Task, Continue(t)
      PROVE  TypeOK'
  <2>1. CASE Recheck(t)
    BY <2>1, EntryUpdate, ZenonT(30) DEF Recheck, Stage
  <2>2. CASE EndSection(t)
    <3>1. CASE op[t] # "none" /\ ok[t]
      BY <2>2, <3>1 DEF EndSection, AfterSection, Stage
    <3>2. CASE ~(op[t] # "none" /\ ok[t])
      BY <2>2, <3>2, ReturnTypes DEF EndSection
    <3> QED
      BY <3>1, <3>2
  <2>3. CASE DeleteRow(t)
    BY <2>3 DEF DeleteRow, Fail, Stage
  <2>4. CASE Remove(t)
    <3>1. CASE Pooled
      BY <2>4, <3>1, <1>e, <1>d DEF Remove, Stage
    <3>2. CASE ~Pooled
      BY <2>4, <3>2 DEF Remove, AfterRemove, Stage
    <3> QED
      BY <3>1, <3>2
  <2>5. CASE Shutdown(t)
    <3>1. shut' \in [Driver -> Nat]
      BY <2>5, Incremented DEF Shutdown
    <3>2. taken' \in [Task \cup {Reaper} -> 0..MaxDrivers]
      BY <2>5 DEF Shutdown
    <3>3. pc' \in [Task -> Stage]
      BY <2>5 DEF Shutdown, AfterRemove, Stage
    <3> QED
      BY <2>5, <3>1, <3>2, <3>3 DEF Shutdown
  <2>6. CASE ReadConfig(t)
    <3>1. CASE row # NoRow /\ cfg' = [cfg EXCEPT ![t] = row] /\ Goto(t, "mark") /\ UNCHANGED ok
      BY <2>6, <3>1 DEF ReadConfig, Stage
    <3>2. CASE Fail(t) /\ UNCHANGED cfg
      BY <2>6, <3>2 DEF ReadConfig, Fail, Stage
    <3> QED
      BY <2>6, <3>1, <3>2 DEF ReadConfig
  <2>7. CASE Mark(t)
    BY <2>7, ZenonT(30) DEF Mark, Stage, Entry, Status
  <2>8. CASE CreateDriver(t)
    BY <2>8, SMTT(30) DEF CreateDriver, Stage
  <2>9. CASE CreateFails(t)
    BY <2>9 DEF CreateFails, Fail, Stage
  <2>10. CASE TestFails(t)
    BY <2>10 DEF TestFails, Fail, Stage
  <2>11. ASSUME NEW success \in BOOLEAN, InsertEntry(t, success)
         PROVE  TypeOK'
    <3>1. pooled' \in SUBSET (0..MaxDrivers)
      <4>1. pooled' = pooled \cup {arc[t]} /\ arc[t] \in 0..MaxDrivers
        BY <2>11 DEF InsertEntry
      <4> QED
        BY <4>1
    <3>2. entry' \in Entry
      BY <2>11 DEF InsertEntry, Entry, Status
    <3>3. taken' \in [Task \cup {Reaper} -> 0..MaxDrivers] /\ pc' \in [Task -> Stage]
      BY <2>11, <1>d DEF InsertEntry, Stage
    <3> QED
      BY <2>11, <3>1, <3>2, <3>3, SMTT(30) DEF InsertEntry
  <2>12. CASE ReadPolicy(t)
    BY <2>12 DEF ReadPolicy, Stage
  <2>13. CASE GetDriver(t)
    <3>1. CASE Pooled
      <4>1. ran' = [ran EXCEPT ![t] = Append(@, entry.drv)] /\ entry.drv \in Driver
        BY <2>13, <3>1 DEF GetDriver, Pooled, Entry, Driver
      <4>2. ran' \in [Task -> Seq(Driver)]
        BY <4>1
      <4> QED
        <5>1. entry' \in Entry
          BY <2>13, <3>1, EntryUpdate DEF GetDriver
        <5>2. arc' \in [Task -> 0..MaxDrivers]
          BY <2>13, <3>1, <1>d DEF GetDriver
        <5>3. pc' \in [Task -> Stage]
          <6>1. pc' = [pc EXCEPT ![t] = "run"]
            BY <2>13, <3>1 DEF GetDriver
          <6> QED
            BY <6>1 DEF Stage
        <5>4. UNCHANGED <<job, op, ok, retry, cfg, row, lock, taken, next, pooled, shut>>
          BY <2>13, <3>1 DEF GetDriver
        <5> QED
          BY <4>2, <5>1, <5>2, <5>3, <5>4
    <3>2. CASE ~Pooled
      BY <2>13, <3>2, OperationFailsTypes DEF GetDriver
    <3> QED
      BY <3>1, <3>2
  <2>14. CASE RunEnds(t)
    <3>1. LocalsOK'
      <4>1. Return(t) \/ OperationFails(t)
        BY <2>14 DEF RunEnds
      <4>2. CASE Return(t)
        BY <4>2, ReturnTypes
      <4>3. CASE OperationFails(t)
        BY <4>3, OperationFailsTypes
      <4> QED
        BY <4>1, <4>2, <4>3
    <3>2. arc' \in [Task -> 0..MaxDrivers] /\ UNCHANGED <<row, lock, entry, taken, next, pooled, shut>>
      BY <2>14 DEF RunEnds
    <3> QED
      BY <3>1, <3>2
  <2>15. CASE HealthEnds(t)
    <3>1. entry' \in Entry
      <4>1. CASE UNCHANGED entry
        BY <4>1
      <4>2. ASSUME NEW s \in {"connected", "disconnected"},
                   entry' = IF Pooled THEN [entry EXCEPT !.status = s] ELSE entry
            PROVE  entry' \in Entry
        BY <4>2, EntryUpdate DEF Status
      <4> QED
        BY <2>15, <4>1, <4>2 DEF HealthEnds
    <3>2. LocalsOK'
      BY <2>15, ReturnTypes DEF HealthEnds
    <3>3. arc' \in [Task -> 0..MaxDrivers] /\ UNCHANGED <<row, lock, taken, next, pooled, shut>>
      BY <2>15 DEF HealthEnds
    <3> QED
      BY <3>1, <3>2, <3>3
  <2> QED
    BY <1>3, <2>1, <2>2, <2>3, <2>4, <2>5, <2>6, <2>7, <2>8, <2>9, <2>10, <2>11,
       <2>12, <2>13, <2>14, <2>15 DEF Continue
<1>4. ASSUME NEW c \in Config, EditRow(c)
      PROVE  TypeOK'
  BY <1>4 DEF EditRow
<1>5. CASE GrowIdle
  BY <1>5, EntryUpdate DEF GrowIdle
<1>6. CASE TakeIdle
  <2>1. CASE InUse
    BY <1>6, <2>1, EntryUpdate, ZenonT(30) DEF TakeIdle
  <2>2. CASE ~InUse
    BY <1>6, <2>2, <1>e, <1>d DEF TakeIdle
  <2> QED
    BY <2>1, <2>2
<1>7. CASE ReaperShutdown
  BY <1>7, Incremented DEF ReaperShutdown
<1>8. CASE UNCHANGED vars
  BY <1>8 DEF vars
<1> QED
  BY <1>1, <1>2, <1>3, <1>4, <1>5, <1>6, <1>7, <1>8 DEF Next, Reap

\* Every variable of the pool keeps its type.
THEOREM TypeCorrect == Spec => []TypeOK
<1>1. TypeOK /\ [Next]_vars => TypeOK'
  BY NextTypeOK
<1> QED
  BY InitTypeOK, <1>1, PTL DEF Spec

-----------------------------------------------------------------------------
(* The inductive invariant. *)

LEMMA InitIInv == Init => IInv
<1> SUFFICES ASSUME Init PROVE IInv
  OBVIOUS
<1>1. TypeOK
  BY InitTypeOK
<1>2. LockInv
  BY PoolAssumption DEF Init, LockInv, Locked
<1>3. ArcInv
  BY DEF Init, ArcInv, NoEntry
<1>4. TakenInv
  BY DEF Init, TakenInv, ClosedOnce, ReaperSparesInUse
<1>5. EmptyInv
  BY DEF Init, EmptyInv, EmptyFor, DeletedStaysGone, Pooled, NoEntry
<1>6. RunInv
  <2>1. ASSUME NEW t \in Task
        PROVE  ran[t] = <<>> /\ Len(ran[t]) = 0 /\ job[t] = "none" /\ pc[t] = "idle" /\ ~retry[t]
    BY DEF Init
  <2>2. \A t \in Task : \A i \in 1..Len(ran[t]) : ran[t][i] \in pooled
    BY <2>1
  <2>3. \A t \in Task : Len(ran[t]) <= 1 /\ Len(ran[t]) # 2 /\ Len(ran[t]) # 1
    <3>1. \A n : n = 0 => n <= 1 /\ n # 2 /\ n # 1
      OBVIOUS
    <3>2. \A t \in Task : Len(ran[t]) = 0
      BY <2>1, Zenon
    <3> QED
      BY <3>1, <3>2, Zenon
  <2>4. \A t \in Task : job[t] = "none" /\ ran[t] = <<>> /\ ~retry[t] /\ pc[t] = "idle"
    BY <2>1
  <2> QED
    BY <2>2, <2>3, <2>4, Zenon DEF RunInv, RunFor
<1> QED
  BY <1>1, <1>2, <1>3, <1>4, <1>5, <1>6 DEF IInv

\* The lock is taken only when it is free and given back by its holder.
LEMMA NextLockInv ==
    ASSUME IInv, [Next]_vars
    PROVE  LockInv'
<1> USE PoolAssumption DEF IInv, TypeOK, LockInv, Locked, Goto, locals, world
<1>1. ASSUME NEW t \in Task, Call(t)
      PROVE  LockInv'
  BY <1>1 DEF Call, CallConnect, CallDisconnect, CallRead, CallWrite, CallDelete, AskLock, CallHealth
<1>2. ASSUME NEW t \in Task, Lock(t)
      PROVE  LockInv'
  BY <1>2 DEF Lock, AfterLock
<1>3. ASSUME NEW t \in Task, Continue(t)
      PROVE  LockInv'
  <2>1. CASE Recheck(t)
    BY <2>1 DEF Recheck
  <2>2. CASE EndSection(t)
    BY <2>2 DEF EndSection, AfterSection, Return
  <2>3. CASE DeleteRow(t)
    <3>1. \A u \in Task \ {t} : pc[u] \notin Locked
      BY <2>3 DEF DeleteRow
    <3>2. \A u \in Task \ {t} : pc'[u] = pc[u]
      BY <2>3 DEF DeleteRow, Fail
    <3>3. pc'[t] \in {"remove", "end"} /\ job[t] = "delete" /\ cfg[t] = NoRow
      BY <2>3 DEF DeleteRow, Fail
    <3> QED
      BY <2>3, <3>1, <3>2, <3>3 DEF DeleteRow
  <2>4. CASE Remove(t)
    BY <2>4 DEF Remove, AfterRemove
  <2>5. CASE Shutdown(t)
    BY <2>5 DEF Shutdown, AfterRemove
  <2>6. CASE ReadConfig(t)
    BY <2>6 DEF ReadConfig, Fail
  <2>7. CASE Mark(t)
    BY <2>7 DEF Mark
  <2>8. CASE CreateDriver(t)
    BY <2>8 DEF CreateDriver
  <2>9. CASE CreateFails(t)
    BY <2>9 DEF CreateFails, Fail
  <2>10. CASE TestFails(t)
    BY <2>10 DEF TestFails, Fail
  <2>11. ASSUME NEW success \in BOOLEAN, InsertEntry(t, success)
         PROVE  LockInv'
    BY <2>11 DEF InsertEntry
  <2>12. CASE ReadPolicy(t)
    BY <2>12 DEF ReadPolicy
  <2>13. CASE GetDriver(t)
    BY <2>13 DEF GetDriver, OperationFails, AfterError, Return
  <2>14. CASE RunEnds(t)
    BY <2>14 DEF RunEnds, OperationFails, AfterError, Return
  <2>15. CASE HealthEnds(t)
    BY <2>15 DEF HealthEnds, Return
  <2> QED
    BY <1>3, <2>1, <2>2, <2>3, <2>4, <2>5, <2>6, <2>7, <2>8, <2>9, <2>10, <2>11,
       <2>12, <2>13, <2>14, <2>15 DEF Continue
<1>4. ASSUME NEW c \in Config, EditRow(c)
      PROVE  LockInv'
  BY <1>4 DEF EditRow
<1>5. CASE GrowIdle
  BY <1>5 DEF GrowIdle
<1>6. CASE TakeIdle
  BY <1>6 DEF TakeIdle
<1>7. CASE ReaperShutdown
  BY <1>7 DEF ReaperShutdown
<1>8. CASE UNCHANGED vars
  BY <1>8 DEF vars
<1> QED
  BY <1>1, <1>2, <1>3, <1>4, <1>5, <1>6, <1>7, <1>8 DEF Next, Reap

\* A step of one of the calls, the environment or the reaper leaves a driver
\* where the bookkeeping says it is.
LEMMA NextArcInv ==
    ASSUME IInv, [Next]_vars
    PROVE  ArcInv'
<1> USE PoolAssumption DEF IInv, TypeOK, ArcInv, Goto, locals, world, Driver
<1>e. /\ \A x \in BOOLEAN : [entry EXCEPT !.idle = x].drv = entry.drv
      /\ \A x \in Status : [entry EXCEPT !.status = x].drv = entry.drv
      /\ NoEntry.drv = 0
  BY EntryUpdate
<1>1. ASSUME NEW t \in Task, Call(t)
      PROVE  ArcInv'
  BY <1>1, ZenonT(30) DEF Call, CallConnect, CallDisconnect, CallRead, CallWrite, CallDelete, AskLock, CallHealth, Pooled
<1>2. ASSUME NEW t \in Task, Lock(t)
      PROVE  ArcInv'
  BY <1>2 DEF Lock, AfterLock
<1>3. ASSUME NEW t \in Task, Continue(t)
      PROVE  ArcInv'
  <2>1. CASE Recheck(t)
    BY <2>1, <1>e, ZenonT(30) DEF Recheck
  <2>2. CASE EndSection(t)
    <3>1. pc'[t] \in {"idle", "policy", "get"} /\ \A u \in Task \ {t} : pc'[u] = pc[u]
      BY <2>2 DEF EndSection, AfterSection, Return
    <3> QED
      BY <2>2, <3>1 DEF EndSection
  <2>3. CASE DeleteRow(t)
    BY <2>3, SMTT(30) DEF DeleteRow, Fail
  <2>4. CASE Remove(t)
    BY <2>4, <1>e DEF Remove, AfterRemove
  <2>5. CASE Shutdown(t)
    BY <2>5 DEF Shutdown, AfterRemove
  <2>6. CASE ReadConfig(t)
    BY <2>6 DEF ReadConfig, Fail
  <2>7. CASE Mark(t)
    BY <2>7, <1>e DEF Mark, Status
  <2>8. CASE CreateDriver(t)
    BY <2>8 DEF CreateDriver, LockInv, Locked
  <2>9. CASE CreateFails(t)
    BY <2>9 DEF CreateFails, Fail
  <2>10. CASE TestFails(t)
    BY <2>10 DEF TestFails, Fail
  <2>11. ASSUME NEW success \in BOOLEAN, InsertEntry(t, success)
         PROVE  ArcInv'
    <3>1. arc[t] = next /\ next \in Driver \ pooled
      BY <2>11 DEF InsertEntry
    <3>2. \A u \in Task \ {t} : pc[u] # "test" /\ pc'[u] = pc[u] /\ arc'[u] = arc[u]
      BY <2>11 DEF InsertEntry, LockInv, Locked
    <3>3. entry'.drv = next /\ pooled' = pooled \cup {next} /\ next' = next
      BY <2>11, <3>1 DEF InsertEntry
    <3>4. arc'[t] = 0 /\ pc'[t] \in {"shutdown", "end"}
      BY <2>11 DEF InsertEntry
    <3>5. ArcInv!1' /\ ArcInv!2'
      BY <3>1, <3>3
    <3>6. ASSUME NEW u \in Task \ {t}
          PROVE  /\ pc'[u] # "test"
                 /\ pc'[u] \in {"run", "health"} => arc'[u] \in pooled'
                 /\ pc'[u] \notin {"run", "health"} => arc'[u] = 0
      BY <3>2, <3>3
    <3> QED
      BY <3>4, <3>5, <3>6
  <2>12. CASE ReadPolicy(t)
    BY <2>12 DEF ReadPolicy
  <2>13. CASE GetDriver(t)
    <3>1. CASE Pooled
      BY <2>13, <3>1, <1>e, ZenonT(30) DEF GetDriver, Pooled
    <3>2. CASE ~Pooled
      BY <2>13, <3>2, SMTT(30) DEF GetDriver, OperationFails, AfterError, Return
    <3> QED
      BY <3>1, <3>2
  <2>14. CASE RunEnds(t)
    BY <2>14, SMTT(30) DEF RunEnds, OperationFails, AfterError, Return
  <2>15. CASE HealthEnds(t)
    BY <2>15, <1>e DEF Status, HealthEnds, Return
  <2> QED
    BY <1>3, <2>1, <2>2, <2>3, <2>4, <2>5, <2>6, <2>7, <2>8, <2>9, <2>10, <2>11,
       <2>12, <2>13, <2>14, <2>15 DEF Continue
<1>4. ASSUME NEW c \in Config, EditRow(c)
      PROVE  ArcInv'
  BY <1>4 DEF EditRow
<1>5. CASE GrowIdle
  BY <1>5, <1>e DEF GrowIdle
<1>6. CASE TakeIdle
  BY <1>6, <1>e DEF TakeIdle
<1>7. CASE ReaperShutdown
  BY <1>7 DEF ReaperShutdown
<1>8. CASE UNCHANGED vars
  BY <1>8 DEF vars
<1> QED
  BY <1>1, <1>2, <1>3, <1>4, <1>5, <1>6, <1>7, <1>8 DEF Next, Reap

-----------------------------------------------------------------------------
\* A step that moves no entry keeps TakenInv if it clones no Arc but the
\* pooled one or one that was never pooled.
LEMMA TakenKept ==
    ASSUME IInv, UNCHANGED <<taken, pooled, shut>>, entry'.drv = entry.drv,
           \A u \in Task : pc'[u] = "shutdown" <=> pc[u] = "shutdown",
           \A u \in Task : arc'[u] \in {arc[u], 0, entry.drv} \/ arc'[u] \notin pooled
    PROVE  TakenInv'
<1>1. ClosedOnce'
  BY DEF IInv, TakenInv, ClosedOnce
<1>2. ReaperSparesInUse'
  BY DEF IInv, TakenInv, ClosedOnce, ReaperSparesInUse
<1> QED
  BY <1>1, <1>2 DEF IInv, TakenInv

\* The pooled entry goes to whoever removes or replaces it.
LEMMA ClosedOnceTaking ==
    ASSUME IInv, NEW x \in Task \cup {Reaper}, taken[x] = 0, Pooled,
           taken' = [taken EXCEPT ![x] = entry.drv], shut' = shut,
           \/ entry'.drv = 0 /\ pooled' = pooled
           \/ entry'.drv \in Driver \ pooled /\ pooled' = pooled \cup {entry'.drv}
    PROVE  ClosedOnce'
<1> USE DEF IInv, TypeOK, ArcInv, TakenInv, Driver
<1>d. PICK d \in pooled : d = entry.drv
  BY DEF Pooled
<1>n. PICK n \in 0..MaxDrivers : n = entry'.drv
  BY DEF Driver
<1>1. shut[d] = 0 /\ \A y \in Task \cup {Reaper} : taken[y] # d
  BY <1>d DEF ClosedOnce
<1>2. /\ taken'[x] = d
      /\ \A y \in Task \cup {Reaper} : y # x => taken'[y] = taken[y]
  BY <1>d
<1>3. n # d /\ (n # 0 => \A y \in Task \cup {Reaper} : taken'[y] # n)
  BY <1>1, <1>2, <1>d, <1>n
<1>4. pooled' \subseteq pooled \cup {n} /\ 0 \notin pooled
  BY <1>n
<1>5. n # 0 => shut[n] = 0 /\ pooled' = pooled \cup {n}
  BY <1>n
<1>6. n = 0 => pooled' = pooled
  BY <1>n DEF Driver
<1>7. ASSUME NEW e \in pooled \ {d}
      PROVE  ClosedOnce!(e)'
  BY <1>1, <1>2, <1>3, <1>7, <1>d, <1>n DEF ClosedOnce
<1>8. ClosedOnce!(d)'
  BY <1>1, <1>2, <1>3, <1>n
<1>9. n # 0 => ClosedOnce!(n)'
  BY <1>3, <1>5, <1>n
<1> QED
  BY <1>4, <1>5, <1>6, <1>7, <1>8, <1>9 DEF ClosedOnce

\* Whoever holds a removed entry shuts it down.
LEMMA ClosedOnceShutting ==
    ASSUME IInv, NEW x \in Task \cup {Reaper}, taken[x] # 0,
           shut' = [shut EXCEPT ![taken[x]] = @ + 1],
           taken' = [taken EXCEPT ![x] = 0],
           pooled' = pooled, entry'.drv = entry.drv
    PROVE  ClosedOnce'
<1> USE DEF IInv, TypeOK, ArcInv, TakenInv, Driver
<1>d. PICK d \in pooled : d = taken[x]
  OBVIOUS
<1>1. /\ d \in Driver /\ shut[d] = 0 /\ entry.drv # d
      /\ \A y \in Task \cup {Reaper} : y # x => taken[y] # d
  BY <1>d DEF ClosedOnce
<1>2. shut'[d] = 1 /\ \A e \in Driver : e # d => shut'[e] = shut[e]
  BY <1>1, <1>d
<1>3. taken'[x] = 0 /\ \A y \in Task \cup {Reaper} : y # x => taken'[y] = taken[y]
  OBVIOUS
<1>4. pooled \subseteq Driver /\ 0 \notin pooled
  OBVIOUS
<1>5. ASSUME NEW e \in pooled, e # d
      PROVE  ClosedOnce!(e)'
  BY <1>2, <1>3, <1>4, <1>5 DEF ClosedOnce
<1>6. ClosedOnce!(d)'
  BY <1>1, <1>2, <1>3, <1>4
<1> QED
  BY <1>5, <1>6 DEF ClosedOnce

\* An entry that left the map has one holder until it is shut down.
LEMMA NextTakenInv ==
    ASSUME IInv, [Next]_vars
    PROVE  TakenInv'
<1> USE PoolAssumption DEF IInv, TypeOK, Goto, locals, world
<1>e. /\ \A x \in BOOLEAN : [entry EXCEPT !.idle = x].drv = entry.drv
      /\ \A x \in Status : [entry EXCEPT !.status = x].drv = entry.drv
      /\ NoEntry.drv = 0
      /\ entry.drv \in 0..MaxDrivers
  BY EntryUpdate
<1>1. ASSUME NEW t \in Task, Call(t)
      PROVE  TakenInv'
  <2>1. CASE CallHealth(t)
    BY <2>1, TakenKept DEF CallHealth
  <2>2. ASSUME NEW j, NEW o, AskLock(t, j, o)
        PROVE  TakenInv'
    BY <2>2, TakenKept DEF AskLock
  <2> QED
    BY <1>1, <2>1, <2>2 DEF Call, CallConnect, CallDisconnect, CallRead, CallWrite, CallDelete
<1>2. ASSUME NEW t \in Task, Lock(t)
      PROVE  TakenInv'
  BY <1>2, TakenKept DEF Lock, AfterLock
<1>3. ASSUME NEW t \in Task, Continue(t)
      PROVE  TakenInv'
  <2>1. CASE Recheck(t)
    BY <2>1, <1>e, TakenKept DEF Recheck
  <2>2. CASE EndSection(t)
    BY <2>2, TakenKept, SMTT(30) DEF EndSection, AfterSection, Return
  <2>3. CASE DeleteRow(t)
    BY <2>3, TakenKept DEF DeleteRow, Fail
  <2>4. CASE Remove(t)
    <3>1. CASE ~Pooled
      BY <2>4, <3>1, TakenKept DEF Remove, AfterRemove
    <3>2. CASE Pooled
      <4>1. taken[t] = 0 /\ entry'.drv = 0 /\ UNCHANGED <<arc, pooled, shut>>
        BY <2>4, <3>2, <1>e DEF Remove, TakenInv
      <4>2. taken' = [taken EXCEPT ![t] = entry.drv] /\ pc' = [pc EXCEPT ![t] = "shutdown"]
        BY <2>4, <3>2 DEF Remove
      <4>3. ClosedOnce'
        BY <4>1, <4>2, <3>2, ClosedOnceTaking
      <4>4. ReaperSparesInUse'
        BY <4>1, <4>2 DEF TakenInv, ReaperSparesInUse
      <4>5. entry.drv \in pooled /\ entry.drv # 0
        BY <3>2 DEF Pooled, ArcInv
      <4> QED
        BY <4>1, <4>2, <4>3, <4>4, <4>5 DEF TakenInv
    <3> QED
      BY <3>1, <3>2
  <2>5. CASE Shutdown(t)
    <3>1. taken[t] # 0 /\ UNCHANGED <<arc, pooled, entry>>
      BY <2>5 DEF Shutdown, TakenInv
    <3>2. taken' = [taken EXCEPT ![t] = 0] /\ shut' = [shut EXCEPT ![taken[t]] = @ + 1]
      BY <2>5 DEF Shutdown
    <3>3. ClosedOnce'
      BY <3>1, <3>2, ClosedOnceShutting
    <3>4. pc'[t] # "shutdown" /\ \A u \in Task \ {t} : pc'[u] = pc[u]
      BY <2>5 DEF Shutdown, AfterRemove
    <3>5. ReaperSparesInUse'
      BY <3>1, <3>2 DEF TakenInv, ReaperSparesInUse
    <3>6. taken[t] \in pooled
      BY <3>1 DEF TakenInv
    <3> QED
      BY <3>1, <3>2, <3>3, <3>4, <3>5, <3>6 DEF TakenInv
  <2>6. CASE ReadConfig(t)
    BY <2>6, TakenKept DEF ReadConfig, Fail
  <2>7. CASE Mark(t)
    BY <2>7, <1>e, TakenKept DEF Mark, Status
  <2>8. CASE CreateDriver(t)
    <3>1. next + 1 \notin pooled
      BY DEF ArcInv
    <3> QED
      BY <2>8, <3>1, TakenKept DEF CreateDriver
  <2>9. CASE CreateFails(t)
    BY <2>9, TakenKept DEF CreateFails, Fail
  <2>10. CASE TestFails(t)
    BY <2>10, TakenKept DEF TestFails, Fail
  <2>11. ASSUME NEW success \in BOOLEAN, InsertEntry(t, success)
         PROVE  TakenInv'
    <3>1. entry'.drv \in Driver \ pooled /\ pooled' = pooled \cup {entry'.drv} /\ shut' = shut
      BY <2>11 DEF InsertEntry, ArcInv
    <3>2. taken[t] = 0 /\ arc' = [arc EXCEPT ![t] = 0] /\ shut[entry'.drv] = 0
      BY <2>11, <3>1 DEF InsertEntry, TakenInv
    <3>3. CASE Pooled
      <4>1. taken' = [taken EXCEPT ![t] = entry.drv] /\ pc' = [pc EXCEPT ![t] = "shutdown"]
        BY <2>11, <3>3 DEF InsertEntry
      <4>2. ClosedOnce'
        BY <3>1, <3>2, <3>3, <4>1, ClosedOnceTaking
      <4>3. ReaperSparesInUse'
        BY <3>2, <4>1 DEF TakenInv, ReaperSparesInUse
      <4>4. entry.drv \in pooled /\ entry.drv # 0
        BY <3>3 DEF Pooled, ArcInv
      <4> QED
        BY <3>1, <3>2, <4>1, <4>2, <4>3, <4>4 DEF TakenInv
    <3>4. CASE ~Pooled
      <4>1. taken' = taken /\ pc' = [pc EXCEPT ![t] = "end"] /\ pc[t] = "test"
        BY <2>11, <3>4 DEF InsertEntry
      <4>2. \A x \in Task \cup {Reaper} : taken[x] # entry'.drv
        BY <3>1 DEF TakenInv, Driver
      <4>3. ClosedOnce'
        BY <3>1, <3>2, <3>4, <4>1, <4>2 DEF TakenInv, ClosedOnce, ArcInv, Driver, Pooled
      <4>4. ReaperSparesInUse'
        BY <3>2, <4>1 DEF TakenInv, ReaperSparesInUse
      <4> QED
        BY <3>1, <3>2, <4>1, <4>3, <4>4 DEF TakenInv
    <3> QED
      BY <3>3, <3>4
  <2>12. CASE ReadPolicy(t)
    BY <2>12, TakenKept DEF ReadPolicy
  <2>13. CASE GetDriver(t)
    <3>1. CASE Pooled
      BY <2>13, <3>1, <1>e, TakenKept DEF GetDriver
    <3>2. CASE ~Pooled
      BY <2>13, <3>2, TakenKept DEF GetDriver, OperationFails, Return
    <3> QED
      BY <3>1, <3>2
  <2>14. CASE RunEnds(t)
    BY <2>14, TakenKept, SMTT(30) DEF RunEnds, OperationFails, Return
  <2>15. CASE HealthEnds(t)
    <3>1. entry'.drv = entry.drv
      BY <2>15, <1>e DEF HealthEnds, Status
    <3> QED
      BY <2>15, <3>1, TakenKept DEF HealthEnds, Return
  <2> QED
    BY <1>3, <2>1, <2>2, <2>3, <2>4, <2>5, <2>6, <2>7, <2>8, <2>9, <2>10, <2>11,
       <2>12, <2>13, <2>14, <2>15 DEF Continue
<1>4. ASSUME NEW c \in Config, EditRow(c)
      PROVE  TakenInv'
  BY <1>4, TakenKept DEF EditRow
<1>5. CASE GrowIdle
  BY <1>5, <1>e, TakenKept DEF GrowIdle
<1>6. CASE TakeIdle
  <2>1. CASE InUse
    BY <1>6, <2>1, <1>e, TakenKept DEF TakeIdle
  <2>2. CASE ~InUse
    <3>1. /\ taken[Reaper] = 0 /\ Pooled /\ entry'.drv = 0
          /\ taken' = [taken EXCEPT ![Reaper] = entry.drv] /\ UNCHANGED <<pc, arc, pooled, shut>>
      BY <1>6, <2>2, <1>e DEF TakeIdle
    <3>2. ClosedOnce'
      BY <3>1, ClosedOnceTaking
    <3>3. ReaperSparesInUse'
      BY <2>2, <3>1 DEF InUse, ReaperSparesInUse
    <3>4. entry.drv \in pooled
      BY <3>1 DEF Pooled, ArcInv
    <3> QED
      BY <3>1, <3>2, <3>3, <3>4 DEF TakenInv
  <2> QED
    BY <2>1, <2>2
<1>7. CASE ReaperShutdown
  <2>1. /\ taken[Reaper] # 0 /\ taken' = [taken EXCEPT ![Reaper] = 0]
        /\ shut' = [shut EXCEPT ![taken[Reaper]] = @ + 1] /\ UNCHANGED <<pc, arc, pooled, entry>>
    BY <1>7 DEF ReaperShutdown
  <2>2. ClosedOnce'
    BY <2>1, ClosedOnceShutting
  <2>3. ReaperSparesInUse'
    BY <2>1 DEF ReaperSparesInUse
  <2> QED
    BY <2>1, <2>2, <2>3 DEF TakenInv
<1>8. CASE UNCHANGED vars
  BY <1>8, TakenKept DEF vars
<1> QED
  BY <1>1, <1>2, <1>3, <1>4, <1>5, <1>6, <1>7, <1>8 DEF Next, Reap

\* A step that leaves the slot and the row alone concerns one task at most.
LEMMA EmptyKept ==
    ASSUME IInv, NEW t \in Task, row' = row, entry'.drv = entry.drv,
           \A u \in Task \ {t} :
               pc'[u] = pc[u] /\ job'[u] = job[u] /\ ok'[u] = ok[u] /\ cfg'[u] = cfg[u],
           job[t] # "delete" \/ pc[t] # "remove",
           EmptyFor(t)'
    PROVE  EmptyInv'
<1>1. Pooled' = Pooled
  BY DEF Pooled
<1>2. DeletedStaysGone'
  BY <1>1 DEF IInv, EmptyInv, DeletedStaysGone
<1>3. \A u \in Task \ {t} : EmptyFor(u)'
  BY <1>1 DEF IInv, EmptyInv, EmptyFor
<1> QED
  BY <1>2, <1>3 DEF EmptyInv

\* Nothing is inserted beside a removal, nor after a deletion.
LEMMA NextEmptyInv ==
    ASSUME IInv, [Next]_vars
    PROVE  EmptyInv'
<1> USE PoolAssumption DEF IInv, TypeOK, Goto, locals, world, Pooled, EmptyInv, EmptyFor,
                           DeletedStaysGone
<1>e. /\ \A x \in BOOLEAN : [entry EXCEPT !.idle = x].drv = entry.drv
      /\ \A x \in Status : [entry EXCEPT !.status = x].drv = entry.drv
      /\ NoEntry.drv = 0
      /\ entry.drv \in 0..MaxDrivers
  BY EntryUpdate
<1>l. \A t, u \in Task : pc[t] \in Locked /\ pc[u] \in Locked => t = u
  BY DEF LockInv
<1>1. ASSUME NEW t \in Task, Call(t)
      PROVE  EmptyInv'
  <2>1. CASE CallHealth(t)
    BY <2>1, EmptyKept DEF CallHealth
  <2>2. ASSUME NEW j, NEW o, AskLock(t, j, o)
        PROVE  EmptyInv'
    BY <2>2, EmptyKept DEF AskLock
  <2> QED
    BY <1>1, <2>1, <2>2 DEF Call, CallConnect, CallDisconnect, CallRead, CallWrite, CallDelete
<1>2. ASSUME NEW t \in Task, Lock(t)
      PROVE  EmptyInv'
  BY <1>2 DEF Lock, AfterLock, LockInv
<1>3. ASSUME NEW t \in Task, Continue(t)
      PROVE  EmptyInv'
  <2>1. CASE Recheck(t)
    BY <2>1, <1>e, SMTT(30) DEF Recheck, LockInv
  <2>2. CASE EndSection(t)
    <3>1. pc[t] = "end" /\ row' = row /\ entry' = entry
      BY <2>2 DEF EndSection
    <3>2. pc'[t] \in {"idle", "policy", "get"}
      BY <2>2 DEF EndSection, AfterSection, Return
    <3>3. \A u \in Task \ {t} :
              pc'[u] = pc[u] /\ job'[u] = job[u] /\ ok'[u] = ok[u] /\ cfg'[u] = cfg[u]
      BY <2>2 DEF EndSection, Return
    <3> QED
      BY <3>1, <3>2, <3>3, EmptyKept
  <2>3. CASE DeleteRow(t)
    <3>1. pc[t] = "deleteRow" /\ job[t] = "delete" /\ entry' = entry /\ job' = job /\ cfg' = cfg
      BY <2>3 DEF DeleteRow, LockInv
    <3>2. CASE Fail(t) /\ UNCHANGED row
      BY <3>1, <3>2, EmptyKept DEF Fail
    <3>3. CASE row' = NoRow /\ pc' = [pc EXCEPT ![t] = "remove"] /\ ok' = ok
      BY <3>1, <3>3
    <3> QED
      BY <2>3, <3>2, <3>3 DEF DeleteRow
  <2>4. CASE Remove(t)
    BY <2>4, <1>e DEF Remove, AfterRemove, LockInv
  <2>5. CASE Shutdown(t)
    <3>1. /\ pc[t] = "shutdown" /\ row' = row /\ entry' = entry /\ job' = job /\ cfg' = cfg /\ ok' = ok
          /\ pc' = [pc EXCEPT ![t] = IF cfg[t] # NoRow THEN "end" ELSE AfterRemove(t)]
      BY <2>5 DEF Shutdown
    <3>2. cfg[t] # NoRow => job[t] \notin {"disconnect", "delete"}
      BY <3>1 DEF LockInv
    <3>3. EmptyFor(t)'
      BY <3>1, <3>2 DEF AfterRemove
    <3> QED
      BY <3>1, <3>3, EmptyKept
  <2>6. CASE ReadConfig(t)
    <3>1. pc[t] = "config" /\ row' = row /\ entry' = entry /\ job' = job
      BY <2>6 DEF ReadConfig
    <3>2. CASE Fail(t) /\ UNCHANGED cfg
      BY <3>1, <3>2, EmptyKept DEF Fail
    <3>3. CASE cfg' = [cfg EXCEPT ![t] = row] /\ pc' = [pc EXCEPT ![t] = "mark"] /\ ok' = ok
      BY <3>1, <3>3, EmptyKept
    <3> QED
      BY <2>6, <3>2, <3>3 DEF ReadConfig
  <2>7. CASE Mark(t)
    BY <2>7, <1>e DEF Mark, Status
  <2>8. CASE CreateDriver(t)
    BY <2>8 DEF CreateDriver
  <2>9. CASE CreateFails(t)
    BY <2>9 DEF CreateFails, Fail
  <2>10. CASE TestFails(t)
    BY <2>10 DEF TestFails, Fail
  <2>11. ASSUME NEW success \in BOOLEAN, InsertEntry(t, success)
         PROVE  EmptyInv'
    <3>1. \A u \in Task \ {t} : pc'[u] = pc[u] /\ pc[u] \notin Locked
      BY <2>11, <1>l DEF InsertEntry, Locked
    <3>2. row' = row /\ row # NoRow /\ cfg' = cfg /\ cfg[t] # NoRow /\ job' = job /\ job[t] \in {"connect", "ensure", "reconnect"}
      BY <2>11 DEF InsertEntry, LockInv
    <3>3. pc'[t] \in {"shutdown", "end"}
      BY <2>11 DEF InsertEntry
    <3> QED
      BY <3>1, <3>2, <3>3 DEF Locked
  <2>12. CASE ReadPolicy(t)
    BY <2>12 DEF ReadPolicy
  <2>13. CASE GetDriver(t)
    <3>1. entry'.drv = entry.drv /\ row' = row /\ pc[t] = "get"
      BY <2>13, <1>e DEF GetDriver
    <3>2. CASE Pooled
      BY <2>13, <3>1, <3>2, EmptyKept, SMTT(30) DEF GetDriver
    <3>3. CASE ~Pooled
      BY <2>13, <3>1, <3>3, EmptyKept DEF GetDriver, OperationFails, Return
    <3> QED
      BY <3>2, <3>3
  <2>14. CASE RunEnds(t)
    <3>1. pc[t] = "run" /\ row' = row /\ entry' = entry
      BY <2>14 DEF RunEnds
    <3>2. CASE Return(t)
      BY <3>1, <3>2, EmptyKept DEF Return
    <3>3. CASE OperationFails(t)
      <4>1. CASE AfterError(t) = "none"
        BY <3>2, <3>3, <4>1 DEF OperationFails
      <4>2. CASE AfterError(t) # "none"
        <5>1. PICK j : job' = [job EXCEPT ![t] = j]
          BY <3>3, <4>2 DEF OperationFails
        <5>2. pc' = [pc EXCEPT ![t] = "lock"] /\ ok' = ok /\ cfg' = cfg
          BY <3>3, <4>2 DEF OperationFails
        <5> QED
          BY <3>1, <5>1, <5>2, EmptyKept
      <4> QED
        BY <4>1, <4>2
    <3> QED
      BY <2>14, <3>2, <3>3 DEF RunEnds
  <2>15. CASE HealthEnds(t)
    <3>1. entry'.drv = entry.drv
      BY <2>15, <1>e DEF HealthEnds, Status
    <3> QED
      BY <2>15, <3>1 DEF HealthEnds, Return
  <2> QED
    BY <1>3, <2>1, <2>2, <2>3, <2>4, <2>5, <2>6, <2>7, <2>8, <2>9, <2>10, <2>11,
       <2>12, <2>13, <2>14, <2>15 DEF Continue
<1>4. ASSUME NEW c \in Config, EditRow(c)
      PROVE  EmptyInv'
  BY <1>4 DEF EditRow
<1>5. CASE GrowIdle
  BY <1>5, <1>e DEF GrowIdle
<1>6. CASE TakeIdle
  BY <1>6, <1>e DEF TakeIdle
<1>7. CASE ReaperShutdown
  BY <1>7 DEF ReaperShutdown
<1>8. CASE UNCHANGED vars
  BY <1>8 DEF vars
<1> QED
  BY <1>1, <1>2, <1>3, <1>4, <1>5, <1>6, <1>7, <1>8 DEF Next, Reap

\* A step of one task disturbs no other task's record: a driver that enters
\* the pool is newer than all before it.
LEMMA RunKept ==
    ASSUME IInv, NEW t \in Task,
           \/ entry'.drv \in {0, entry.drv} /\ pooled' = pooled
           \/ /\ entry'.drv \in Nat
              /\ \A d \in pooled : d < entry'.drv
              /\ pooled' = pooled \cup {entry'.drv},
           \A u \in Task \ {t} :
               pc'[u] = pc[u] /\ job'[u] = job[u] /\ op'[u] = op[u] /\ retry'[u] = retry[u] /\ ran'[u] = ran[u],
           RunFor(t)'
    PROVE  RunInv'
<1>1. ASSUME NEW u \in Task \ {t}
      PROVE  RunFor(u)'
  <2>1. RunFor(u)
    BY DEF IInv, RunInv
  <2>2. \A i \in 1..Len(ran[u]) : ran[u][i] \in pooled'
    BY <2>1 DEF RunFor
  <2>3. Len(ran[u]) = 1 /\ Pooled' /\ entry'.drv # entry.drv => ran[u][1] < entry'.drv
    BY <2>1 DEF RunFor, Pooled
  <2>4. Pooled' /\ entry'.drv = entry.drv => Pooled
    BY DEF Pooled
  <2> QED
    BY <2>1, <2>2, <2>3, <2>4 DEF RunFor
<1> QED
  BY <1>1 DEF RunInv

\* A task moves on without running anything.  A reconnect finds its own, newer
\* connection: it emptied the slot first.
LEMMA RunMoves ==
    ASSUME IInv, NEW t \in Task, NEW s,
           \/ entry'.drv \in {0, entry.drv} /\ pooled' = pooled
           \/ /\ entry'.drv \in Nat
              /\ \A d \in pooled : d < entry'.drv
              /\ pooled' = pooled \cup {entry'.drv},
           pc' = [pc EXCEPT ![t] = s], ran' = ran, op' = op, job' = job,
           \A u \in Task : u # t => retry'[u] = retry[u],
           retry'[t] => op[t] = "read",
           pc[t] # "run", s # "run",
           s \in {"policy", "get"} => job[t] \in {"ensure", "reconnect"},
           s = "policy" => op[t] = "read",
           job[t] = "reconnect" /\ pc[t] \in {"lock", "remove"} => s = "remove" \/ entry'.drv = 0
    PROVE  RunInv'
<1>1. pc'[t] = s
  BY DEF IInv, TypeOK
<1>2. RunFor(t)
  BY DEF IInv, RunInv
<1>3. \A i \in 1..Len(ran[t]) : ran[t][i] \in pooled'
  BY <1>2 DEF RunFor
<1>4. job[t] = "reconnect" /\ Len(ran[t]) = 1 /\ Pooled' /\ s \notin {"lock", "remove", "run"}
        => ran[t][1] < entry'.drv
  <2>1. CASE entry'.drv \in {0, entry.drv}
    BY <1>2, <2>1 DEF RunFor, Pooled
  <2>2. CASE \A d \in pooled : d < entry'.drv
    BY <1>2, <2>2 DEF RunFor
  <2> QED
    BY <2>1, <2>2
<1>5. RunFor(t)'
  BY <1>1, <1>2, <1>3, <1>4 DEF RunFor
<1>6. \A u \in Task \ {t} :
          pc'[u] = pc[u] /\ job'[u] = job[u] /\ op'[u] = op[u] /\ retry'[u] = retry[u] /\ ran'[u] = ran[u]
  BY DEF IInv, TypeOK
<1> QED
  BY <1>5, <1>6, RunKept

\* The call of a task ends.
LEMMA RunReturned ==
    ASSUME TypeOK, NEW t \in Task, Return(t)
    PROVE  /\ RunFor(t)'
           /\ \A u \in Task \ {t} :
                  pc'[u] = pc[u] /\ job'[u] = job[u] /\ op'[u] = op[u] /\ retry'[u] = retry[u] /\ ran'[u] = ran[u]
<1>1. ran'[t] = <<>> /\ Len(ran'[t]) = 0
  BY DEF TypeOK, Return
<1>2. pc'[t] = "idle" /\ job'[t] = "none" /\ ~retry'[t]
  BY DEF TypeOK, Return
<1>3. RunFor(t)'
  BY <1>1, <1>2 DEF RunFor
<1>4. \A u \in Task \ {t} :
          pc'[u] = pc[u] /\ job'[u] = job[u] /\ op'[u] = op[u] /\ retry'[u] = retry[u] /\ ran'[u] = ran[u]
  BY DEF TypeOK, Return
<1> QED
  BY <1>3, <1>4

\* An operation's error: one reconnect, of a read that has not had one.
LEMMA RunFailed ==
    ASSUME IInv, NEW t \in Task, OperationFails(t), pooled' = pooled
    PROVE  /\ RunFor(t)'
           /\ \A u \in Task \ {t} :
                  pc'[u] = pc[u] /\ job'[u] = job[u] /\ op'[u] = op[u] /\ retry'[u] = retry[u] /\ ran'[u] = ran[u]
<1>1. CASE AfterError(t) = "none"
  BY <1>1, RunReturned DEF IInv, OperationFails
<1>2. CASE AfterError(t) # "none"
  <2>1. /\ job[t] = "ensure" /\ retry[t] /\ job' = [job EXCEPT ![t] = "reconnect"]
        /\ pc' = [pc EXCEPT ![t] = "lock"] /\ UNCHANGED <<op, ok, retry, cfg, ran>>
    BY <1>2 DEF OperationFails, AfterError, Goto
  <2>2. RunFor(t)
    BY DEF IInv, RunInv
  <2>3. op[t] = "read" /\ Len(ran[t]) <= 1 /\ \A i \in 1..Len(ran[t]) : ran[t][i] \in pooled
    BY <2>1, <2>2 DEF RunFor
  <2>4. pc'[t] = "lock" /\ job'[t] = "reconnect" /\ op'[t] = "read" /\ ran'[t] = ran[t] /\ Len(ran[t]) \in Nat
    BY <2>1, <2>3 DEF IInv, TypeOK
  <2> QED
    BY <2>1, <2>3, <2>4 DEF IInv, TypeOK, RunFor
<1> QED
  BY <1>1, <1>2

\* An operation runs once more at most, on a newer connection.
LEMMA NextRunInv ==
    ASSUME IInv, [Next]_vars
    PROVE  RunInv'
<1> USE PoolAssumption DEF IInv, TypeOK, Goto, locals, world
<1>e. /\ \A x \in BOOLEAN : [entry EXCEPT !.idle = x].drv = entry.drv
      /\ \A x \in Status : [entry EXCEPT !.status = x].drv = entry.drv
      /\ NoEntry.drv = 0
      /\ entry.drv \in 0..MaxDrivers
  BY EntryUpdate
<1>f. \A t \in Task : RunFor(t)
  BY DEF RunInv
<1>g. /\ \A t \in Task : retry[t] \/ pc[t] = "policy" => op[t] = "read"
      /\ \A t \in Task : pc[t] \in {"policy", "get", "run"} => job[t] \in {"ensure", "reconnect"}
  BY <1>f DEF RunFor
<1>1. ASSUME NEW t \in Task, Call(t)
      PROVE  RunInv'
  <2>1. ran[t] = <<>> /\ Len(ran[t]) = 0 /\ ~retry[t]
    <3>1. pc[t] = "idle"
      BY <1>1 DEF Call, CallConnect, CallDisconnect, CallRead, CallWrite, CallDelete, AskLock, CallHealth
    <3>2. job[t] = "none" /\ ~retry[t]
      BY <3>1 DEF LockInv
    <3>3. ran[t] = <<>>
      BY <3>2, <1>f DEF RunFor
    <3> QED
      BY <3>2, <3>3
  <2>2. CASE CallHealth(t)
    <3>1. /\ pc'[t] = "health" /\ job'[t] = "health" /\ ran' = ran /\ retry' = retry /\ op' = op
          /\ entry' = entry /\ pooled' = pooled
          /\ \A u \in Task \ {t} : pc'[u] = pc[u] /\ job'[u] = job[u]
      BY <2>2 DEF CallHealth
    <3>2. RunFor(t)'
      BY <2>1, <3>1 DEF RunFor
    <3> QED
      BY <3>1, <3>2, RunKept
  <2>3. ASSUME NEW j \in Job \ {"reconnect"}, NEW o, AskLock(t, j, o)
        PROVE  RunInv'
    <3>1. /\ pc'[t] = "lock" /\ job'[t] = j /\ ran' = ran /\ retry' = retry
          /\ entry' = entry /\ pooled' = pooled
          /\ \A u \in Task \ {t} : pc'[u] = pc[u] /\ job'[u] = job[u] /\ op'[u] = op[u]
      BY <2>3 DEF AskLock
    <3>2. RunFor(t)'
      BY <2>1, <3>1 DEF RunFor
    <3> QED
      BY <3>1, <3>2, RunKept
  <2> QED
    BY <1>1, <2>2, <2>3 DEF Job, Call, CallConnect, CallDisconnect, CallRead, CallWrite, CallDelete
<1>2. ASSUME NEW t \in Task, Lock(t)
      PROVE  RunInv'
  BY <1>2, RunMoves DEF Lock, AfterLock, RunInv, RunFor
<1>3. ASSUME NEW t \in Task, Continue(t)
      PROVE  RunInv'
  <2>1. CASE Recheck(t)
    <3>1. /\ entry'.drv = entry.drv /\ pc[t] = "recheck"
          /\ ran' = ran /\ op' = op /\ job' = job /\ retry' = retry /\ pooled' = pooled
      BY <2>1, <1>e DEF Recheck
    <3>2. PICK s \in {"end", "config"} : pc' = [pc EXCEPT ![t] = s]
      BY <2>1 DEF Recheck
    <3> QED
      BY <3>1, <3>2, <1>g, RunMoves
  <2>2. CASE EndSection(t)
    <3>1. CASE Return(t)
      BY <2>2, <3>1, RunReturned, RunKept DEF EndSection
    <3>2. CASE Goto(t, AfterSection(t)) /\ UNCHANGED <<job, op, ok, retry, ran>>
      <4>1. /\ entry' = entry /\ pc[t] = "end" /\ pooled' = pooled
            /\ ran' = ran /\ op' = op /\ job' = job /\ retry' = retry
        BY <2>2, <3>2 DEF EndSection
      <4>2. CASE op[t] = "none"
        <5>1. Return(t)
          BY <2>2, <4>2 DEF EndSection
        <5> QED
          BY <5>1, <4>1, RunReturned, RunKept
      <4>3. CASE op[t] # "none"
        <5>1. job[t] \in {"ensure", "reconnect"}
          BY <4>3 DEF LockInv
        <5>2. PICK s \in {"policy", "get"} : pc' = [pc EXCEPT ![t] = s] /\ (s = "policy" => op[t] = "read")
          BY <3>2 DEF AfterSection
        <5> QED
          BY <4>1, <5>1, <5>2, <1>g, RunMoves
      <4> QED
        BY <4>2, <4>3
    <3> QED
      BY <2>2, <3>1, <3>2 DEF EndSection
  <2>3. CASE DeleteRow(t)
    <3>1. /\ entry' = entry /\ pc[t] = "deleteRow" /\ pooled' = pooled
          /\ ran' = ran /\ op' = op /\ job' = job /\ retry' = retry
      BY <2>3 DEF DeleteRow
    <3>2. PICK s \in {"remove", "end"} : pc' = [pc EXCEPT ![t] = s]
      BY <2>3 DEF DeleteRow, Fail
    <3> QED
      BY <3>1, <3>2, <1>g, RunMoves
  <2>4. CASE Remove(t)
    <3>1. /\ entry'.drv = 0 /\ pc[t] = "remove" /\ pooled' = pooled
          /\ ran' = ran /\ op' = op /\ job' = job /\ retry' = retry
      BY <2>4, <1>e DEF Remove, Pooled
    <3>2. PICK s \in {"shutdown", "config", "end"} : pc' = [pc EXCEPT ![t] = s]
      BY <2>4 DEF Remove, AfterRemove
    <3> QED
      BY <3>1, <3>2, <1>g, RunMoves
  <2>5. CASE Shutdown(t)
    BY <2>5, <1>g, RunMoves DEF Shutdown, AfterRemove
  <2>6. CASE ReadConfig(t)
    BY <2>6, <1>g, RunMoves DEF ReadConfig, Fail
  <2>7. CASE Mark(t)
    BY <2>7, <1>e, <1>g, RunMoves DEF Mark, Status
  <2>8. CASE CreateDriver(t)
    BY <2>8, <1>g, RunMoves DEF CreateDriver
  <2>9. CASE CreateFails(t)
    BY <2>9, <1>g, RunMoves DEF CreateFails, Fail
  <2>10. CASE TestFails(t)
    BY <2>10, <1>g, RunMoves DEF TestFails, Fail
  <2>11. ASSUME NEW success \in BOOLEAN, InsertEntry(t, success)
         PROVE  RunInv'
    <3>1. pooled \subseteq 1..next /\ next \in Driver \ pooled /\ arc[t] = next
      BY <2>11 DEF InsertEntry, ArcInv
    <3>2. entry'.drv = next /\ pooled' = pooled \cup {next} /\ \A d \in pooled : d < next
      BY <2>11, <3>1 DEF InsertEntry, Driver
    <3>3. pc[t] = "test" /\ pc'[t] \in {"shutdown", "end"} /\ UNCHANGED <<job, op, retry, ran>>
      BY <2>11 DEF InsertEntry
    <3>4. ASSUME NEW s \in {"shutdown", "end"}, pc' = [pc EXCEPT ![t] = s]
          PROVE  RunInv'
      <4>1. entry'.drv \in Nat /\ \A d \in pooled : d < entry'.drv
        BY <3>1, <3>2 DEF Driver
      <4>2. pooled' = pooled \cup {entry'.drv}
        BY <3>2
      <4>3. ran' = ran /\ op' = op /\ job' = job /\ retry' = retry
        BY <3>3
      <4> QED
        BY <1>g, <3>3, <3>4, <4>1, <4>2, <4>3, RunMoves
    <3> QED
      BY <2>11, <3>4 DEF InsertEntry
  <2>12. CASE ReadPolicy(t)
    <3>1. /\ entry' = entry /\ pc[t] = "policy" /\ pooled' = pooled
          /\ ran' = ran /\ op' = op /\ job' = job
      BY <2>12 DEF ReadPolicy
    <3>2. pc' = [pc EXCEPT ![t] = "get"] /\ \A u \in Task : u # t => retry'[u] = retry[u]
      BY <2>12 DEF ReadPolicy
    <3> QED
      BY <3>1, <3>2, <1>g, RunMoves
  <2>13. CASE GetDriver(t)
    <3>1. CASE Pooled
      <4>1. /\ entry'.drv = entry.drv /\ pooled' = pooled /\ pc[t] = "get" /\ pc'[t] = "run"
            /\ job' = job /\ op' = op /\ retry' = retry
            /\ ran' = [ran EXCEPT ![t] = Append(@, entry.drv)]
            /\ \A u \in Task \ {t} : pc'[u] = pc[u]
        BY <2>13, <3>1, <1>e DEF GetDriver
      <4>2. /\ ran[t] \in Seq(Driver) /\ entry.drv \in Driver /\ entry.drv \in pooled
            /\ ran'[t] = Append(ran[t], entry.drv) /\ Len(ran[t]) \in Nat
        BY <4>1, <3>1, <1>e DEF Pooled, ArcInv, Driver
      <4>3. /\ ran'[t] # <<>> /\ Len(ran'[t]) = Len(ran[t]) + 1
            /\ \A i \in 1..Len(ran[t]) : ran'[t][i] = ran[t][i]
            /\ ran'[t][Len(ran[t]) + 1] = entry.drv
        BY <4>2, Appended, SMTT(30)
      <4>r. RunFor(t)
        BY <1>f
      <4>4. Len(ran[t]) <= 1 /\ (job[t] = "ensure" => Len(ran[t]) = 0) /\ job[t] \in {"ensure", "reconnect"}
        <5>1. job[t] = "ensure" => ran[t] = <<>>
          BY <4>1, <4>r DEF RunFor
        <5>2. job[t] = "reconnect" => Len(ran[t]) <= 1
          BY <4>1, <4>r DEF RunFor
        <5> QED
          BY <1>g, <4>1, <5>1, <5>2
      <4>5. \A i \in 1..Len(ran'[t]) : ran'[t][i] \in pooled'
        <5>1. \A i \in 1..Len(ran[t]) : ran[t][i] \in pooled
          BY <4>r DEF RunFor
        <5>2. \A i \in 1..Len(ran'[t]) : i \in 1..Len(ran[t]) \/ i = Len(ran[t]) + 1
          BY <4>2, <4>3
        <5> QED
          BY <4>1, <4>2, <4>3, <5>1, <5>2
      <4>6. Len(ran'[t]) = 2 => ran'[t][1] < ran'[t][2]
        <5>1. job[t] = "reconnect" /\ Len(ran[t]) = 1 => ran[t][1] < entry.drv
          BY <4>1, <4>r, <3>1 DEF RunFor
        <5> SUFFICES ASSUME Len(ran'[t]) = 2 PROVE ran'[t][1] < ran'[t][2]
          OBVIOUS
        <5>2. Len(ran[t]) = 1
          <6>1. \A n \in Nat : n + 1 = 2 => n = 1
            OBVIOUS
          <6>2. Len(ran[t]) + 1 = 2 /\ Len(ran[t]) \in Nat
            BY <4>2, <4>3, Zenon
          <6> QED
            BY <6>1, <6>2, Zenon
        <5>3. job[t] = "reconnect"
          BY <4>4, <5>2
        <5>4. ran'[t][1] = ran[t][1] /\ ran'[t][2] = entry.drv
          BY <4>3, <5>2
        <5> QED
          BY <5>1, <5>2, <5>3, <5>4
      <4>7. RunFor(t)'
        <5>1. ran'[t] # <<>> /\ Len(ran'[t]) \in 1..2 /\ (job[t] = "ensure" => Len(ran'[t]) <= 1)
          BY <4>2, <4>3, <4>4
        <5>2. (retry[t] => op[t] = "read") /\ (job[t] = "reconnect" => op[t] = "read")
          BY <1>f DEF RunFor
        <5> QED
          BY <4>1, <4>4, <4>5, <4>6, <5>1, <5>2 DEF RunFor
      <4>8. \A u \in Task \ {t} : ran'[u] = ran[u]
        BY <4>1
      <4> QED
        BY <4>1, <4>7, <4>8, RunKept
    <3>2. CASE ~Pooled
      BY <2>13, <3>2, RunFailed, RunKept DEF GetDriver
    <3> QED
      BY <3>1, <3>2
  <2>14. CASE RunEnds(t)
    BY <2>14, RunReturned, RunFailed, RunKept DEF RunEnds
  <2>15. CASE HealthEnds(t)
    <3>1. entry'.drv = entry.drv
      BY <2>15, <1>e DEF HealthEnds, Status
    <3> QED
      BY <2>15, <3>1, RunReturned, RunKept DEF HealthEnds
  <2> QED
    BY <1>3, <2>1, <2>2, <2>3, <2>4, <2>5, <2>6, <2>7, <2>8, <2>9, <2>10, <2>11,
       <2>12, <2>13, <2>14, <2>15 DEF Continue
<1>4. ASSUME NEW c \in Config, EditRow(c)
      PROVE  RunInv'
  BY <1>4, <1>f DEF EditRow, RunInv, RunFor, Pooled
<1>5. CASE GrowIdle
  BY <1>5, <1>e, <1>f DEF GrowIdle, RunInv, RunFor, Pooled
<1>6. CASE TakeIdle
  BY <1>6, <1>e, <1>f DEF TakeIdle, RunInv, RunFor, Pooled
<1>7. CASE ReaperShutdown
  BY <1>7, <1>f DEF ReaperShutdown, RunInv, RunFor, Pooled
<1>8. CASE UNCHANGED vars
  BY <1>8, <1>f DEF vars, RunInv, RunFor, Pooled
<1> QED
  BY <1>1, <1>2, <1>3, <1>4, <1>5, <1>6, <1>7, <1>8 DEF Next, Reap

LEMMA NextIInv == IInv /\ [Next]_vars => IInv'
<1> SUFFICES ASSUME IInv, [Next]_vars PROVE IInv'
  OBVIOUS
<1>1. TypeOK'
  BY NextTypeOK DEF IInv
<1> QED
  BY <1>1, NextLockInv, NextArcInv, NextTakenInv, NextEmptyInv, NextRunInv DEF IInv

LEMMA Inductive == Spec => []IInv
BY InitIInv, NextIInv, PTL DEF Spec

-----------------------------------------------------------------------------
(* What the pool promises. *)

\* Every connection that entered the pool is in the map, about to be shut
\* down by exactly one step, or shut down once (replace_pool_entry,
\* disconnect_locked, shutdown_entries): none leaks, none is closed twice.
THEOREM EveryDriverClosedOnce == Spec => []ClosedOnce
<1>1. IInv => ClosedOnce
  BY DEF IInv, TakenInv
<1> QED
  BY Inductive, <1>1, PTL

\* Once delete_connection has removed the row, no call that had read the
\* config before can put a connection back into the pool.
THEOREM DeletedIsNeverPooledAgain == Spec => []DeletedStaysGone
<1>1. IInv => DeletedStaysGone
  BY DEF IInv, EmptyInv
<1> QED
  BY Inductive, <1>1, PTL

\* pool_disconnect and a successful delete_connection leave the slot empty.
THEOREM DisconnectLeavesNothing == Spec => []DisconnectClears
<1>1. IInv => DisconnectClears
  BY DEF IInv, EmptyInv, EmptyFor, DisconnectClears
<1> QED
  BY Inductive, <1>1, PTL

\* The reaper, which holds no lock while it shuts entries down, never shuts
\* down a driver that an operation or a health check holds.
THEOREM ReaperIsHarmless == Spec => []ReaperSparesInUse
<1>1. IInv => ReaperSparesInUse
  BY DEF IInv, TakenInv
<1> QED
  BY Inductive, <1>1, PTL

\* execute_with_retry_policy runs a write once and a read twice at most, the
\* second time on a connection made after the first.
THEOREM RetriesBounded == Spec => []RunsBounded
<1>1. ASSUME IInv, NEW t \in Task
      PROVE  /\ Len(ran[t]) <= IF op[t] = "read" THEN 2 ELSE 1
             /\ Len(ran[t]) = 2 => ran[t][1] < ran[t][2]
  <2>1. RunFor(t) /\ job[t] \in Job
    BY <1>1 DEF IInv, TypeOK, RunInv
  <2>2. CASE job[t] = "reconnect"
    BY <2>1, <2>2 DEF RunFor
  <2>3. CASE job[t] = "ensure"
    BY <2>1, <2>3 DEF RunFor
  <2>4. CASE job[t] \notin {"ensure", "reconnect"}
    BY <2>1, <2>4 DEF RunFor
  <2> QED
    BY <2>2, <2>3, <2>4
<1>2. IInv => RunsBounded
  BY <1>1 DEF RunsBounded
<1> QED
  BY Inductive, <1>2, PTL

-----------------------------------------------------------------------------
(* What a step does to the slot. *)

\* A step that leaves the slot and what left it alone.
LEMMA SlotStutters ==
    ASSUME UNCHANGED <<taken, pooled, shut>>, entry'.drv = entry.drv
    PROVE  UNCHANGED Slot!slotVars
BY DEF Slot!slotVars

\* The entry is handed to whoever shuts it down.
LEMMA Leaves ==
    ASSUME IInv, NEW x \in Task \cup {Reaper}, taken[x] = 0, Pooled,
           taken' = [taken EXCEPT ![x] = entry.drv]
    PROVE  ({taken[y] : y \in Task \cup {Reaper}} \ {0})'
             = ({taken[y] : y \in Task \cup {Reaper}} \ {0}) \cup {entry.drv}
<1>1. taken'[x] = entry.drv /\ \A y \in Task \cup {Reaper} : y # x => taken'[y] = taken[y]
  BY DEF IInv, TypeOK
<1> QED
  BY <1>1 DEF Pooled

LEMMA SlotTakes ==
    ASSUME IInv, NEW x \in Task \cup {Reaper}, taken[x] = 0, Pooled,
           taken' = [taken EXCEPT ![x] = entry.drv], entry'.drv = 0, UNCHANGED <<pooled, shut>>
    PROVE  Slot!Take
BY Leaves DEF Slot!Take, Pooled

LEMMA SlotCloses ==
    ASSUME IInv, NEW x \in Task \cup {Reaper}, taken[x] # 0,
           shut' = [shut EXCEPT ![taken[x]] = @ + 1],
           taken' = [taken EXCEPT ![x] = 0], entry'.drv = entry.drv, pooled' = pooled
    PROVE  \E d \in Driver : Slot!Close(d)
<1> USE DEF IInv, TypeOK, ArcInv, TakenInv, Driver
<1>d. PICK d \in pooled : d = taken[x]
  OBVIOUS
<1>1. d \in Driver /\ \A y \in Task \cup {Reaper} : y # x => taken[y] # d
  BY <1>d DEF ClosedOnce
<1>2. shut'[d] > 0 /\ \A e \in Driver : e # d => shut'[e] = shut[e]
  BY <1>1, <1>d
<1>3. taken'[x] = 0 /\ \A y \in Task \cup {Reaper} : y # x => taken'[y] = taken[y]
  OBVIOUS
<1>4. ({taken[y] : y \in Task \cup {Reaper}} \ {0})' = ({taken[y] : y \in Task \cup {Reaper}} \ {0}) \ {d}
  BY <1>d, <1>1, <1>3
<1>5. {e \in Driver : shut[e] > 0}' = {e \in Driver : shut[e] > 0} \cup {d}
  BY <1>1, <1>2
<1>6. d \in {taken[y] : y \in Task \cup {Reaper}} \ {0}
  BY <1>d
<1>7. Slot!Close(d)
  BY <1>4, <1>5, <1>6 DEF Slot!Close
<1> QED
  BY <1>1, <1>7

LEMMA SlotPuts ==
    ASSUME IInv, NEW t \in Task, NEW success \in BOOLEAN, InsertEntry(t, success)
    PROVE  \E d \in Driver : Slot!Put(d)
<1>d. PICK d \in Driver : d = entry'.drv
  BY DEF InsertEntry, IInv, ArcInv
<1>1. d \notin pooled /\ pooled' = pooled \cup {d} /\ shut' = shut
  BY <1>d DEF InsertEntry, IInv, ArcInv
<1>2. taken[t] = 0
  BY DEF InsertEntry, IInv, TypeOK, TakenInv
<1>3. CASE Pooled
  <2>1. ({taken[y] : y \in Task \cup {Reaper}} \ {0})'
          = ({taken[y] : y \in Task \cup {Reaper}} \ {0}) \cup {entry.drv}
    BY <1>2, <1>3, Leaves DEF InsertEntry
  <2>2. Slot!Put(d)
    BY <1>d, <1>1, <1>3, <2>1 DEF Slot!Put, Pooled
  <2> QED
    BY <2>2
<1>4. CASE ~Pooled
  <2>1. taken' = taken
    BY <1>4 DEF InsertEntry
  <2>2. Slot!Put(d)
    BY <1>d, <1>1, <1>4, <2>1 DEF Slot!Put, Pooled
  <2> QED
    BY <2>2
<1> QED
  BY <1>3, <1>4

\* Every step of the pool is a step of the slot or leaves it alone.
LEMMA NextSlot ==
    ASSUME IInv, [Next]_vars
    PROVE  [Slot!SlotNext]_Slot!slotVars
<1> DEFINE Goal == [Slot!SlotNext]_Slot!slotVars
<1>e. /\ \A x \in BOOLEAN : [entry EXCEPT !.idle = x].drv = entry.drv
      /\ \A x \in Status : [entry EXCEPT !.status = x].drv = entry.drv
      /\ NoEntry.drv = 0
      /\ entry.drv \in 0..MaxDrivers
  BY EntryUpdate DEF IInv, TypeOK
<1>s. UNCHANGED <<taken, pooled, shut>> /\ entry'.drv = entry.drv => Goal
  BY SlotStutters
<1>t. Slot!Take /\ entry'.drv = 0 => Goal
  BY DEF Slot!SlotNext
<1>c. (\E d \in Driver : Slot!Close(d)) /\ entry'.drv = entry.drv => Goal
  BY DEF Slot!SlotNext
<1> HIDE DEF Goal
<1> USE PoolAssumption DEF locals, world
<1>1. ASSUME NEW t \in Task, Call(t) \/ Lock(t)
      PROVE  Goal
  BY <1>1, <1>s DEF Call, CallConnect, CallDisconnect, CallRead, CallWrite, CallDelete, AskLock, CallHealth, Lock
<1>2. ASSUME NEW t \in Task, Continue(t)
      PROVE  Goal
  <2>1. CASE Recheck(t)
    BY <2>1, <1>e, <1>s DEF Recheck
  <2>2. CASE EndSection(t) \/ DeleteRow(t) \/ ReadConfig(t)
    BY <2>2, <1>s DEF EndSection, DeleteRow, ReadConfig
  <2>3. CASE Remove(t)
    <3>1. CASE ~Pooled
      BY <2>3, <3>1, <1>s DEF Remove
    <3>2. CASE Pooled
      <4>1. taken[t] = 0
        BY <2>3 DEF Remove, IInv, TypeOK, TakenInv
      <4> QED
        BY <2>3, <3>2, <4>1, <1>e, <1>t, SlotTakes DEF Remove
    <3> QED
      BY <3>1, <3>2
  <2>4. CASE Shutdown(t)
    <3>1. taken[t] # 0
      BY <2>4 DEF Shutdown, IInv, TakenInv
    <3> QED
      BY <2>4, <3>1, <1>c, SlotCloses DEF Shutdown
  <2>5. CASE Mark(t)
    BY <2>5, <1>e, <1>s DEF Mark, Status
  <2>6. CASE CreateDriver(t) \/ CreateFails(t) \/ TestFails(t) \/ ReadPolicy(t) \/ RunEnds(t)
    BY <2>6, <1>s DEF CreateDriver, CreateFails, TestFails, ReadPolicy, RunEnds
  <2>7. CASE \E success \in BOOLEAN : InsertEntry(t, success)
    BY <2>7, SlotPuts DEF Goal, Slot!SlotNext
  <2>8. CASE GetDriver(t)
    BY <2>8, <1>e, <1>s DEF GetDriver
  <2>9. CASE HealthEnds(t)
    <3>1. entry'.drv = entry.drv
      BY <2>9, <1>e DEF HealthEnds, Status
    <3> QED
      BY <2>9, <3>1, <1>s DEF HealthEnds
  <2> QED
    BY <1>2, <2>1, <2>2, <2>3, <2>4, <2>5, <2>6, <2>7, <2>8, <2>9 DEF Continue
<1>3. ASSUME \E c \in Config : EditRow(c)
      PROVE  Goal
  BY <1>3, <1>s DEF EditRow
<1>4. ASSUME GrowIdle
      PROVE  Goal
  BY <1>4, <1>e, <1>s DEF GrowIdle
<1>5. ASSUME TakeIdle
      PROVE  Goal
  <2>1. CASE InUse
    BY <1>5, <2>1, <1>e, <1>s DEF TakeIdle
  <2>2. CASE ~InUse
    BY <1>5, <2>2, <1>e, <1>t, SlotTakes DEF TakeIdle
  <2> QED
    BY <2>1, <2>2
<1>6. ASSUME ReaperShutdown
      PROVE  Goal
  BY <1>6, <1>c, SlotCloses DEF ReaperShutdown
<1>7. ASSUME UNCHANGED vars
      PROVE  Goal
  BY <1>7, <1>s DEF vars
<1>8. Goal
  BY <1>1, <1>2, <1>3, <1>4, <1>5, <1>6, <1>7 DEF Next, Reap
<1> QED
  BY <1>8 DEF Goal

\* A connection leaves the map by a replacement, a removal or the reaper.
LEMMA LeavesTheMap ==
    ASSUME IInv, [Next]_vars, Pooled, entry'.drv # entry.drv
    PROVE  \/ TakeIdle /\ ~InUse
           \/ \E t \in Task : Remove(t) \/ \E success \in BOOLEAN : InsertEntry(t, success)
<1>e. /\ \A x \in BOOLEAN : [entry EXCEPT !.idle = x].drv = entry.drv
      /\ \A x \in Status : [entry EXCEPT !.status = x].drv = entry.drv
  BY EntryUpdate DEF IInv, TypeOK
<1> USE DEF locals, world
<1>1. ASSUME NEW t \in Task
      PROVE  ~Call(t) /\ ~Lock(t)
  BY DEF Call, CallConnect, CallDisconnect, CallRead, CallWrite, CallDelete, AskLock, CallHealth, Lock
<1>2. ASSUME NEW t \in Task
      PROVE  /\ ~EndSection(t) /\ ~DeleteRow(t) /\ ~ReadConfig(t) /\ ~Shutdown(t)
             /\ ~CreateDriver(t) /\ ~CreateFails(t) /\ ~TestFails(t)
             /\ ~ReadPolicy(t) /\ ~RunEnds(t)
  BY DEF EndSection, DeleteRow, ReadConfig, Shutdown, CreateDriver, CreateFails, TestFails,
         ReadPolicy, RunEnds
<1>3. ASSUME NEW t \in Task
      PROVE  ~Recheck(t) /\ ~Mark(t) /\ ~GetDriver(t) /\ ~HealthEnds(t)
  BY <1>e DEF Recheck, Mark, GetDriver, HealthEnds, Status
<1>4. ~(\E c \in Config : EditRow(c)) /\ ~GrowIdle /\ ~ReaperShutdown /\ ~UNCHANGED vars
  BY <1>e DEF EditRow, GrowIdle, ReaperShutdown, vars
<1>5. TakeIdle => ~InUse
  BY <1>e DEF TakeIdle
<1> QED
  BY <1>1, <1>2, <1>3, <1>4, <1>5 DEF Next, Continue, Reap

\* ensure_connected takes no pooled connection away: it looks again under the
\* lock and inserts into an empty slot, and so does a retry that has removed what
\* it found.  Only pool_connect throws one away for a new one.
THEOREM EnsuresSparePooled == Spec => EnsureKeepsPooled
<1>1. ASSUME IInv, [Next]_vars, Pooled, entry'.drv # entry.drv
      PROVE  \/ taken'[Reaper] = entry.drv /\ ~InUse
             \/ \E t \in Task :
                 /\ lock = t
                 /\ \/ job[t] = "connect" /\ pc[t] = "test"
                    \/ job[t] \in {"reconnect", "disconnect", "delete"} /\ pc[t] = "remove"
  <2>1. CASE TakeIdle /\ ~InUse
    BY <1>1, <2>1 DEF TakeIdle, IInv, TypeOK
  <2>2. ASSUME NEW t \in Task, Remove(t)
        PROVE  lock = t /\ job[t] \in {"reconnect", "disconnect", "delete"} /\ pc[t] = "remove"
    BY <1>1, <2>2 DEF Remove, IInv, LockInv, Locked
  <2>3. ASSUME NEW t \in Task, NEW success \in BOOLEAN, InsertEntry(t, success)
        PROVE  lock = t /\ job[t] = "connect" /\ pc[t] = "test"
    BY <1>1, <2>3 DEF InsertEntry, IInv, LockInv, Locked, EmptyInv, EmptyFor
  <2> QED
    BY <1>1, <2>1, <2>2, <2>3, LeavesTheMap
<1>2. IInv /\ [Next]_vars
        => [Pooled /\ entry'.drv # entry.drv =>
            \/ taken'[Reaper] = entry.drv /\ ~InUse
            \/ \E t \in Task :
                /\ lock = t
                /\ \/ job[t] = "connect" /\ pc[t] = "test"
                   \/ job[t] \in {"reconnect", "disconnect", "delete"} /\ pc[t] = "remove"]_vars
  BY <1>1
<1> QED
  BY Inductive, <1>2, PTL DEF Spec, EnsureKeepsPooled

\* The pool implements the slot of PoolSlot: each connection enters it once,
\* leaves it through exactly one shutdown and never comes back.
THEOREM PoolImplementsSlot == Spec => Slot!SlotSpec
<1>1. Init => Slot!SlotInit
  <2> SUFFICES ASSUME Init PROVE Slot!SlotInit
    OBVIOUS
  <2>1. entry.drv = 0 /\ pooled = {}
    BY DEF Init, NoEntry
  <2>2. {taken[x] : x \in Task \cup {Reaper}} \ {0} = {}
    BY DEF Init
  <2>3. {d \in Driver : shut[d] > 0} = {}
    BY DEF Init
  <2> QED
    BY <2>1, <2>2, <2>3 DEF Slot!SlotInit
<1>2. IInv /\ [Next]_vars => [Slot!SlotNext]_Slot!slotVars
  BY NextSlot
<1> QED
  BY Inductive, <1>1, <1>2, PTL DEF Spec, Slot!SlotSpec
=============================================================================
