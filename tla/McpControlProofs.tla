-------------------------- MODULE McpControlProofs --------------------------
(***************************************************************************)
(* What McpControl promises for every set of callers, servers and tokens.  *)
(* MutexInv says what the one who holds the mutex found and left: no       *)
(* server is alive but the one in the handle or the one it waits for.      *)
(* RevokeInv adds who still has a token that was replaced.                 *)
(***************************************************************************)
EXTENDS McpControl, FiniteSetTheorems, TLAPS

Alive(s) == task[s] \in {"up", "closing"}

\* The mutex is held from a stop's cancel to its join and from a start's look
\* at the handle to its bind, with the handle empty.
MutexInv ==
    /\ \A t \in Caller : pc[t] \in {"join", "bind"} => holder = t
    /\ holder # None => handle = None /\ pc[holder] \in {"join", "token", "create", "bind"}
    /\ \A t \in Caller : pc[t] = "join" => mine[t] \in Server
    /\ \A t \in Caller : pc[t] = "bind" => tok[t] \in Token
    /\ holder = None => \A s \in Server : Alive(s) => s = handle /\ task[s] = "up"
    /\ holder # None => \A s \in Server :
            Alive(s) => pc[holder] = "join" /\ s = mine[holder] /\ task[s] = "closing"

\* A regeneration wrote its token and has not taken the server down yet.
Revoking == \E t \in Caller : job[t] = "regenerate" /\ pc[t] \in {"ask", "lockStop"}

\* Who asks for a replaced token, or is about to, is about to be stopped.
RevokeInv ==
    /\ token \notin revoked
    /\ \A s \in Server : task[s] = "up" /\ key[s] \in revoked => Revoking
    /\ \A t \in Caller : pc[t] = "bind" /\ tok[t] \in revoked => Revoking

-----------------------------------------------------------------------------
(* Types and the mutex. *)

LEMMA InitInv == Init => TypeOK /\ MutexInv /\ RevokeInv
<1> SUFFICES ASSUME Init PROVE TypeOK /\ MutexInv /\ RevokeInv
  OBVIOUS
<1>1. TypeOK
  BY DEF Init, TypeOK, TaskState, Stage, Job
<1>2. MutexInv
  BY DEF Init, MutexInv, Alive
<1>3. RevokeInv
  BY DEF Init, RevokeInv
<1> QED
  BY <1>1, <1>2, <1>3

\* What a call leaves behind that returns.
LEMMA ReturnTypes ==
    ASSUME TypeOK, NEW t \in Caller, Return(t)
    PROVE  /\ pc' \in [Caller -> Stage] /\ job' \in [Caller -> Job]
           /\ mine' \in [Caller -> Server \cup {None}] /\ tok' \in [Caller -> Token \cup {None}]
           /\ holder' \in Caller \cup {None}
BY DEF Return, Goto, TypeOK, Stage, Job

LEMMA HaveTokenTypes ==
    ASSUME TypeOK, NEW t \in Caller, NEW k \in Token, HaveToken(t, k)
    PROVE  /\ pc' \in [Caller -> Stage] /\ job' \in [Caller -> Job]
           /\ mine' \in [Caller -> Server \cup {None}] /\ tok' \in [Caller -> Token \cup {None}]
           /\ holder' \in Caller \cup {None}
<1>1. CASE holder = t
  BY <1>1 DEF HaveToken, Goto, TypeOK, Stage
<1>2. CASE holder # t
  BY <1>2, ReturnTypes DEF HaveToken
<1> QED
  BY <1>1, <1>2

LEMMA NextTypeOK ==
    ASSUME TypeOK, MutexInv, [Next]_vars
    PROVE  TypeOK'
<1> USE ControlAssumption DEF control, caller
<1>1. ASSUME NEW t \in Caller, Boot(t) \/ CallCommand(t)
      PROVE  TypeOK'
  <2>1. pc' \in [Caller -> Stage] /\ job' \in [Caller -> Job] /\ booted' \in BOOLEAN
    <3>1. booted' \in BOOLEAN
      BY <1>1 DEF Boot, CallCommand, TypeOK
    <3>2. PICK j \in Job, stage \in Stage : Call(t, j, stage)
      BY <1>1 DEF Boot, CallCommand, Stage, Job
    <3> QED
      BY <3>1, <3>2 DEF Call, Goto, TypeOK
  <2>2. UNCHANGED <<enabled, token, revoked, control, mine, tok>>
    BY <1>1 DEF Boot, CallCommand, Call
  <2> QED
    BY <2>1, <2>2 DEF TypeOK
<1>2. ASSUME NEW t \in Caller, GiveUp(t)
      PROVE  TypeOK'
  BY <1>2, ReturnTypes DEF GiveUp, TypeOK
<1>3. ASSUME NEW t \in Caller, ReadEnabled(t)
      PROVE  TypeOK'
  <2>1. CASE enabled
    BY <1>3, <2>1 DEF ReadEnabled, Goto, TypeOK, Stage
  <2>2. CASE ~enabled
    BY <1>3, <2>2, ReturnTypes DEF ReadEnabled, TypeOK
  <2> QED
    BY <2>1, <2>2
<1>4. ASSUME NEW t \in Caller, WriteEnabled(t)
      PROVE  TypeOK'
  <2>1. enabled' \in BOOLEAN
    BY <1>4 DEF WriteEnabled
  <2>2. pc' \in [Caller -> Stage]
    BY <1>4 DEF WriteEnabled, Goto, TypeOK, Stage
  <2> QED
    BY <1>4, <2>1, <2>2 DEF WriteEnabled, TypeOK
<1>5. ASSUME NEW t \in Caller, NEW k \in Token, WriteToken(t, k)
      PROVE  TypeOK'
  BY <1>5 DEF WriteToken, Goto, TypeOK, Stage
<1>6. ASSUME NEW t \in Caller, AskRunning(t) \/ Status(t)
      PROVE  TypeOK'
  <2>1. pc' \in [Caller -> Stage]
    BY <1>6 DEF AskRunning, Status, Goto, TypeOK, Stage
  <2> QED
    BY <1>6, <2>1 DEF AskRunning, Status, TypeOK
<1>7. ASSUME NEW t \in Caller, LockStop(t)
      PROVE  TypeOK'
  <2>1. pc' \in [Caller -> Stage]
    BY <1>7 DEF LockStop, AfterStop, Goto, TypeOK, Stage
  <2>2. CASE handle = None
    BY <1>7, <2>1, <2>2 DEF LockStop, TypeOK
  <2>3. CASE handle # None
    <3>1. task' \in [Server -> TaskState] /\ \A s \in Server : task'[s] = "up" => task[s] = "up"
      BY <1>7, <2>3 DEF LockStop, Closing, TypeOK, TaskState
    <3>2. mine' \in [Caller -> Server \cup {None}]
      BY <1>7, <2>3 DEF LockStop, TypeOK
    <3> QED
      BY <1>7, <2>1, <2>3, <3>1, <3>2 DEF LockStop, TypeOK
  <2> QED
    BY <2>2, <2>3
<1>8. ASSUME NEW t \in Caller, Joined(t)
      PROVE  TypeOK'
  <2>0. mine[t] \in Server /\ handle = None
    BY <1>8 DEF Joined, MutexInv, TypeOK
  <2>1. pc' \in [Caller -> Stage] /\ mine' \in [Caller -> Server \cup {None}]
    BY <1>8 DEF Joined, AfterStop, Goto, TypeOK, Stage
  <2>2. task' \in [Server -> TaskState] /\ key' \in [Server -> Token \cup {None}]
        /\ \A s \in Server : task'[s] = "up" => task[s] = "up" /\ key'[s] = key[s]
    BY <1>8, <2>0 DEF Joined, TypeOK, TaskState
  <2> QED
    BY <1>8, <2>0, <2>1, <2>2 DEF Joined, TypeOK
<1>9. ASSUME NEW t \in Caller, LockStart(t)
      PROVE  TypeOK'
  <2>1. CASE Running /\ job[t] = "boot"
    BY <1>9, <2>1, ReturnTypes DEF LockStart, TypeOK
  <2>2. CASE Running /\ job[t] # "boot"
    BY <1>9, <2>2 DEF LockStart, Goto, TypeOK, Stage
  <2>3. CASE ~Running
    <3>1. pc' \in [Caller -> Stage]
      BY <1>9, <2>3 DEF LockStart, Goto, TypeOK, Stage
    <3>2. task' \in [Server -> TaskState] /\ key' \in [Server -> Token \cup {None}]
          /\ \A s \in Server : task'[s] = "up" => task[s] = "up" /\ key'[s] = key[s]
      BY <1>9, <2>3 DEF LockStart, TypeOK, TaskState
    <3> QED
      BY <1>9, <2>3, <3>1, <3>2 DEF LockStart, TypeOK
  <2> QED
    BY <2>1, <2>2, <2>3
<1>10. ASSUME NEW t \in Caller, ReadToken(t)
       PROVE  TypeOK'
  <2>1. CASE token # None
    BY <1>10, <2>1, HaveTokenTypes DEF ReadToken, TypeOK
  <2>2. CASE token = None
    BY <1>10, <2>2 DEF ReadToken, Goto, TypeOK, Stage
  <2> QED
    BY <2>1, <2>2
<1>11. ASSUME NEW t \in Caller, NEW k \in Token, CreateToken(t, k)
       PROVE  TypeOK'
  BY <1>11, HaveTokenTypes DEF CreateToken, TypeOK
<1>12. ASSUME NEW t \in Caller, NEW s \in Server, Bind(t, s)
       PROVE  TypeOK'
  <2>0. tok[t] \in Token
    BY <1>12 DEF Bind, MutexInv
  <2>1. /\ task' \in [Server -> TaskState] /\ key' \in [Server -> Token \cup {None}]
        /\ handle' \in Server /\ task'[handle'] = "up"
        /\ \A r \in Server : task'[r] = "up" => key'[r] \in Token
    BY <1>12, <2>0 DEF Bind, TypeOK, TaskState
  <2>2. CASE job[t] = "boot"
    BY <1>12, <2>1, <2>2, ReturnTypes DEF Bind, TypeOK
  <2>3. CASE job[t] # "boot"
    <3>1. pc' \in [Caller -> Stage] /\ tok' \in [Caller -> Token \cup {None}]
      BY <1>12, <2>3 DEF Bind, Goto, TypeOK, Stage
    <3> QED
      BY <1>12, <2>1, <2>3, <3>1 DEF Bind, TypeOK
  <2> QED
    BY <2>2, <2>3
<1>13. ASSUME NEW s \in Server, Closed(s) \/ Dies(s)
       PROVE  TypeOK'
  <2>1. task' \in [Server -> TaskState] /\ \A r \in Server : task'[r] = IF r = s THEN "over" ELSE task[r]
    BY <1>13 DEF Closed, Dies, TypeOK, TaskState
  <2> QED
    BY <1>13, <2>1 DEF Closed, Dies, TypeOK
<1>14. CASE UNCHANGED vars
  BY <1>14 DEF vars, TypeOK
<1> QED
  BY <1>1, <1>2, <1>3, <1>4, <1>5, <1>6, <1>7, <1>8, <1>9, <1>10, <1>11, <1>12, <1>13, <1>14
     DEF Next, Continue, Waiting

-----------------------------------------------------------------------------
(* The mutex. *)

\* The others are where they were.
OthersStay(t) ==
    \A u \in Caller \ {t} : /\ pc'[u] = pc[u] /\ job'[u] = job[u]
                            /\ mine'[u] = mine[u] /\ tok'[u] = tok[u]

\* A caller goes on, with the mutex or without it, and leaves the server alone.
LEMMA MoveKeepsMutex ==
    ASSUME TypeOK, MutexInv, NEW t \in Caller, OthersStay(t),
           UNCHANGED <<holder, handle, task>>,
           pc'[t] \notin {"join", "bind"}, pc[t] # "join",
           holder = t => pc'[t] \in {"token", "create"}
    PROVE  MutexInv'
<1>1. \A s \in Server : Alive(s)' <=> Alive(s)
  BY DEF Alive
<1>2. holder = t => \A s \in Server : ~Alive(s)
  BY ControlAssumption DEF MutexInv
<1>3. holder # None => holder \in Caller
  BY DEF TypeOK
<1> QED
  BY <1>1, <1>2, <1>3, ControlAssumption DEF MutexInv, OthersStay

\* A caller that returns lets go of the mutex; it was not waiting for a server.
LEMMA ReturnKeepsMutex ==
    ASSUME TypeOK, MutexInv, NEW t \in Caller, Return(t), UNCHANGED <<handle, task>>,
           pc[t] # "join"
    PROVE  MutexInv'
<1>0. OthersStay(t) /\ pc'[t] = "idle"
  BY DEF Return, Goto, OthersStay, TypeOK
<1>1. CASE holder # t
  BY <1>0, <1>1, MoveKeepsMutex DEF Return
<1>2. CASE holder = t
  <2>1. \A s \in Server : ~Alive(s)'
    BY <1>2, ControlAssumption DEF MutexInv, Alive
  <2>2. holder' = None
    BY <1>2 DEF Return
  <2>3. \A u \in Caller \ {t} : pc[u] \notin {"join", "bind"}
    BY <1>2 DEF MutexInv
  <2> QED
    BY <1>0, <2>1, <2>2, <2>3 DEF MutexInv, OthersStay
<1> QED
  BY <1>1, <1>2

LEMMA HaveTokenKeepsMutex ==
    ASSUME TypeOK, MutexInv, NEW t \in Caller, NEW k \in Token, HaveToken(t, k),
           UNCHANGED <<handle, task>>, pc[t] \in {"token", "create"}
    PROVE  MutexInv'
<1>1. CASE holder = t
  <2>1. OthersStay(t) /\ pc'[t] = "bind" /\ tok'[t] = k /\ holder' = t
    BY <1>1 DEF HaveToken, Goto, OthersStay, TypeOK
  <2>2. \A s \in Server : ~Alive(s)'
    BY <1>1, ControlAssumption DEF MutexInv, Alive
  <2>3. \A u \in Caller \ {t} : pc[u] \notin {"join", "bind"}
    BY <1>1 DEF MutexInv
  <2>4. handle' = None
    BY <1>1, ControlAssumption DEF MutexInv
  <2> QED
    BY <2>1, <2>2, <2>3, <2>4 DEF MutexInv, OthersStay
<1>2. CASE holder # t
  BY <1>2, ReturnKeepsMutex DEF HaveToken
<1> QED
  BY <1>1, <1>2

\* Without the mutex one is not where it has to be held.
LEMMA HoldersStage ==
    ASSUME MutexInv, NEW t \in Caller, pc[t] \notin {"join", "token", "create", "bind"}
    PROVE  holder # t
BY ControlAssumption DEF MutexInv

LEMMA NextMutexInv ==
    ASSUME TypeOK, MutexInv, [Next]_vars
    PROVE  MutexInv'
<1> USE DEF control, caller
<1>1. ASSUME NEW t \in Caller, Boot(t) \/ CallCommand(t)
      PROVE  MutexInv'
  <2>1. PICK j \in Job, stage \in {"boot", "write", "status"} : Call(t, j, stage)
    BY <1>1 DEF Boot, CallCommand, Job
  <2>2. OthersStay(t) /\ pc[t] = "idle" /\ pc'[t] = stage /\ UNCHANGED <<holder, handle, task>>
    BY <2>1 DEF Call, Goto, OthersStay, TypeOK
  <2> QED
    BY <2>2, HoldersStage, MoveKeepsMutex
<1>2. ASSUME NEW t \in Caller, GiveUp(t)
      PROVE  MutexInv'
  BY <1>2, ReturnKeepsMutex DEF GiveUp
<1>3. ASSUME NEW t \in Caller, ReadEnabled(t)
      PROVE  MutexInv'
  <2>1. CASE enabled
    <3>1. OthersStay(t) /\ pc[t] = "boot" /\ pc'[t] = "lockStart" /\ UNCHANGED <<holder, handle, task>>
      BY <1>3, <2>1 DEF ReadEnabled, Goto, OthersStay, TypeOK
    <3> QED
      BY <3>1, HoldersStage, MoveKeepsMutex
  <2>2. CASE ~enabled
    BY <1>3, <2>2, ReturnKeepsMutex DEF ReadEnabled
  <2> QED
    BY <2>1, <2>2
<1>4. ASSUME NEW t \in Caller,
             WriteEnabled(t) \/ (\E k \in Token : WriteToken(t, k)) \/ AskRunning(t) \/ Status(t)
      PROVE  MutexInv'
  <2>1. /\ pc[t] \in {"write", "ask", "status"}
        /\ pc'[t] \in {"lockStart", "lockStop", "ask", "status", "token"}
        /\ OthersStay(t) /\ UNCHANGED <<holder, handle, task>>
    BY <1>4 DEF WriteEnabled, WriteToken, AskRunning, Status, Goto, OthersStay, TypeOK
  <2> QED
    BY <2>1, HoldersStage, MoveKeepsMutex
<1>5. ASSUME NEW t \in Caller, LockStop(t)
      PROVE  MutexInv'
  <2>1. CASE handle = None
    <3>1. /\ pc[t] = "lockStop" /\ pc'[t] \in {"lockStart", "status"}
          /\ OthersStay(t) /\ UNCHANGED <<holder, handle, task>>
      BY <1>5, <2>1 DEF LockStop, AfterStop, Goto, OthersStay, TypeOK
    <3> QED
      BY <3>1, HoldersStage, MoveKeepsMutex
  <2>2. CASE handle # None
    <3>1. /\ holder = None /\ holder' = t /\ handle' = None /\ handle \in Server
          /\ OthersStay(t) /\ pc'[t] = "join" /\ mine'[t] = handle
      BY <1>5, <2>2 DEF LockStop, Goto, OthersStay, TypeOK
    <3>2. \A s \in Server : Alive(s) => s = handle /\ task[s] = "up"
      BY <3>1 DEF MutexInv
    <3>3. \A s \in Server : Alive(s)' => s = handle /\ task'[s] = "closing"
      BY <1>5, <2>2, <3>1, <3>2 DEF LockStop, Closing, Alive, TypeOK
    <3>4. \A u \in Caller \ {t} : pc'[u] \notin {"join", "bind"}
      BY <3>1, ControlAssumption DEF MutexInv, OthersStay
    <3> QED
      BY <3>1, <3>3, <3>4, ControlAssumption DEF MutexInv
  <2> QED
    BY <2>1, <2>2
<1>6. ASSUME NEW t \in Caller, Joined(t)
      PROVE  MutexInv'
  <2>1. holder = t /\ mine[t] \in Server /\ handle = None
    BY <1>6, ControlAssumption DEF Joined, MutexInv
  <2>2. /\ holder' = None /\ handle' = None /\ OthersStay(t)
        /\ pc'[t] \in {"lockStart", "status"}
    BY <1>6, <2>1 DEF Joined, AfterStop, Goto, OthersStay, TypeOK
  <2>3. \A s \in Server : ~Alive(s)'
    BY <1>6, <2>1, ControlAssumption DEF Joined, MutexInv, Alive, TypeOK
  <2>4. \A u \in Caller \ {t} : pc'[u] \notin {"join", "bind"}
    BY <2>1, <2>2 DEF MutexInv, OthersStay
  <2> QED
    BY <2>2, <2>3, <2>4 DEF MutexInv
<1>7. ASSUME NEW t \in Caller, LockStart(t)
      PROVE  MutexInv'
  <2>1. CASE Running /\ job[t] = "boot"
    BY <1>7, <2>1, ReturnKeepsMutex DEF LockStart
  <2>2. CASE Running /\ job[t] # "boot"
    <3>1. /\ pc[t] = "lockStart" /\ pc'[t] = "status"
          /\ OthersStay(t) /\ UNCHANGED <<holder, handle, task>>
      BY <1>7, <2>2 DEF LockStart, Goto, OthersStay, TypeOK
    <3> QED
      BY <3>1, HoldersStage, MoveKeepsMutex
  <2>3. CASE ~Running
    <3>1. holder = None /\ holder' = t /\ handle' = None /\ OthersStay(t) /\ pc'[t] = "token"
      BY <1>7, <2>3 DEF LockStart, Goto, OthersStay, TypeOK
    <3>2. \A s \in Server : ~Alive(s)
      BY <2>3, <3>1, ControlAssumption DEF MutexInv, Running
    <3>3. \A s \in Server : ~Alive(s)'
      BY <1>7, <2>3, <3>2 DEF LockStart, Alive
    <3>4. \A u \in Caller \ {t} : pc'[u] \notin {"join", "bind"}
      BY <3>1, ControlAssumption DEF MutexInv, OthersStay
    <3> QED
      BY <3>1, <3>3, <3>4, ControlAssumption DEF MutexInv
  <2> QED
    BY <2>1, <2>2, <2>3
<1>8. ASSUME NEW t \in Caller, ReadToken(t)
      PROVE  MutexInv'
  <2>1. CASE token # None
    BY <1>8, <2>1, HaveTokenKeepsMutex DEF ReadToken, TypeOK
  <2>2. CASE token = None
    <3>1. /\ pc[t] = "token" /\ pc'[t] = "create"
          /\ OthersStay(t) /\ UNCHANGED <<holder, handle, task>>
      BY <1>8, <2>2 DEF ReadToken, Goto, OthersStay, TypeOK
    <3> QED
      BY <3>1, MoveKeepsMutex
  <2> QED
    BY <2>1, <2>2
<1>9. ASSUME NEW t \in Caller, NEW k \in Token, CreateToken(t, k)
      PROVE  MutexInv'
  BY <1>9, HaveTokenKeepsMutex DEF CreateToken
<1>10. ASSUME NEW t \in Caller, NEW s \in Server, Bind(t, s)
       PROVE  MutexInv'
  <2>1. holder = t
    BY <1>10 DEF Bind, MutexInv
  <2>2. holder' = None /\ handle' = s /\ OthersStay(t) /\ pc'[t] \in {"idle", "status"}
    BY <1>10, <2>1 DEF Bind, Return, Goto, OthersStay, TypeOK
  <2>3. \A r \in Server : ~Alive(r)
    BY <1>10, <2>1, ControlAssumption DEF Bind, MutexInv
  <2>4. \A r \in Server : Alive(r)' => r = s /\ task'[r] = "up"
    BY <1>10, <2>3 DEF Bind, Alive, TypeOK
  <2>5. \A u \in Caller \ {t} : pc'[u] \notin {"join", "bind"}
    BY <2>1, <2>2 DEF MutexInv, OthersStay
  <2> QED
    BY <2>2, <2>4, <2>5 DEF MutexInv
<1>11. ASSUME NEW s \in Server, Closed(s) \/ Dies(s)
       PROVE  MutexInv'
  <2>1. \A r \in Server : Alive(r)' => Alive(r) /\ task'[r] = task[r]
    BY <1>11 DEF Closed, Dies, Alive, TypeOK
  <2>2. UNCHANGED <<handle, holder, pc, mine, tok>>
    BY <1>11 DEF Closed, Dies
  <2> QED
    BY <2>1, <2>2 DEF MutexInv
<1>12. CASE UNCHANGED vars
  BY <1>12 DEF vars, MutexInv, Alive
<1> QED
  BY <1>1, <1>2, <1>3, <1>4, <1>5, <1>6, <1>7, <1>8, <1>9, <1>10, <1>11, <1>12
     DEF Next, Continue, Waiting

-----------------------------------------------------------------------------
(* Tokens. *)

\* A caller that has not asked yet whether the server runs, nor is about to
\* stop it, stays so while another one goes on.
LEMMA RevokingStays ==
    ASSUME NEW t \in Caller, OthersStay(t), pc[t] \notin {"ask", "lockStop"}, Revoking
    PROVE  Revoking'
BY DEF Revoking, OthersStay

\* A step that replaces no token and lets nobody know an old one.
LEMMA StepKeepsTokens ==
    ASSUME RevokeInv, NEW t \in Caller, OthersStay(t), pc[t] \notin {"ask", "lockStop"},
           revoked' \subseteq revoked, token' \notin revoked',
           \A s \in Server : task'[s] = "up" /\ key'[s] \in revoked'
                             => (task[s] = "up" /\ key[s] = key'[s]) \/ Revoking,
           pc'[t] = "bind" => tok'[t] \notin revoked'
    PROVE  RevokeInv'
<1>1. Revoking => Revoking'
  BY RevokingStays
<1>2. \A s \in Server : task'[s] = "up" /\ key'[s] \in revoked' => Revoking'
  BY <1>1 DEF RevokeInv
<1>3. \A u \in Caller : pc'[u] = "bind" /\ tok'[u] \in revoked' => Revoking'
  BY <1>1 DEF RevokeInv, OthersStay
<1> QED
  BY <1>2, <1>3 DEF RevokeInv

LEMMA NextRevokeInv ==
    ASSUME TypeOK, MutexInv, RevokeInv, [Next]_vars
    PROVE  RevokeInv'
<1> USE DEF control, caller
<1>1. ASSUME NEW t \in Caller, Boot(t) \/ CallCommand(t)
      PROVE  RevokeInv'
  <2>1. PICK j \in Job, stage \in {"boot", "write", "status"} : Call(t, j, stage)
    BY <1>1 DEF Boot, CallCommand, Job
  <2>2. OthersStay(t) /\ pc[t] = "idle" /\ pc'[t] = stage /\ UNCHANGED <<token, revoked, task, key>>
    BY <2>1 DEF Call, Goto, OthersStay, TypeOK
  <2> QED
    BY <2>2, StepKeepsTokens DEF RevokeInv
<1>2. ASSUME NEW t \in Caller, Return(t), pc[t] \notin {"ask", "lockStop"},
             UNCHANGED <<token, revoked, task, key>>
      PROVE  RevokeInv'
  <2>1. OthersStay(t) /\ pc'[t] = "idle"
    BY <1>2 DEF Return, Goto, OthersStay, TypeOK
  <2> QED
    BY <1>2, <2>1, StepKeepsTokens DEF RevokeInv
<1>3. ASSUME NEW t \in Caller, GiveUp(t) \/ ReadEnabled(t) \/ WriteEnabled(t) \/ Status(t)
      PROVE  RevokeInv'
  <2>1. UNCHANGED <<token, revoked, task, key>> /\ pc[t] \notin {"ask", "lockStop"}
    BY <1>3 DEF GiveUp, ReadEnabled, WriteEnabled, Status
  <2>2. CASE Return(t)
    BY <1>2, <2>1, <2>2
  <2>3. CASE ~Return(t)
    <3>1. OthersStay(t) /\ pc'[t] # "bind"
      BY <1>3, <2>3 DEF GiveUp, ReadEnabled, WriteEnabled, Status, Goto, OthersStay, TypeOK
    <3> QED
      BY <2>1, <3>1, StepKeepsTokens DEF RevokeInv
  <2> QED
    BY <2>2, <2>3
<1>4. ASSUME NEW t \in Caller, NEW k \in Token, WriteToken(t, k)
      PROVE  RevokeInv'
  <2>1. Revoking'
    BY <1>4 DEF WriteToken, Goto, Revoking, TypeOK
  <2>2. token' \notin revoked'
    BY <1>4 DEF WriteToken, Fresh
  <2> QED
    BY <2>1, <2>2 DEF RevokeInv
<1>5. ASSUME holder = None, ~Running, NEW t \in Caller, OthersStay(t), pc'[t] # "bind",
             UNCHANGED <<token, revoked>>, \A s \in Server : task'[s] = "up" => task[s] = "up"
      PROVE  RevokeInv'
  <2>1. \A s \in Server : task'[s] # "up"
    BY <1>5, ControlAssumption DEF MutexInv, Alive, Running
  <2>2. \A u \in Caller : pc'[u] # "bind"
    BY <1>5, ControlAssumption DEF MutexInv, OthersStay
  <2> QED
    BY <1>5, <2>1, <2>2 DEF RevokeInv
<1>6. ASSUME NEW t \in Caller, AskRunning(t)
      PROVE  RevokeInv'
  <2>1. OthersStay(t) /\ UNCHANGED <<token, revoked, task, key, tok, job>> /\ holder = None
    BY <1>6 DEF AskRunning, Goto, OthersStay, TypeOK
  <2>2. CASE Running
    <3>1. pc'[t] = "lockStop"
      BY <1>6, <2>2 DEF AskRunning, Goto, TypeOK
    <3>2. Revoking => Revoking'
      BY <1>6, <2>1, <3>1 DEF Revoking, OthersStay
    <3>3. \A u \in Caller : pc'[u] = "bind" => pc[u] = "bind"
      BY <2>1, <3>1 DEF OthersStay
    <3> QED
      BY <2>1, <3>2, <3>3 DEF RevokeInv
  <2>3. CASE ~Running
    <3>1. pc'[t] # "bind"
      BY <1>6, <2>3 DEF AskRunning, Goto, TypeOK
    <3> QED
      BY <1>5, <2>1, <2>3, <3>1
  <2> QED
    BY <2>2, <2>3
\* The server that is stopped was the only one.
<1>7. ASSUME NEW t \in Caller, LockStop(t)
      PROVE  RevokeInv'
  <2>1. OthersStay(t) /\ UNCHANGED <<token, revoked>> /\ holder = None /\ pc'[t] # "bind"
    BY <1>7 DEF LockStop, AfterStop, Goto, OthersStay, TypeOK
  <2>2. \A s \in Server : task'[s] # "up"
    <3>1. \A s \in Server : task[s] = "up" => s = handle
      BY <2>1 DEF MutexInv, Alive
    <3>2. CASE handle = None
      BY <1>7, <3>1, <3>2, ControlAssumption DEF LockStop
    <3>3. CASE handle # None
      BY <1>7, <3>1, <3>3 DEF LockStop, Closing, TypeOK
    <3> QED
      BY <3>2, <3>3
  <2>3. \A u \in Caller : pc'[u] # "bind"
    BY <2>1, ControlAssumption DEF MutexInv, OthersStay
  <2> QED
    BY <2>1, <2>2, <2>3 DEF RevokeInv
<1>8. ASSUME NEW t \in Caller, Joined(t)
      PROVE  RevokeInv'
  <2>1. OthersStay(t) /\ UNCHANGED <<token, revoked>> /\ pc[t] = "join" /\ pc'[t] # "bind"
    BY <1>8 DEF Joined, AfterStop, Goto, OthersStay, TypeOK
  <2>2. \A s \in Server : task'[s] = "up" => task[s] = "up" /\ key'[s] = key[s]
    BY <1>8 DEF Joined, TypeOK
  <2> QED
    BY <2>1, <2>2, StepKeepsTokens DEF RevokeInv
<1>9. ASSUME NEW t \in Caller, LockStart(t)
      PROVE  RevokeInv'
  <2>1. CASE Running /\ job[t] = "boot"
    BY <1>2, <1>9, <2>1 DEF LockStart
  <2>2. CASE Running /\ job[t] # "boot"
    <3>1. /\ OthersStay(t) /\ pc[t] = "lockStart" /\ pc'[t] = "status"
          /\ UNCHANGED <<token, revoked, task, key>>
      BY <1>9, <2>2 DEF LockStart, Goto, OthersStay, TypeOK
    <3> QED
      BY <3>1, StepKeepsTokens DEF RevokeInv
  <2>3. CASE ~Running
    <3>1. /\ OthersStay(t) /\ holder = None /\ pc'[t] = "token" /\ UNCHANGED <<token, revoked>>
          /\ \A s \in Server : task'[s] = "up" => task[s] = "up"
      BY <1>9, <2>3 DEF LockStart, Goto, OthersStay, TypeOK
    <3> QED
      BY <1>5, <2>3, <3>1
  <2> QED
    BY <2>1, <2>2, <2>3
<1>10. ASSUME NEW t \in Caller, NEW k \in Token, HaveToken(t, k), pc[t] \in {"token", "create"},
              k \notin revoked', revoked' \subseteq revoked, token' \notin revoked',
              UNCHANGED <<task, key>>
       PROVE  RevokeInv'
  <2>1. OthersStay(t) /\ (pc'[t] = "bind" => tok'[t] = k)
    BY <1>10 DEF HaveToken, Return, Goto, OthersStay, TypeOK
  <2> QED
    BY <1>10, <2>1, StepKeepsTokens
<1>11. ASSUME NEW t \in Caller, ReadToken(t)
       PROVE  RevokeInv'
  <2>1. UNCHANGED <<token, revoked, task, key>> /\ pc[t] = "token"
    BY <1>11 DEF ReadToken
  <2>2. CASE token # None
    BY <1>10, <1>11, <2>1, <2>2 DEF ReadToken, TypeOK, RevokeInv
  <2>3. CASE token = None
    <3>1. OthersStay(t) /\ pc'[t] = "create"
      BY <1>11, <2>3 DEF ReadToken, Goto, OthersStay, TypeOK
    <3> QED
      BY <2>1, <3>1, StepKeepsTokens DEF RevokeInv
  <2> QED
    BY <2>2, <2>3
<1>12. ASSUME NEW t \in Caller, NEW k \in Token, CreateToken(t, k)
       PROVE  RevokeInv'
  BY <1>10, <1>12 DEF CreateToken
<1>13. ASSUME NEW t \in Caller, NEW s \in Server, Bind(t, s)
       PROVE  RevokeInv'
  <2>1. OthersStay(t) /\ UNCHANGED <<token, revoked>> /\ pc[t] = "bind" /\ pc'[t] # "bind"
    BY <1>13 DEF Bind, Return, Goto, OthersStay, TypeOK
  <2>2. \A r \in Server : key'[r] = IF r = s THEN tok[t] ELSE key[r]
    BY <1>13 DEF Bind, TypeOK
  <2>3. \A r \in Server : r # s => task'[r] = task[r]
    BY <1>13 DEF Bind, TypeOK
  <2> QED
    BY <2>1, <2>2, <2>3, StepKeepsTokens DEF RevokeInv
<1>14. ASSUME NEW s \in Server, Closed(s) \/ Dies(s)
       PROVE  RevokeInv'
  <2>1. \A r \in Server : task'[r] = "up" => task[r] = "up"
    BY <1>14 DEF Closed, Dies, TypeOK
  <2>2. UNCHANGED <<token, revoked, key, caller>>
    BY <1>14 DEF Closed, Dies
  <2> QED
    BY <2>1, <2>2 DEF RevokeInv, Revoking
<1>15. CASE UNCHANGED vars
  BY <1>15 DEF vars, RevokeInv, Revoking
<1> QED
  BY <1>1, <1>3, <1>4, <1>6, <1>7, <1>8, <1>9, <1>11, <1>12, <1>13, <1>14, <1>15
     DEF Next, Continue, Waiting

-----------------------------------------------------------------------------
(* The theorems. *)

\* At most one server is alive under the mutex' rules.
LEMMA OneAlive ==
    ASSUME TypeOK, MutexInv
    PROVE  OneServer
<1> DEFINE A == {s \in Server : task[s] \in {"up", "closing"}}
<1>1. \A r, s \in A : r = s
  BY DEF MutexInv, Alive
<1>2. CASE A = {}
  BY <1>2, FS_EmptySet DEF OneServer
<1>3. CASE A # {}
  <2>1. PICK s : s \in A
    BY <1>3
  <2>2. A = {s}
    BY <1>1, <2>1
  <2>3. Cardinality(A) = 1
    BY <2>2, FS_Singleton
  <2> QED
    BY <2>3 DEF OneServer
<1> QED
  BY <1>2, <1>3

LEMMA ControlInvariant == Spec => [](TypeOK /\ MutexInv /\ RevokeInv)
<1>1. Init => TypeOK /\ MutexInv /\ RevokeInv
  BY InitInv
<1>2. TypeOK /\ MutexInv /\ RevokeInv /\ [Next]_vars => (TypeOK /\ MutexInv /\ RevokeInv)'
  BY NextTypeOK, NextMutexInv, NextRevokeInv
<1> QED
  BY <1>1, <1>2, PTL DEF Spec

\* Every variable keeps its type: the handle is of a server that runs or died,
\* and a server that runs has a token it asks for (McpControl of mcp/control.rs).
THEOREM TypeCorrect == Spec => []TypeOK
<1> QED
  BY ControlInvariant, PTL

\* However starts, stops and restarts interleave and wherever they give up,
\* a server is bound only when no other one answers any more: the mutex of
\* McpControl is held across the join of a stop and the bind of a start.
THEOREM NeverTwoServers == Spec => []OneServer
<1>1. TypeOK /\ MutexInv => OneServer
  BY OneAlive
<1> QED
  BY <1>1, ControlInvariant, PTL

\* A server that still asks for a replaced token is about to be stopped by the
\* regeneration that replaced it (regenerate_mcp_token of commands/mcp.rs).
THEOREM RevokedIsRefused == Spec => []RevokedTokenRefused
<1>1. RevokeInv => RevokedTokenRefused
  BY DEF RevokeInv, Revoking, RevokedTokenRefused
<1> QED
  BY <1>1, ControlInvariant, PTL

\* A server's key is its own for as long as it is alive.
LEMMA NextServer ==
    ASSUME TypeOK, MutexInv, [Next]_vars
    PROVE  [External!ServerNext]_External!serverVars
<1> USE ControlAssumption DEF control, caller
\* Nothing changes for the clients if nothing changes for who is alive.
<1>1. ASSUME \A s \in Server : Alive(s) \/ Alive(s)' => task'[s] = task[s] /\ key'[s] = key[s]
      PROVE  UNCHANGED <<Asking("up"), Asking("closing")>>
  BY <1>1 DEF Asking, Alive
<1>2. ASSUME NEW s \in Server, \A r \in Server : Alive(r) => r = s
      PROVE  /\ task[s] = "up" => Asking("up") = {key[s]} /\ Asking("closing") = {}
             /\ task[s] = "closing" => Asking("closing") = {key[s]} /\ Asking("up") = {}
             /\ ~Alive(s) => Asking("up") = {} /\ Asking("closing") = {}
  BY <1>2 DEF Asking, Alive
<1>3. ASSUME NEW s \in Server, \A r \in Server : Alive(r)' => r = s
      PROVE  /\ task'[s] = "up" => Asking("up")' = {key'[s]} /\ Asking("closing")' = {}
             /\ task'[s] = "closing" => Asking("closing")' = {key'[s]} /\ Asking("up")' = {}
             /\ ~Alive(s)' => Asking("up")' = {} /\ Asking("closing")' = {}
  BY <1>3 DEF Asking, Alive
<1>4. ASSUME UNCHANGED <<Asking("up"), Asking("closing")>>
      PROVE  UNCHANGED External!serverVars
  BY <1>4 DEF External!serverVars
<1>5. ASSUME NEW t \in Caller, LockStop(t), handle # None, task[handle] = "up"
      PROVE  External!Cancel
  <2>1. handle \in Server /\ holder = None /\ key' = key /\ task' = [task EXCEPT ![handle] = "closing"]
    BY <1>5 DEF LockStop, Closing, TypeOK
  <2>2. \A r \in Server : Alive(r) => r = handle
    BY <2>1 DEF MutexInv
  <2>3. task'[handle] = "closing" /\ \A r \in Server : Alive(r)' => r = handle
    BY <2>1, <2>2 DEF Alive, TypeOK
  <2>4. Asking("up") = {key[handle]} /\ Asking("closing") = {}
    BY <1>2, <1>5, <2>1, <2>2
  <2>5. \A s \in Server : s = handle => Asking("closing")' = {key'[s]} /\ Asking("up")' = {}
    BY <1>3, <2>3
  <2> QED
    BY <2>1, <2>4, <2>5 DEF External!Cancel
<1>6. ASSUME NEW t \in Caller, LockStop(t), handle = None \/ task[handle] # "up"
      PROVE  UNCHANGED <<task, key>>
  BY <1>6 DEF LockStop, Closing, TypeOK
<1>7. ASSUME NEW t \in Caller, Joined(t)
      PROVE  \A s \in Server : Alive(s) \/ Alive(s)' => task'[s] = task[s] /\ key'[s] = key[s]
  BY <1>7 DEF Joined, MutexInv, Alive, TypeOK
<1>8. ASSUME NEW t \in Caller, LockStart(t)
      PROVE  \A s \in Server : Alive(s) \/ Alive(s)' => task'[s] = task[s] /\ key'[s] = key[s]
  <2>1. CASE Running
    BY <1>8, <2>1 DEF LockStart
  <2>2. CASE ~Running
    <3>1. \A s \in Server : s = handle => ~Alive(s)
      BY <2>2 DEF Running, Alive, TypeOK
    <3> QED
      BY <1>8, <2>2, <3>1 DEF LockStart, Alive
  <2> QED
    BY <2>1, <2>2
<1>9. ASSUME NEW t \in Caller, NEW s \in Server, Bind(t, s)
      PROVE  \E k \in Token : External!Start(k)
  <2>1. holder = t /\ tok[t] \in Token
    BY <1>9 DEF Bind, MutexInv
  <2>2. \A r \in Server : ~Alive(r)
    BY <1>9, <2>1 DEF Bind, MutexInv
  <2>3. task'[s] = "up" /\ key'[s] = tok[t] /\ \A r \in Server : Alive(r)' => r = s
    BY <1>9, <2>2 DEF Bind, Alive, TypeOK
  <2>4. Asking("up") = {} /\ Asking("closing") = {}
    BY <1>2, <2>2
  <2>5. Asking("up")' = {tok[t]} /\ Asking("closing")' = {}
    BY <1>3, <2>3
  <2>6. External!Start(tok[t])
    BY <2>4, <2>5 DEF External!Start
  <2> QED
    BY <2>1, <2>6
<1>10. ASSUME NEW s \in Server, Closed(s) \/ Dies(s)
       PROVE  External!Finish \/ External!Die
  <2>1. Alive(s) /\ ~Alive(s)' /\ key' = key /\ \A r \in Server \ {s} : task'[r] = task[r]
    BY <1>10 DEF Closed, Dies, Alive, TypeOK
  <2>2. \A r \in Server : Alive(r) => r = s
    BY <2>1 DEF MutexInv
  <2>3. \A r \in Server : Alive(r)' => r = s
    BY <2>1, <2>2 DEF Alive
  <2>4. Asking("up")' = {} /\ Asking("closing")' = {}
    BY <1>3, <2>1, <2>3
  <2>5. CASE task[s] = "up"
    BY <1>2, <2>2, <2>4, <2>5 DEF External!Die
  <2>6. CASE task[s] = "closing"
    BY <1>2, <2>2, <2>4, <2>6 DEF External!Finish
  <2> QED
    BY <2>1, <2>5, <2>6 DEF Alive
<1>11. ASSUME NEW t \in Caller,
              \/ Boot(t) \/ CallCommand(t) \/ GiveUp(t) \/ ReadEnabled(t) \/ WriteEnabled(t) \/ ReadToken(t)
              \/ AskRunning(t) \/ Status(t)
              \/ \E k \in Token : WriteToken(t, k) \/ CreateToken(t, k)
       PROVE  UNCHANGED <<task, key>>
  BY <1>11 DEF Boot, CallCommand, Call, GiveUp, ReadEnabled, WriteEnabled, ReadToken, AskRunning, Status,
     WriteToken, CreateToken
<1>12. UNCHANGED vars => UNCHANGED <<task, key>>
  BY DEF vars
<1>13. ASSUME UNCHANGED <<task, key>>
       PROVE  UNCHANGED External!serverVars
  BY <1>1, <1>4, <1>13
<1>14. ASSUME NEW t \in Caller, Continue(t) \/ Waiting(t)
       PROVE  [External!ServerNext]_External!serverVars
  <2>1. CASE LockStop(t)
    <3>1. CASE handle # None /\ task[handle] = "up"
      BY <1>5, <2>1, <3>1 DEF External!ServerNext
    <3>2. CASE handle = None \/ task[handle] # "up"
      BY <1>6, <1>13, <2>1, <3>2
    <3> QED
      BY <3>1, <3>2
  <2>2. CASE Joined(t) \/ LockStart(t)
    BY <1>1, <1>4, <1>7, <1>8, <2>2
  <2>3. CASE \E s \in Server : Bind(t, s)
    BY <1>9, <2>3 DEF External!ServerNext
  <2> QED
    BY <1>11, <1>13, <1>14, <2>1, <2>2, <2>3 DEF Continue, Waiting
<1> QED
  BY <1>10, <1>11, <1>12, <1>13, <1>14 DEF Next, External!ServerNext

\* What a client sees of the control is the server of McpServer: one after the
\* other, with one token each, and none before the last one has finished.  The
\* safe half of ImplementsServer.
THEOREM ControlImplementsServer == Spec => External!ServerSpec
<1>1. Init => External!ServerInit
  <2> SUFFICES ASSUME Init
               PROVE  External!ServerInit
    OBVIOUS
  <2>1. Asking("up") = {} /\ Asking("closing") = {}
    BY DEF Init, Asking
  <2> QED
    BY <2>1 DEF External!ServerInit
<1>2. TypeOK /\ MutexInv /\ [Next]_vars => [External!ServerNext]_External!serverVars
  BY NextServer
<1> QED
  BY <1>1, <1>2, ControlInvariant, PTL DEF Spec, External!ServerSpec
=============================================================================
