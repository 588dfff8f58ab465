-------------------------- MODULE StreamViewerProofs --------------------------
(***************************************************************************)
(* What StreamViewer promises for every number of effects, connections,    *)
(* streams and callers.  The page composes with the streams without        *)
(* disturbing them, so what ObservabilityStreamsProofs says holds beside a *)
(* page too.  StartInv follows a start from the page to the command and    *)
(* back, EventInv the end of a stream from its task to the page.           *)
(***************************************************************************)
EXTENDS StreamViewer, ObservabilityStreamsProofs

\* A start under way has its caller for itself, and the page's channel is that
\* of the stream the caller registered.
Serves(t, g) ==
    /\ job[t] = "start"
    /\ \/ pc[t] \in {"lock", "register"} /\ mine[t] = {} /\ got[g] = None
       \/ pc[t] \in {"spawn", "supervise"} /\ got[g] \in Stream /\ mine[t] = {got[g]}

StartInv ==
    /\ \A g \in Generation :
          /\ effect[g] = "none" => start[g] = "none"
          /\ start[g] \in {"none", "asked", "failed"} => got[g] = None
          /\ start[g] = "answered" => got[g] \in Stream
          /\ start[g] = "called" => by[g] \in Caller /\ Serves(by[g], g)
    /\ \A g, h \in Generation : start[g] = "called" /\ start[h] = "called" /\ by[g] = by[h] => g = h

\* The task that sent the end of its stream has ended.
SentInv == \A s \in Stream : sent[s] # None => worker[s] = "ended"

\* The end of its stream is on the way to a page, or the page knows of it.
EventInv ==
    \A g \in Generation :
        /\ effect[g] = "active" /\ got[g] # None => (sent[got[g]] # None => over[g] \/ terminal[g])
        /\ status[g] = "streaming" => got[g] # None /\ ~terminal[g]

\* A stream is gone, was told to stop, or will be told by a call of the page.
BeingStopped(s) ==
    \E t \in Caller : /\ job[t] = "stop"
                      /\ \/ pc[t] = "collect" /\ s \in mine[t]
                         \/ pc[t] = "signal" /\ s \in todo[t]

GivenBack(s) == s \notin streams \/ cancelled[s] \/ s \in stopAsked \/ BeingStopped(s)

\* Safety of LeftStreamsEnd: once the answer to the start has been read, the
\* stream of a page that was left is given back.
LeftIsGivenBack ==
    \A g \in Generation, s \in Stream :
        effect[g] = "left" /\ start[g] = "read" /\ got[g] = s => GivenBack(s)

\* The page knows the id of its stream from the answer on, and an id that was
\* registered is not registered again.
LeftInv ==
    /\ \A g \in Generation :
          /\ start[g] = "read" => streamId[g] = got[g]
          /\ start[g] # "read" => streamId[g] = None
          /\ got[g] # None => of[got[g]] # None
    /\ LeftIsGivenBack

-----------------------------------------------------------------------------
(* The page beside the streams. *)

\* Whatever the page does, the streams and the commands make a step of theirs.
LEMMA StreamsStep == [ViewerNext]_viewerVars => [Next]_vars
<1> SUFFICES ASSUME [ViewerNext]_viewerVars
             PROVE  [Next]_vars
  OBVIOUS
<1>1. ASSUME NEW g \in Generation, Show(g) \/ ReadAnswer(g) \/ FlushEntries(g) \/ StreamStopped(g)
      PROVE  UNCHANGED vars
  BY <1>1 DEF Show, Rerun, ReadAnswer, Answered, StartRefused, FlushEntries, StreamStopped
<1>2. Leave => UNCHANGED vars
  BY DEF Leave, Rerun
<1>3. ASSUME NEW t \in Caller,
             \/ \E g \in Generation : StartArrives(g, t)
             \/ \E s \in Stream : StopArrives(s, t)
             \/ Others(t)
      PROVE  Calls(t)
  BY <1>3 DEF StartArrives, StopArrives, Others, Calls
<1>4. UNCHANGED viewerVars => UNCHANGED vars
  BY DEF viewerVars
<1> QED
  BY <1>1, <1>2, <1>3, <1>4 DEF ViewerNext, Next

\* Only a task that ends says so.
LEMMA CommandsSilent ==
    ASSUME NEW t \in Caller, Calls(t) \/ Lock(t) \/ Continue(t)
    PROVE  sent' = sent
<1> USE DEF stream
<1>1. CASE Calls(t)
  BY <1>1, CallKinds DEF Call
<1>2. CASE Lock(t)
  BY <1>2 DEF Lock
<1>3. CASE Continue(t)
  BY <1>3 DEF Continue, StartFails, Spawn, Supervise, DeleteRow, Collect, Register, SetReason, SetForce,
     Cancel, Waited, CooperativeTimeout, AbortHandle, AbortTimeout, Remove
<1> QED
  BY <1>1, <1>2, <1>3

LEMMA NextSentInv ==
    ASSUME TypeOK, CallerInv, StreamInv, SentInv, [Next]_vars
    PROVE  SentInv'
<1> USE DEF stream, taskless
<1>1. ASSUME NEW t \in Caller, Spawn(t)
      PROVE  SentInv'
  BY <1>1, CommandsSilent DEF Spawn, SentInv, StreamInv, TypeOK, Continue
<1>2. ASSUME NEW t \in Caller, Calls(t) \/ Lock(t) \/ Continue(t), ~Spawn(t)
      PROVE  SentInv'
  <2>1. worker' = worker
    <3>1. CASE Calls(t) \/ Lock(t)
      BY <3>1, CallKinds DEF Call, Lock
    <3>2. CASE Continue(t)
      BY <1>2, <3>2 DEF Continue, StartFails, Supervise, DeleteRow, Collect, Register, SetReason, SetForce,
         Cancel, Waited, CooperativeTimeout, AbortHandle, AbortTimeout, Remove
    <3> QED
      BY <1>2, <3>1, <3>2
  <2> QED
    BY <1>2, <2>1, CommandsSilent DEF SentInv
<1>3. ASSUME NEW s \in Stream, SourceEnds(s) \/ Panics(s) \/ Wind(s)
      PROVE  SentInv'
  BY <1>3 DEF SourceEnds, Panics, Wind, ReadCancelled, ReadReason, Aborted, Finish, To, SentInv, TypeOK
<1>4. CASE UNCHANGED vars
  BY <1>4 DEF vars, SentInv
<1> QED
  BY <1>1, <1>2, <1>3, <1>4 DEF Next

\* The steps of a start.
LEMMA StartSteps ==
    ASSUME TypeOK, CallerInv, StreamInv, SentInv, NEW t \in Caller, job[t] = "start", Lock(t) \/ Continue(t)
    PROVE  \/ /\ job'[t] = "start" /\ mine'[t] = mine[t]
              /\ \/ pc[t] = "lock" /\ pc'[t] = "register"
                 \/ pc[t] = "spawn" /\ pc'[t] = "supervise"
           \/ /\ job'[t] = "start" /\ pc[t] = "register" /\ pc'[t] = "spawn"
              /\ \E s \in Stream : mine'[t] = {s} /\ sent'[s] = None
           \/ pc[t] \in {"register", "supervise"} /\ pc'[t] = "idle" /\ mine'[t] = {}
<1>1. pc[t] \in {"lock", "register", "spawn", "supervise"}
  BY DEF CallerInv, Path
<1>2. CASE Lock(t)
  BY <1>2 DEF Lock, AfterLock, Goto, TypeOK
<1>3. CASE StartFails(t) \/ Supervise(t)
  BY <1>3, ReturnsAlone DEF StartFails, Supervise
<1>4. CASE Spawn(t)
  BY <1>4 DEF Spawn, Goto, TypeOK
<1>5. CASE \E s \in Stream : Register(t, s)
  <2>1. PICK s \in Stream : Register(t, s)
    BY <1>5
  <2>2. /\ pc[t] = "register" /\ pc'[t] = "spawn" /\ job'[t] = job[t] /\ mine'[t] = {s}
        /\ of[s] = None /\ sent' = sent
    BY <2>1 DEF Register, Goto, TypeOK
  <2>3. sent[s] = None
    BY <2>2 DEF StreamInv, SentInv
  <2> QED
    BY <2>2, <2>3
<1>6. CASE Continue(t)
  BY <1>1, <1>3, <1>4, <1>5, <1>6 DEF Continue, DeleteRow, Collect, SetReason, SetForce,
     Cancel, Waited, CooperativeTimeout, AbortHandle, AbortTimeout, Remove
<1> QED
  BY <1>2, <1>6

-----------------------------------------------------------------------------
(* What a step sends to the page. *)

Acts == (\E t \in Caller : Lock(t) \/ Continue(t)) \/ \E s \in Stream : SourceEnds(s) \/ Panics(s) \/ Wind(s)

\* A step leaves a caller alone, but for its own.
LEMMA ActsAlone ==
    ASSUME TypeOK, Acts, NEW u \in Caller, ~(Lock(u) \/ Continue(u))
    PROVE  pc'[u] = pc[u] /\ job'[u] = job[u] /\ mine'[u] = mine[u]
<1>1. ASSUME NEW t \in Caller, Lock(t) \/ Continue(t)
      PROVE  pc'[u] = pc[u] /\ job'[u] = job[u] /\ mine'[u] = mine[u]
  BY <1>1, CallerSteps DEF OthersStay
<1>2. ASSUME NEW s \in Stream, SourceEnds(s) \/ Panics(s) \/ Wind(s)
      PROVE  pc'[u] = pc[u] /\ job'[u] = job[u] /\ mine'[u] = mine[u]
  BY <1>2 DEF SourceEnds, Panics, Wind, ReadCancelled, ReadReason, Aborted, Finish, caller
<1> QED
  BY <1>1, <1>2 DEF Acts

LEMMA SendsOne ==
    ASSUME TypeOK, CallerInv, StreamInv, SentInv, Acts, Sends,
           NEW g \in Generation, NEW u \in Caller, start[g] = "called", by[g] = u, Serves(u, g)
    PROVE  \/ /\ start'[g] = "called" /\ by'[g] = u /\ Serves(u, g)'
              /\ \/ got'[g] = got[g]
                 \/ got'[g] \in Stream /\ sent'[got'[g]] = None
           \/ start'[g] = "answered" /\ by'[g] = None /\ got'[g] = got[g] /\ got[g] \in Stream
           \/ start'[g] = "failed" /\ by'[g] = None /\ got'[g] = got[g] /\ got[g] = None
<1> USE StreamsAssumption
<1>1. /\ got'[g] = IF mine'[u] # {} THEN TheOne(mine'[u]) ELSE got[g]
      /\ start'[g] = IF pc[u] # "idle" /\ pc'[u] = "idle" THEN (IF got[g] = None THEN "failed" ELSE "answered")
                     ELSE "called"
      /\ by'[g] = IF pc[u] # "idle" /\ pc'[u] = "idle" THEN None ELSE u
  <2>1. Returns(g) <=> pc[u] # "idle" /\ pc'[u] = "idle"
    BY DEF Returns
  <2>2. got'[g] = IF mine'[u] # {} THEN TheOne(mine'[u]) ELSE got[g]
    BY DEF Sends
  <2>3. start'[g] = IF Returns(g) THEN (IF got[g] = None THEN "failed" ELSE "answered") ELSE start[g]
    BY DEF Sends
  <2>4. by'[g] = IF Returns(g) THEN None ELSE by[g]
    BY DEF Sends
  <2> QED
    BY <2>1, <2>2, <2>3, <2>4
<1>2. job[u] = "start" /\ pc[u] # "idle"
  BY DEF Serves
<1>3. \A s : TheOne({s}) = s
  BY DEF TheOne
<1>4. ASSUME mine'[u] = mine[u]
      PROVE  got'[g] = got[g]
  <2>1. CASE mine[u] = {}
    BY <1>1, <1>4, <2>1
  <2>2. CASE mine[u] = {got[g]}
    <3>1. TheOne(mine[u]) = got[g]
      BY <1>3, <2>2
    <3> QED
      BY <1>1, <1>4, <2>2, <3>1
  <2> QED
    BY <2>1, <2>2 DEF Serves
<1>5. CASE pc'[u] = pc[u] /\ job'[u] = job[u] /\ mine'[u] = mine[u]
  <2>1. start'[g] = "called" /\ by'[g] = u
    BY <1>1, <1>5
  <2> QED
    BY <1>4, <1>5, <2>1 DEF Serves
<1>6. CASE Lock(u) \/ Continue(u)
  <2>1. CASE /\ job'[u] = "start" /\ mine'[u] = mine[u]
             /\ \/ pc[u] = "lock" /\ pc'[u] = "register"
                \/ pc[u] = "spawn" /\ pc'[u] = "supervise"
    <3>1. start'[g] = "called" /\ by'[g] = u
      BY <1>1, <2>1
    <3> QED
      BY <1>4, <2>1, <3>1 DEF Serves
  <2>2. CASE /\ job'[u] = "start" /\ pc[u] = "register" /\ pc'[u] = "spawn"
             /\ \E s \in Stream : mine'[u] = {s} /\ sent'[s] = None
    <3>1. PICK s \in Stream : mine'[u] = {s} /\ sent'[s] = None
      BY <2>2
    <3>2. got'[g] = s
      BY <1>1, <1>3, <3>1
    <3> QED
      BY <1>1, <2>2, <3>1, <3>2 DEF Serves
  <2>3. CASE pc[u] \in {"register", "supervise"} /\ pc'[u] = "idle" /\ mine'[u] = {}
    BY <1>1, <1>2, <2>3 DEF Serves
  <2> QED
    BY <1>2, <1>6, <2>1, <2>2, <2>3, StartSteps
<1> QED
  BY <1>5, <1>6, ActsAlone

LEMMA SendsNone ==
    ASSUME Sends, NEW g \in Generation, start[g] # "called"
    PROVE  UNCHANGED <<start[g], by[g], got[g]>>
<1>1. ~Returns(g)
  BY DEF Returns
<1>2. start'[g] = start[g]
  BY <1>1 DEF Sends
<1>3. by'[g] = by[g]
  BY <1>1 DEF Sends
<1>4. got'[g] = got[g]
  BY DEF Sends
<1> QED
  BY <1>2, <1>3, <1>4

\* The page comes, goes or turns to another source: one effect at most begins.
LEMMA RerunEffects ==
    ASSUME NEW new \in SUBSET Generation, \A g \in new : effect[g] = "none", Rerun(new), NEW g \in Generation
    PROVE  /\ effect'[g] = IF g \in new THEN "active" ELSE IF effect[g] = "active" THEN "left" ELSE effect[g]
           /\ status'[g] = IF g \in new THEN "starting" ELSE IF effect[g] = "active" THEN "idle" ELSE status[g]
           /\ start'[g] = IF g \in new THEN "asked" ELSE start[g]
           /\ over'[g] <=> (effect[g] # "active" /\ over[g])
           /\ UNCHANGED <<vars, streamId, terminal, by, got>>
<1>1. g \in Active <=> effect[g] = "active"
  BY DEF Active
<1>2. g \in new => g \notin Active
  BY <1>1
<1>3. effect'[g] = IF g \in new THEN "active" ELSE IF effect[g] = "active" THEN "left" ELSE effect[g]
  BY <1>1, <1>2 DEF Rerun
<1>4. status'[g] = IF g \in new THEN "starting" ELSE IF effect[g] = "active" THEN "idle" ELSE status[g]
  BY <1>1, <1>2 DEF Rerun
<1>5. start'[g] = IF g \in new THEN "asked" ELSE start[g]
  BY DEF Rerun
<1>6. over'[g] <=> (effect[g] # "active" /\ over[g])
  BY <1>1 DEF Rerun
<1>7. UNCHANGED <<vars, streamId, terminal, by, got>>
  BY DEF Rerun
<1> QED
  BY <1>3, <1>4, <1>5, <1>6, <1>7

\* The kinds of a step.
LEMMA ViewerKinds ==
    ASSUME [ViewerNext]_viewerVars
    PROVE  \/ \E new \in SUBSET Generation : (\A g \in new : effect[g] = "none") /\ Rerun(new)
           \/ \E g \in Generation : ReadAnswer(g) \/ FlushEntries(g) \/ StreamStopped(g)
           \/ \E t \in Caller, g \in Generation : StartArrives(g, t)
           \/ \E t \in Caller : Others(t) \/ \E s \in Stream : StopArrives(s, t)
           \/ Acts /\ Sends
           \/ UNCHANGED viewerVars
<1>1. ASSUME NEW g \in Generation, Show(g)
      PROVE  \E new \in SUBSET Generation : (\A h \in new : effect[h] = "none") /\ Rerun(new)
  <2>1. {g} \in SUBSET Generation /\ (\A h \in {g} : effect[h] = "none") /\ Rerun({g})
    BY <1>1 DEF Show
  <2> QED
    BY <2>1
<1>2. ASSUME Leave
      PROVE  \E new \in SUBSET Generation : (\A h \in new : effect[h] = "none") /\ Rerun(new)
  <2>1. {} \in SUBSET Generation /\ (\A h \in {} : effect[h] = "none") /\ Rerun({})
    BY <1>2 DEF Leave
  <2> QED
    BY <2>1
<1> QED
  BY <1>1, <1>2 DEF ViewerNext, Acts

LEMMA NextStartInv ==
    ASSUME TypeOK, ViewerTypeOK, CallerInv, StreamInv, SentInv, StartInv, [ViewerNext]_viewerVars
    PROVE  StartInv'
<1> USE StreamsAssumption DEF page, wire
<1> DEFINE Fine(g) ==
        /\ effect[g] = "none" => start[g] = "none"
        /\ start[g] \in {"none", "asked", "failed"} => got[g] = None
        /\ start[g] = "answered" => got[g] \in Stream
        /\ start[g] = "called" => by[g] \in Caller /\ Serves(by[g], g)
<1>1. \A g \in Generation : Fine(g)
  BY DEF StartInv
\* No two starts have the same caller.
<1>2. ASSUME \A g \in Generation : Fine(g)',
             \A g \in Generation : start'[g] = "called" => start[g] = "called" /\ by'[g] = by[g]
      PROVE  StartInv'
  BY <1>2 DEF StartInv
<1>3. ASSUME NEW new \in SUBSET Generation, \A g \in new : effect[g] = "none", Rerun(new)
      PROVE  StartInv'
  <2>1. UNCHANGED <<by, got, pc, job, mine>>
    BY <1>3 DEF Rerun, vars, caller
  <2>2. ASSUME NEW g \in Generation
        PROVE  Fine(g)' /\ (start'[g] = "called" => start[g] = "called" /\ by'[g] = by[g])
    <3>1. /\ effect'[g] = IF g \in new THEN "active" ELSE IF effect[g] = "active" THEN "left" ELSE effect[g]
          /\ start'[g] = IF g \in new THEN "asked" ELSE start[g]
      BY <1>3, RerunEffects
    <3> QED
      BY <1>1, <1>3, <2>1, <3>1 DEF Serves
  <2> QED
    BY <1>2, <2>2
<1>4. ASSUME NEW h \in Generation, ReadAnswer(h) \/ FlushEntries(h) \/ StreamStopped(h)
      PROVE  StartInv'
  <2>1. UNCHANGED <<effect, by, got, pc, job, mine>>
    BY <1>4 DEF ReadAnswer, Answered, StartRefused, FlushEntries, StreamStopped, vars, caller
  <2>2. start' = start \/ (start' = [start EXCEPT ![h] = "read"] /\ start[h] # "none")
    BY <1>4 DEF ReadAnswer, Answered, StartRefused, FlushEntries, StreamStopped
  <2>3. ASSUME NEW g \in Generation
        PROVE  start'[g] = start[g] \/ (start'[g] = "read" /\ start[g] # "none")
    BY <2>2 DEF ViewerTypeOK
  <2>4. ASSUME NEW g \in Generation
        PROVE  Fine(g)' /\ (start'[g] = "called" => start[g] = "called" /\ by'[g] = by[g])
    BY <1>1, <2>1, <2>3 DEF Serves
  <2> QED
    BY <1>2, <2>4
\* A call is taken up by a caller that is idle, so it serves no start yet.
<1>5. ASSUME NEW t \in Caller, Calls(t)
      PROVE  /\ \A u \in Caller \ {t} : pc'[u] = pc[u] /\ job'[u] = job[u] /\ mine'[u] = mine[u]
             /\ \A g \in Generation : start[g] = "called" => by[g] # t
  <2>1. pc[t] = "idle"
    BY <1>5, CallKinds DEF Call
  <2> QED
    BY <1>1, <1>5, <2>1, CallerSteps DEF OthersStay, Serves
<1>6. ASSUME NEW t \in Caller, NEW h \in Generation, StartArrives(h, t)
      PROVE  StartInv'
  <2>1. Calls(t)
    BY <1>6 DEF StartArrives, Calls
  <2>2. /\ start[h] = "asked" /\ start' = [start EXCEPT ![h] = "called"] /\ by' = [by EXCEPT ![h] = t]
        /\ UNCHANGED <<effect, got>>
    BY <1>6 DEF StartArrives
  <2>3. pc'[t] = "lock" /\ job'[t] = "start" /\ mine'[t] = {}
    BY <1>6 DEF StartArrives, CallStart, Call, Goto, TypeOK
  <2>4. start'[h] = "called" /\ by'[h] = t /\ \A g \in Generation \ {h} : start'[g] = start[g] /\ by'[g] = by[g]
    BY <2>2 DEF ViewerTypeOK
  <2>5. Fine(h)'
    BY <1>1, <2>2, <2>3, <2>4 DEF Serves
  <2>6. \A g \in Generation \ {h} : Fine(g)'
    BY <1>1, <1>5, <2>1, <2>2, <2>4 DEF Serves
  <2> QED
    BY <1>5, <2>1, <2>4, <2>5, <2>6 DEF StartInv
<1>7. ASSUME NEW t \in Caller, Others(t) \/ \E s \in Stream : StopArrives(s, t)
      PROVE  StartInv'
  <2>1. Calls(t) /\ UNCHANGED <<effect, start, by, got>>
    BY <1>7 DEF Others, StopArrives, Calls
  <2>2. \A g \in Generation : Fine(g)'
    BY <1>1, <1>5, <2>1 DEF Serves
  <2> QED
    BY <1>2, <2>1, <2>2
<1>8. ASSUME Acts, Sends
      PROVE  StartInv'
  <2>1. effect' = effect
    BY <1>8 DEF Sends
  <2>2. ASSUME NEW g \in Generation
        PROVE  Fine(g)' /\ (start'[g] = "called" => start[g] = "called" /\ by'[g] = by[g])
    <3>1. CASE start[g] = "called"
      <4>1. PICK u \in Caller : by[g] = u
        BY <1>1, <3>1
      <4>2. Serves(u, g) /\ effect[g] # "none"
        BY <1>1, <3>1, <4>1
      <4> QED
        BY <1>8, <2>1, <3>1, <4>1, <4>2, SendsOne
    <3>2. CASE start[g] # "called"
      BY <1>1, <1>8, <2>1, <3>2, SendsNone
    <3> QED
      BY <3>1, <3>2
  <2> QED
    BY <1>2, <2>2
<1>9. CASE UNCHANGED viewerVars
  BY <1>1, <1>2, <1>9 DEF viewerVars, vars, caller, Serves
<1> QED
  BY <1>3, <1>4, <1>6, <1>7, <1>8, <1>9, ViewerKinds

LEMMA NextViewerTypeOK ==
    ASSUME TypeOK, ViewerTypeOK, CallerInv, StreamInv, SentInv, StartInv, [ViewerNext]_viewerVars
    PROVE  ViewerTypeOK'
<1> USE DEF page, wire
<1>1. TypeOK'
  BY StreamsStep, NextTypeOK
<1>2. ASSUME NEW new \in SUBSET Generation, Rerun(new)
      PROVE  ViewerTypeOK'
  <2>1. UNCHANGED <<streamId, terminal, by, got>>
    BY <1>2 DEF Rerun
  <2>2. effect' \in [Generation -> {"none", "active", "left"}]
    BY <1>2 DEF Rerun, ViewerTypeOK
  <2>3. status' \in [Generation -> {"idle", "starting", "streaming", "stopped", "error"}]
    BY <1>2 DEF Rerun, ViewerTypeOK
  <2>4. start' \in [Generation -> {"none", "asked", "called", "answered", "failed", "read"}]
    BY <1>2 DEF Rerun, ViewerTypeOK
  <2>5. over' \in [Generation -> BOOLEAN]
    BY <1>2 DEF Rerun, ViewerTypeOK
  <2>6. stopAsked' \in SUBSET Stream
    <3>1. {streamId[g] : g \in {h \in Active : streamId[h] # None}} \subseteq Stream
      BY DEF ViewerTypeOK, Active
    <3> QED
      BY <1>2, <3>1 DEF Rerun, ViewerTypeOK
  <2> QED
    BY <1>1, <2>1, <2>2, <2>3, <2>4, <2>5, <2>6 DEF ViewerTypeOK
<1>3. ASSUME NEW g \in Generation, ReadAnswer(g) \/ FlushEntries(g) \/ StreamStopped(g)
      PROVE  ViewerTypeOK'
  <2>1. CASE Answered(g)
    <3>1. got[g] \in Stream
      BY <2>1 DEF Answered, StartInv
    <3> QED
      BY <1>1, <2>1, <3>1 DEF Answered, ViewerTypeOK
  <2>2. CASE StartRefused(g)
    BY <1>1, <2>2 DEF StartRefused, ViewerTypeOK
  <2>3. CASE FlushEntries(g)
    BY <1>1, <2>3 DEF FlushEntries, ViewerTypeOK
  <2>4. CASE StreamStopped(g)
    BY <1>1, <2>4 DEF StreamStopped, ViewerTypeOK
  <2> QED
    BY <1>3, <2>1, <2>2, <2>3, <2>4 DEF ReadAnswer
<1>4. ASSUME NEW t \in Caller, NEW g \in Generation, StartArrives(g, t)
      PROVE  ViewerTypeOK'
  BY <1>1, <1>4 DEF StartArrives, ViewerTypeOK
<1>5. ASSUME NEW t \in Caller, Others(t) \/ \E s \in Stream : StopArrives(s, t)
      PROVE  ViewerTypeOK'
  BY <1>1, <1>5 DEF Others, StopArrives, ViewerTypeOK
<1>6. ASSUME Acts, Sends
      PROVE  ViewerTypeOK'
  <2>1. ASSUME NEW g \in Generation
        PROVE  /\ got'[g] \in Stream \cup {None} /\ by'[g] \in Caller \cup {None}
               /\ start'[g] \in {"none", "asked", "called", "answered", "failed", "read"}
    <3>1. CASE start[g] = "called"
      <4>1. PICK u \in Caller : by[g] = u
        BY <3>1 DEF StartInv
      <4>2. Serves(u, g)
        BY <3>1, <4>1 DEF StartInv
      <4> QED
        BY <1>6, <3>1, <4>1, <4>2, SendsOne DEF ViewerTypeOK
    <3>2. CASE start[g] # "called"
      BY <1>6, <3>2, SendsNone DEF ViewerTypeOK
    <3> QED
      BY <3>1, <3>2
  <2>2. /\ got' = [g \in Generation |-> got'[g]]
        /\ start' = [g \in Generation |-> start'[g]]
        /\ by' = [g \in Generation |-> by'[g]]
    BY <1>6 DEF Sends
  <2>3. /\ got' \in [Generation -> Stream \cup {None}]
        /\ start' \in [Generation -> {"none", "asked", "called", "answered", "failed", "read"}]
        /\ by' \in [Generation -> Caller \cup {None}]
    BY <2>1, <2>2
  <2>4. over' \in [Generation -> BOOLEAN]
    BY <1>6 DEF Sends, ViewerTypeOK
  <2>5. UNCHANGED <<effect, streamId, terminal, status, stopAsked>>
    BY <1>6 DEF Sends
  <2> QED
    BY <1>1, <2>3, <2>4, <2>5 DEF ViewerTypeOK
<1>7. CASE UNCHANGED viewerVars
  BY <1>1, <1>7 DEF viewerVars, ViewerTypeOK
<1> QED
  BY <1>2, <1>3, <1>4, <1>5, <1>6, <1>7, ViewerKinds

LEMMA NextEventInv ==
    ASSUME TypeOK, ViewerTypeOK, CallerInv, StreamInv, SentInv, StartInv, EventInv, [ViewerNext]_viewerVars
    PROVE  EventInv'
<1> USE StreamsAssumption DEF page, wire
<1> DEFINE Told(g) == effect[g] = "active" /\ got[g] # None => (sent[got[g]] # None => over[g] \/ terminal[g])
           Honest(g) == status[g] = "streaming" => got[g] # None /\ ~terminal[g]
<1>1. \A g \in Generation : Told(g) /\ Honest(g)
  BY DEF EventInv
<1>2. ASSUME \A g \in Generation : Told(g)' /\ Honest(g)'
      PROVE  EventInv'
  BY <1>2 DEF EventInv
<1>3. ASSUME NEW new \in SUBSET Generation, \A g \in new : effect[g] = "none", Rerun(new)
      PROVE  EventInv'
  <2>1. UNCHANGED <<got, terminal>> /\ sent' = sent
    BY <1>3 DEF Rerun, vars, stream
  <2>2. ASSUME NEW g \in Generation
        PROVE  Told(g)' /\ Honest(g)'
    <3>1. /\ effect'[g] = IF g \in new THEN "active" ELSE IF effect[g] = "active" THEN "left" ELSE effect[g]
          /\ status'[g] = IF g \in new THEN "starting" ELSE IF effect[g] = "active" THEN "idle" ELSE status[g]
      BY <1>3, RerunEffects
    <3>2. g \in new => got[g] = None
      BY <1>3 DEF StartInv
    <3>3. Told(g)'
      BY <2>1, <3>1, <3>2
    <3>4. Honest(g)'
      BY <1>1, <2>1, <3>1
    <3> QED
      BY <3>3, <3>4
  <2> QED
    BY <1>2, <2>2
<1>4. ASSUME NEW h \in Generation, ReadAnswer(h) \/ FlushEntries(h)
      PROVE  EventInv'
  <2>1. UNCHANGED <<effect, got, terminal, over>> /\ sent' = sent
    BY <1>4 DEF ReadAnswer, Answered, StartRefused, FlushEntries, vars, stream
  <2>2. ASSUME NEW g \in Generation
        PROVE  status'[g] = "streaming" => status[g] = "streaming" \/ (got[g] # None /\ ~terminal[g])
    <3>1. CASE Answered(h)
      <4>1. got[h] \in Stream
        BY <3>1 DEF Answered, StartInv
      <4> QED
        BY <3>1, <4>1 DEF Answered, ViewerTypeOK
    <3>2. CASE StartRefused(h) \/ FlushEntries(h)
      BY <3>2 DEF StartRefused, FlushEntries, ViewerTypeOK
    <3> QED
      BY <1>4, <3>1, <3>2 DEF ReadAnswer
  <2> QED
    BY <1>1, <1>2, <2>1, <2>2
<1>5. ASSUME NEW h \in Generation, StreamStopped(h)
      PROVE  EventInv'
  <2>1. UNCHANGED <<effect, got>> /\ sent' = sent
    BY <1>5 DEF StreamStopped, vars, stream
  <2>2. /\ terminal'[h] /\ status'[h] = "stopped"
        /\ \A g \in Generation \ {h} : UNCHANGED <<over[g], terminal[g], status[g]>>
    BY <1>5 DEF StreamStopped, ViewerTypeOK
  <2> QED
    BY <1>1, <1>2, <2>1, <2>2
<1>6. ASSUME NEW t \in Caller,
             (\E g \in Generation : StartArrives(g, t)) \/ Others(t) \/ \E s \in Stream : StopArrives(s, t)
      PROVE  EventInv'
  <2>1. Calls(t) /\ UNCHANGED <<effect, got, terminal, over, status>>
    BY <1>6 DEF StartArrives, Others, StopArrives, Calls
  <2>2. sent' = sent
    BY <2>1, CommandsSilent
  <2> QED
    BY <1>1, <1>2, <2>1, <2>2
\* A stream that has just been registered has sent nothing; what the stream of
\* an effect sends is on its way to it.
<1>7. ASSUME Acts, Sends
      PROVE  EventInv'
  <2>1. UNCHANGED <<effect, terminal, status>>
    BY <1>7 DEF Sends
  <2>2. ASSUME NEW g \in Generation
        PROVE  got'[g] = got[g] \/ (got'[g] \in Stream /\ sent'[got'[g]] = None)
    <3>1. CASE start[g] = "called"
      <4>1. PICK u \in Caller : by[g] = u
        BY <3>1 DEF StartInv
      <4>2. Serves(u, g)
        BY <3>1, <4>1 DEF StartInv
      <4> QED
        BY <1>7, <3>1, <4>1, <4>2, SendsOne
    <3>2. CASE start[g] # "called"
      BY <1>7, <3>2, SendsNone
    <3> QED
      BY <3>1, <3>2
  <2>3. ASSUME NEW g \in Generation
        PROVE  over'[g] <=> over[g] \/ (effect[g] = "active" /\ got[g] # None /\ sent'[got[g]] # sent[got[g]])
    BY <1>7 DEF Sends, Active
  <2>4. ASSUME NEW g \in Generation
        PROVE  Told(g)' /\ Honest(g)'
    <3>1. CASE got'[g] = got[g]
      <4>1. Told(g)'
        BY <1>1, <2>1, <2>3, <3>1
      <4> QED
        BY <1>1, <2>1, <3>1, <4>1
    <3>2. CASE got'[g] \in Stream /\ sent'[got'[g]] = None
      BY <1>1, <2>1, <3>2
    <3> QED
      BY <2>2, <3>1, <3>2
  <2> QED
    BY <1>2, <2>4
<1>8. CASE UNCHANGED viewerVars
  BY <1>1, <1>2, <1>8 DEF viewerVars, vars, stream
<1> QED
  BY <1>3, <1>4, <1>5, <1>6, <1>7, <1>8, ViewerKinds

-----------------------------------------------------------------------------
(* What becomes of a stream that is given back. *)

LEMMA StopsGoOn ==
    ASSUME TypeOK, [Next]_vars, NEW s \in Stream, of[s] # None
    PROVE  /\ of'[s] # None
           /\ s \notin streams => s \notin streams'
           /\ cancelled[s] => cancelled'[s]
           /\ BeingStopped(s) => s \notin streams' \/ cancelled'[s] \/ BeingStopped(s)'
<1> USE StreamsAssumption DEF stream, caller
<1>1. of'[s] # None /\ (s \notin streams => s \notin streams')
  <2>1. ASSUME NEW t \in Caller, NEW r \in Stream, Register(t, r)
        PROVE  r # s /\ of'[s] = of[s] /\ streams' = streams \cup {r}
    BY <2>1 DEF Register, TypeOK
  <2> QED
    BY <2>1, Onward
<1>2. ASSUME NEW t \in Caller, job[t] = "stop",
             (pc[t] = "collect" /\ s \in mine[t]) \/ (pc[t] = "signal" /\ s \in todo[t])
      PROVE  s \notin streams' \/ cancelled'[s] \/ BeingStopped(s)'
  <2>1. CASE pc'[t] = pc[t] /\ job'[t] = job[t] /\ mine'[t] = mine[t] /\ todo'[t] = todo[t]
    BY <1>2, <2>1 DEF BeingStopped
  <2>2. CASE Collect(t)
    <3>1. /\ pc[t] = "collect" /\ streams' = streams /\ Targets(t) = mine[t] \cap streams
          /\ Targets(t) # {} => /\ pc'[t] = "signal" /\ job'[t] = job[t]
                                /\ todo'[t] = Targets(t)
      BY <1>2, <2>2 DEF Collect, Targets, Goto, TypeOK
    <3>2. CASE s \in streams
      <4>1. s \in Targets(t)
        BY <1>2, <3>1, <3>2
      <4> QED
        BY <1>2, <3>1, <4>1 DEF BeingStopped
    <3> QED
      BY <3>1, <3>2
  <2>3. CASE Cancel(t)
    <3>1. /\ pc[t] = "signal" /\ job' = job /\ todo'[t] = todo[t] \ {cur[t]}
          /\ cancelled' = [cancelled EXCEPT ![cur[t]] = TRUE]
          /\ todo[t] # {cur[t]} => pc' = pc
      BY <2>3 DEF Cancel, Next1, Goto, TypeOK
    <3>2. CASE s = cur[t]
      BY <3>1, <3>2 DEF TypeOK
    <3>3. CASE s # cur[t]
      BY <1>2, <3>1, <3>3 DEF BeingStopped
    <3> QED
      BY <3>2, <3>3
  <2>4. ASSUME NEW u \in Caller, Calls(u) \/ Lock(u) \/ Continue(u), u # t
        PROVE  pc'[t] = pc[t] /\ job'[t] = job[t] /\ mine'[t] = mine[t] /\ todo'[t] = todo[t]
    BY <2>4, CallerSteps DEF OthersStay
  <2>5. ~Calls(t) /\ ~Lock(t)
    BY <1>2, CallKinds DEF Call, Lock
  <2>6. ASSUME Continue(t), ~Collect(t), ~Cancel(t)
        PROVE  pc'[t] = pc[t] /\ job'[t] = job[t] /\ mine'[t] = mine[t] /\ todo'[t] = todo[t]
    BY <1>2, <2>6 DEF Continue, StartFails, Spawn, Supervise, DeleteRow, Register, SetReason, SetForce,
       Waited, CooperativeTimeout, AbortHandle, AbortTimeout, Remove
  <2>7. ASSUME NEW r \in Stream, SourceEnds(r) \/ Panics(r) \/ Wind(r)
        PROVE  UNCHANGED caller
    BY <2>7 DEF SourceEnds, Panics, Wind, ReadCancelled, ReadReason, Aborted, Finish, taskless
  <2>8. UNCHANGED vars => UNCHANGED caller
    BY DEF vars
  <2> QED
    BY <2>1, <2>2, <2>3, <2>4, <2>5, <2>6, <2>7, <2>8 DEF Next
<1> QED
  BY <1>1, <1>2, Onward DEF BeingStopped

LEMMA GivenStays ==
    ASSUME TypeOK, [Next]_vars, NEW s \in Stream, of[s] # None, GivenBack(s),
           s \in stopAsked => s \in stopAsked' \/ BeingStopped(s)'
    PROVE  GivenBack(s)'
BY StopsGoOn DEF GivenBack

LEMMA NextLeftInv ==
    ASSUME TypeOK, ViewerTypeOK, CallerInv, StreamInv, SentInv, StartInv, LeftInv,
           [ViewerNext]_viewerVars, StreamInv', StartInv'
    PROVE  LeftInv'
<1> USE StreamsAssumption DEF page, wire
<1>1. [Next]_vars
  BY StreamsStep
<1> DEFINE Known(g) ==
        /\ start[g] = "read" => streamId[g] = got[g]
        /\ start[g] # "read" => streamId[g] = None
        /\ got[g] # None => of[got[g]] # None
           Left(g) == effect[g] = "left" /\ start[g] = "read"
<1>2. \A g \in Generation : Known(g)
  BY DEF LeftInv
\* What is left stays so, and what it gives back.
<1>3. ASSUME NEW g \in Generation, NEW s \in Stream, Left(g), got[g] = s,
             s \in stopAsked => s \in stopAsked' \/ BeingStopped(s)'
      PROVE  GivenBack(s)'
  <2>1. of[s] # None /\ GivenBack(s)
    BY <1>2, <1>3 DEF LeftInv, LeftIsGivenBack
  <2> QED
    BY <1>1, <1>3, <2>1, GivenStays
<1>4. ASSUME \A g \in Generation : Known(g)',
             \A g \in Generation, s \in Stream : Left(g)' /\ got'[g] = s => GivenBack(s)'
      PROVE  LeftInv'
  BY <1>4 DEF LeftInv, LeftIsGivenBack
<1>5. ASSUME NEW new \in SUBSET Generation, \A g \in new : effect[g] = "none", Rerun(new)
      PROVE  LeftInv'
  <2>1. UNCHANGED <<got, streamId>> /\ of' = of
    BY <1>5 DEF Rerun, vars, stream
  <2>2. stopAsked \subseteq stopAsked' /\ \A g \in Active : streamId[g] # None => streamId[g] \in stopAsked'
    BY <1>5 DEF Rerun
  <2>3. ASSUME NEW g \in Generation
        PROVE  /\ effect'[g] = IF g \in new THEN "active" ELSE IF effect[g] = "active" THEN "left" ELSE effect[g]
               /\ start'[g] = IF g \in new THEN "asked" ELSE start[g]
               /\ g \in new => start[g] = "none"
    BY <1>5, RerunEffects DEF StartInv
  <2>4. \A g \in Generation : Known(g)'
    BY <1>2, <2>1, <2>3
  <2>5. ASSUME NEW g \in Generation, NEW s \in Stream, Left(g)', got'[g] = s
        PROVE  GivenBack(s)'
    <3>1. start[g] = "read" /\ got[g] = s /\ effect[g] \in {"active", "left"}
      BY <2>1, <2>3, <2>5
    <3>2. CASE effect[g] = "active"
      <4>1. streamId[g] = s /\ s # None /\ g \in Active
        BY <1>2, <3>1, <3>2 DEF Active
      <4> QED
        BY <2>2, <4>1 DEF GivenBack
    <3>3. CASE effect[g] = "left"
      BY <1>3, <2>2, <3>1, <3>3
    <3> QED
      BY <3>1, <3>2, <3>3
  <2> QED
    BY <1>4, <2>4, <2>5
<1>6. ASSUME NEW h \in Generation, ReadAnswer(h) \/ FlushEntries(h) \/ StreamStopped(h)
      PROVE  LeftInv'
  <2>1. UNCHANGED <<got, effect>> /\ of' = of
    BY <1>6 DEF ReadAnswer, Answered, StartRefused, FlushEntries, StreamStopped, vars, stream
  <2>2. CASE Answered(h)
    <3>1. /\ start[h] = "answered" /\ start'[h] = "read" /\ streamId'[h] = got[h]
          /\ \A g \in Generation \ {h} : start'[g] = start[g] /\ streamId'[g] = streamId[g]
      BY <2>2 DEF Answered, ViewerTypeOK
    <3>2. /\ stopAsked \subseteq stopAsked'
          /\ effect[h] # "active" => got[h] \in stopAsked'
      BY <2>2 DEF Answered
    <3>3. \A g \in Generation : Known(g)'
      BY <1>2, <2>1, <3>1
    <3>4. ASSUME NEW g \in Generation, NEW s \in Stream, Left(g)', got'[g] = s
          PROVE  GivenBack(s)'
      <4>1. CASE g = h
        BY <2>1, <3>2, <3>4, <4>1 DEF GivenBack
      <4>2. CASE g # h
        BY <1>3, <2>1, <3>1, <3>2, <3>4, <4>2
      <4> QED
        BY <4>1, <4>2
    <3> QED
      BY <1>4, <3>3, <3>4
  <2>3. CASE StartRefused(h)
    <3>1. /\ start[h] = "failed" /\ start'[h] = "read" /\ streamId' = streamId /\ stopAsked' = stopAsked
          /\ \A g \in Generation \ {h} : start'[g] = start[g]
      BY <2>3 DEF StartRefused, ViewerTypeOK
    <3>2. got[h] = None
      BY <3>1 DEF StartInv
    <3>3. \A g \in Generation : Known(g)'
      BY <1>2, <2>1, <3>1, <3>2
    <3>4. ASSUME NEW g \in Generation, NEW s \in Stream, Left(g)', got'[g] = s
          PROVE  GivenBack(s)'
      <4>1. g # h
        BY <2>1, <3>2, <3>4
      <4> QED
        BY <1>3, <2>1, <3>1, <3>4, <4>1
    <3> QED
      BY <1>4, <3>3, <3>4
  <2>4. CASE FlushEntries(h) \/ StreamStopped(h)
    <3>1. UNCHANGED <<start, streamId, stopAsked>>
      BY <2>4 DEF FlushEntries, StreamStopped
    <3> QED
      BY <1>2, <1>3, <1>4, <2>1, <3>1
  <2> QED
    BY <1>6, <2>2, <2>3, <2>4 DEF ReadAnswer
\* An id stays registered.
<1>7. \A s \in Stream : of[s] # None => of'[s] # None
  BY <1>1, StopsGoOn
<1>8. \A g \in Generation : got[g] \in Stream \cup {None}
  BY DEF ViewerTypeOK
<1>9. ASSUME NEW t \in Caller, NEW h \in Generation, StartArrives(h, t)
      PROVE  LeftInv'
  <2>1. /\ UNCHANGED <<got, effect, streamId, stopAsked>>
        /\ start[h] = "asked" /\ start'[h] = "called"
        /\ \A g \in Generation \ {h} : start'[g] = start[g]
    BY <1>9 DEF StartArrives, ViewerTypeOK
  <2>2. \A g \in Generation : Known(g)'
    BY <1>2, <1>7, <1>8, <2>1
  <2>3. ASSUME NEW g \in Generation, NEW s \in Stream, Left(g)', got'[g] = s
        PROVE  GivenBack(s)'
    BY <1>3, <2>1, <2>3
  <2> QED
    BY <1>4, <2>2, <2>3
<1>10. ASSUME NEW t \in Caller, Others(t) \/ \E r \in Stream : StopArrives(r, t)
       PROVE  LeftInv'
  <2>1. UNCHANGED <<got, effect, streamId, start>>
    BY <1>10 DEF Others, StopArrives
  <2>2. \A g \in Generation : Known(g)'
    BY <1>2, <1>7, <1>8, <2>1
  <2>3. ASSUME NEW s \in stopAsked
        PROVE  s \in stopAsked' \/ BeingStopped(s)'
    <3>1. ASSUME StopArrives(s, t)
          PROVE  BeingStopped(s)'
      <4>1. job'[t] = "stop" /\ pc'[t] = "collect" /\ mine'[t] = {s}
        BY <3>1 DEF StopArrives, CallStop, Call, Goto, TypeOK
      <4> QED
        BY <4>1 DEF BeingStopped
    <3>2. ASSUME NEW r \in Stream, StopArrives(r, t), r # s
          PROVE  s \in stopAsked'
      BY <3>2 DEF StopArrives
    <3>3. Others(t) => s \in stopAsked'
      BY DEF Others
    <3> QED
      BY <1>10, <3>1, <3>2, <3>3
  <2>4. ASSUME NEW g \in Generation, NEW s \in Stream, Left(g)', got'[g] = s
        PROVE  GivenBack(s)'
    BY <1>3, <2>1, <2>3, <2>4
  <2> QED
    BY <1>4, <2>2, <2>4
<1>11. ASSUME Acts, Sends
       PROVE  LeftInv'
  <2>1. UNCHANGED <<effect, streamId, stopAsked>>
    BY <1>11 DEF Sends
  <2>2. ASSUME NEW g \in Generation, start[g] # "called"
        PROVE  Known(g)' /\ start'[g] = start[g] /\ got'[g] = got[g]
    <3>1. start'[g] = start[g] /\ got'[g] = got[g]
      BY <1>11, <2>2, SendsNone
    <3> QED
      BY <1>2, <1>7, <1>8, <2>1, <3>1
  <2>3. ASSUME NEW g \in Generation, start[g] = "called"
        PROVE  Known(g)' /\ start'[g] # "read"
    <3>1. PICK u \in Caller : by[g] = u
      BY <2>3 DEF StartInv
    <3>2. Serves(u, g)
      BY <2>3, <3>1 DEF StartInv
    <3>3. CASE start'[g] = "called" /\ by'[g] = u /\ Serves(u, g)'
      <4>1. got'[g] # None => got'[g] \in mine'[u] /\ Starting(u)'
        BY <3>3 DEF Serves, Starting
      <4>2. got'[g] # None => of'[got'[g]] # None
        BY <4>1 DEF StreamInv
      <4> QED
        BY <1>2, <2>1, <2>3, <3>3, <4>2
    <3>4. CASE start'[g] \in {"answered", "failed"} /\ got'[g] = got[g]
      BY <1>2, <1>7, <1>8, <2>1, <2>3, <3>4
    <3> QED
      BY <1>11, <2>3, <3>1, <3>2, <3>3, <3>4, SendsOne
  <2>4. ASSUME NEW g \in Generation, NEW s \in Stream, Left(g)', got'[g] = s
        PROVE  GivenBack(s)'
    BY <1>3, <2>1, <2>2, <2>3, <2>4
  <2> QED
    BY <1>4, <2>2, <2>3, <2>4
<1>12. CASE UNCHANGED viewerVars
  BY <1>2, <1>3, <1>4, <1>12 DEF viewerVars, vars, stream
<1> QED
  BY <1>5, <1>6, <1>9, <1>10, <1>11, <1>12, ViewerKinds

-----------------------------------------------------------------------------
(* The invariant of the page and the streams, and what it says. *)

ViewerInv == StreamsInv /\ ViewerTypeOK /\ StartInv /\ SentInv /\ EventInv /\ LeftInv

LEMMA ViewerInvariance == ViewerSpec => []ViewerInv
<1>1. ViewerInit => ViewerInv
  <2> SUFFICES ASSUME ViewerInit
               PROVE  ViewerInv
    OBVIOUS
  <2>1. Init
    BY DEF ViewerInit
  <2>2. StreamsInv
    BY <2>1, InitInv DEF StreamsInv
  <2>3. ViewerTypeOK
    BY <2>2 DEF ViewerInit, ViewerTypeOK, StreamsInv
  <2>4. StartInv /\ EventInv /\ LeftInv
    BY DEF ViewerInit, StartInv, EventInv, LeftInv, LeftIsGivenBack
  <2>5. SentInv
    BY <2>1 DEF Init, SentInv
  <2> QED
    BY <2>2, <2>3, <2>4, <2>5 DEF ViewerInv
<1>2. ViewerInv /\ [ViewerNext]_viewerVars => ViewerInv'
  <2> SUFFICES ASSUME ViewerInv, [ViewerNext]_viewerVars
               PROVE  ViewerInv'
    OBVIOUS
  <2>1. [Next]_vars
    BY StreamsStep
  <2>2. StreamsInv'
    BY <2>1, NextTypeOK, NextCallerInv, NextStreamInv, NextLimitInv, NextToldInv, NextSilentInv,
       NextExitInv, NextReasonInv, NextAbortInv DEF ViewerInv, StreamsInv
  <2>3. ViewerTypeOK' /\ StartInv' /\ EventInv'
    BY NextViewerTypeOK, NextStartInv, NextEventInv DEF ViewerInv, StreamsInv
  <2>4. SentInv'
    BY <2>1, NextSentInv DEF ViewerInv, StreamsInv
  <2>5. LeftInv'
    BY <2>2, <2>3, NextLeftInv DEF ViewerInv, StreamsInv
  <2> QED
    BY <2>2, <2>3, <2>4, <2>5 DEF ViewerInv
<1> QED
  BY <1>1, <1>2, PTL DEF ViewerSpec

\* Every variable of the page and of the wire keeps its type: a start that is
\* answered has a stream, and only a stream that was registered is given back.
THEOREM ViewerTypeCorrect == ViewerSpec => []ViewerTypeOK
<1>1. ViewerInv => ViewerTypeOK
  BY DEF ViewerInv
<1> QED
  BY <1>1, ViewerInvariance, PTL

\* Composed with a page the streams behave as they do alone: the page and the
\* wire add calls the commands may get anyway, and steps that leave them be.
\* What is proved of Spec holds beside any page.
THEOREM PageLeavesStreams == ViewerSpec => Spec
<1>1. ViewerInit => Init
  BY DEF ViewerInit
<1> QED
  BY <1>1, StreamsStep, PTL DEF ViewerSpec, Spec

\* A page that calls its stream live has not been told that it stopped, in
\* whatever order the answer to the start, the entries and the end of the
\* stream reach it, and however the streams are stopped.
THEOREM StreamingIsRight == ViewerSpec => []StreamingIsNotOver
<1>1. ViewerInv => StreamingIsNotOver
  BY DEF ViewerInv, EventInv, StreamingIsNotOver, Active
<1> QED
  BY <1>1, ViewerInvariance, PTL

\* The stream of a page that is left is given back, also if the page was left
\* while its start was under way: it is gone, was told to stop, or the call
\* that tells it is on its way.  The safe half of LeftStreamsEnd.
THEOREM LeftStreamsAreGivenBack == ViewerSpec => []LeftIsGivenBack
<1>1. ViewerInv => LeftIsGivenBack
  BY DEF ViewerInv, LeftInv
<1> QED
  BY <1>1, ViewerInvariance, PTL
=============================================================================
