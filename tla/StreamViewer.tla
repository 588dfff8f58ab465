---------------------------- MODULE StreamViewer ----------------------------
(***************************************************************************)
(* The page that shows a stream (useObservabilityStream.ts), composed with *)
(* the streams and the commands of ObservabilityStreams.  Every source,    *)
(* mode or connection the page turns to, and every retry, is a new         *)
(* generation: an effect that asks for a stream of its own, listens on a   *)
(* channel of its own, and gives its stream back when it is left - which   *)
(* may be before the command that starts it has returned.                  *)
(*                                                                         *)
(* Commands, their answers and the events of the channel travel on their   *)
(* own: the channel may be ahead of the answer to the start.               *)
(***************************************************************************)
EXTENDS ObservabilityStreams

CONSTANT
    MaxGenerations  \* bound: the effects of the page

ASSUME ViewerAssumption == MaxGenerations \in Nat

VARIABLES
    effect,     \* "none" before it runs, "active", and "left" after its cleanup
    start,      \* its call of start_observability_stream
    by,         \* the caller that works on that call
    got,        \* the stream that was registered for it: the one its channel is of
    streamId,   \* streamId: the answer to the call has been read
    terminal,   \* terminalEventReceived
    status,     \* StreamState.status
    over,       \* the channel has still to deliver the Stopped event
    stopAsked   \* calls of stop_observability_stream that have not begun

page == <<effect, streamId, terminal, status>>
wire == <<start, by, got, over, stopAsked>>
viewerVars == <<vars, page, wire>>

Generation == 1..MaxGenerations

ViewerTypeOK ==
    /\ TypeOK
    /\ effect \in [Generation -> {"none", "active", "left"}]
    /\ start \in [Generation -> {"none", "asked", "called", "answered", "failed", "read"}]
    /\ by \in [Generation -> Caller \cup {None}]
    /\ got \in [Generation -> Stream \cup {None}]
    /\ streamId \in [Generation -> Stream \cup {None}]
    /\ terminal \in [Generation -> BOOLEAN]
    /\ status \in [Generation -> {"idle", "starting", "streaming", "stopped", "error"}]
    /\ over \in [Generation -> BOOLEAN]
    /\ stopAsked \in SUBSET Stream

ViewerInit ==
    /\ Init
    /\ effect = [g \in Generation |-> "none"]
    /\ start = [g \in Generation |-> "none"]
    /\ by = [g \in Generation |-> None]
    /\ got = [g \in Generation |-> None]
    /\ streamId = [g \in Generation |-> None]
    /\ terminal = [g \in Generation |-> FALSE]
    /\ status = [g \in Generation |-> "idle"]
    /\ over = [g \in Generation |-> FALSE]
    /\ stopAsked = {}

-----------------------------------------------------------------------------
(* The page. *)

Active == {g \in Generation : effect[g] = "active"}

\* The cleanup of the active effect, which listens to its channel no more, and
\* the effects that run after it.
Rerun(new) ==
    /\ effect' = [g \in Generation |-> CASE g \in new -> "active"
                                         [] g \in Active -> "left"
                                         [] OTHER -> effect[g]]
    /\ status' = [g \in Generation |-> CASE g \in new -> "starting"
                                         [] g \in Active -> "idle"
                                         [] OTHER -> status[g]]
    /\ start' = [g \in Generation |-> IF g \in new THEN "asked" ELSE start[g]]
    /\ stopAsked' = stopAsked \cup {streamId[g] : g \in {h \in Active : streamId[h] # None}}
    /\ over' = [g \in Generation |-> g \notin Active /\ over[g]]
    /\ UNCHANGED <<vars, streamId, terminal, by, got>>

\* The page comes, turns to another source, or retries.
Show(g) ==
    /\ effect[g] = "none"
    /\ \A h \in 1..(g - 1) : effect[h] # "none"
    /\ Rerun({g})

\* The page goes, or has no source any more.
Leave == Active # {} /\ Rerun({})

\* An answer that sets the page streaming whatever came before it.
AnsweredUnchecked(g) ==
    /\ start[g] = "answered"
    /\ start' = [start EXCEPT ![g] = "read"]
    /\ streamId' = [streamId EXCEPT ![g] = got[g]]
    /\ IF effect[g] = "active"
       THEN status' = [status EXCEPT ![g] = "streaming"] /\ UNCHANGED stopAsked
       ELSE stopAsked' = stopAsked \cup {got[g]} /\ UNCHANGED status
    /\ UNCHANGED <<vars, effect, terminal, by, got, over>>

\* An answer that comes when nobody waits for it any more is dropped.
AnsweredLate(g) ==
    /\ start[g] = "answered"
    /\ start' = [start EXCEPT ![g] = "read"]
    /\ streamId' = [streamId EXCEPT ![g] = got[g]]
    /\ status' = [status EXCEPT ![g] = IF effect[g] = "active" /\ ~terminal[g]
                                       THEN "streaming" ELSE @]
    /\ UNCHANGED <<vars, effect, terminal, by, got, over, stopAsked>>

\* The start succeeded.  If the effect was left meanwhile, its stream goes.
Answered(g) ==
    /\ start[g] = "answered"
    /\ start' = [start EXCEPT ![g] = "read"]
    /\ streamId' = [streamId EXCEPT ![g] = got[g]]
    /\ IF effect[g] = "active"
       THEN /\ status' = [status EXCEPT ![g] = IF terminal[g] THEN @ ELSE "streaming"]
            /\ UNCHANGED stopAsked
       ELSE stopAsked' = stopAsked \cup {got[g]} /\ UNCHANGED status
    /\ UNCHANGED <<vars, effect, terminal, by, got, over>>

StartRefused(g) ==
    /\ start[g] = "failed"
    /\ start' = [start EXCEPT ![g] = "read"]
    /\ status' = [status EXCEPT ![g] = IF effect[g] = "active" THEN "error" ELSE @]
    /\ UNCHANGED <<vars, effect, streamId, terminal, by, got, over, stopAsked>>

\* Entries are shown one frame after they came: at any time after the stream
\* began, its end included, until the page was told of it.
FlushEntries(g) ==
    /\ g \in Active
    /\ got[g] # None
    /\ worker[got[g]] # "none"
    /\ ~terminal[g]
    /\ status' = [status EXCEPT ![g] = "streaming"]
    /\ UNCHANGED <<vars, effect, streamId, terminal, wire>>

\* The end does not wait: the entries are shown with it.  An error the source
\* ended with comes right before it.
StreamStopped(g) ==
    /\ over[g]
    /\ over' = [over EXCEPT ![g] = FALSE]
    /\ terminal' = [terminal EXCEPT ![g] = TRUE]
    /\ status' = [status EXCEPT ![g] = "stopped"]
    /\ UNCHANGED <<vars, effect, streamId, start, by, got, stopAsked>>

-----------------------------------------------------------------------------
(* Between the page and the commands. *)

StartArrives(g, t) ==
    /\ start[g] = "asked"
    /\ \E c \in Connection : CallStart(t, c)
    /\ start' = [start EXCEPT ![g] = "called"]
    /\ by' = [by EXCEPT ![g] = t]
    /\ UNCHANGED <<page, got, over, stopAsked>>

StopArrives(s, t) ==
    /\ s \in stopAsked
    /\ CallStop(t, s)
    /\ stopAsked' = stopAsked \ {s}
    /\ UNCHANGED <<page, start, by, got, over>>

\* The other commands, and the exit of the application.  A deletion does to the
\* streams what a disconnect does, and is left to ObservabilityStreams.
Others(t) ==
    /\ (\E c \in Connection : CallDisconnect(t, c)) \/ CallExit(t)
    /\ UNCHANGED <<page, wire>>

\* What a step of a command or of a task sends to the page: the answer to a
\* start that returns, and the Stopped event of a task that ends.
Returns(g) == start[g] = "called" /\ pc[by[g]] # "idle" /\ pc'[by[g]] = "idle"

\* The one stream a start registered.
TheOne(ss) == CHOOSE s \in ss : TRUE

Sends ==
    /\ got' = [g \in Generation |->
                  IF start[g] = "called" /\ mine'[by[g]] # {}
                  THEN TheOne(mine'[by[g]]) ELSE got[g]]
    /\ start' = [g \in Generation |->
                    IF Returns(g) THEN (IF got[g] = None THEN "failed" ELSE "answered") ELSE start[g]]
    /\ by' = [g \in Generation |-> IF Returns(g) THEN None ELSE by[g]]
    /\ over' = [g \in Generation |->
                   over[g] \/ (g \in Active /\ got[g] # None /\ sent'[got[g]] # sent[got[g]])]
    /\ UNCHANGED <<page, stopAsked>>

-----------------------------------------------------------------------------
ReadAnswer(g) == Answered(g) \/ StartRefused(g)

ViewerNext ==
    \/ \E g \in Generation :
          Show(g) \/ ReadAnswer(g) \/ FlushEntries(g) \/ StreamStopped(g)
    \/ Leave
    \/ \E t \in Caller :
          \/ \E g \in Generation : StartArrives(g, t)
          \/ \E s \in Stream : StopArrives(s, t)
          \/ Others(t)
          \/ (Lock(t) \/ Continue(t)) /\ Sends
    \/ \E s \in Stream : (SourceEnds(s) \/ Panics(s) \/ Wind(s)) /\ Sends

ViewerSpec == ViewerInit /\ [][ViewerNext]_viewerVars

(* As in FairSpec.  The page handles an answer that reaches it, and a call *)
(* that was made is taken up, although other calls may come before it.     *)
ViewerFairSpec ==
    /\ ViewerSpec
    /\ \A t \in Caller : WF_viewerVars(Continue(t) /\ Sends) /\ SF_viewerVars(Lock(t) /\ Sends)
    /\ \A s \in Stream : WF_viewerVars(Wind(s) /\ Sends)
    /\ \A g \in Generation : WF_viewerVars(ReadAnswer(g))
    /\ \A g \in Generation : SF_viewerVars(\E t \in Caller : StartArrives(g, t))
    /\ \A s \in Stream : SF_viewerVars(\E t \in Caller : StopArrives(s, t))

-----------------------------------------------------------------------------
\* A page that calls its stream live has not been told that it stopped: the
\* answer to the start, entries and the end of the stream come in any order.
StreamingIsNotOver ==
    \A g \in Active : status[g] = "streaming" /\ sent[got[g]] # None => over[g]

\* A page that is left leaves no stream behind, whatever was under way then.
LeftStreamsEnd ==
    \A g \in Generation : effect[g] = "left" ~> start[g] = "read" /\ got[g] \notin streams
=============================================================================
