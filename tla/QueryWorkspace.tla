--------------------------- MODULE QueryWorkspace ---------------------------
(***************************************************************************)
(* The query tabs of an open connection (useQueryWorkspaceController.ts):  *)
(* the statement at the cursor or all statements of a tab are run, a       *)
(* result is filtered and sorted by running the query again inside         *)
(* another one, and every statement that was run is put into the history   *)
(* of the connection, which keeps the newest (commands/queries.rs).  The   *)
(* revisions by which a tab knows its latest request are those of          *)
(* latestRequestRegistry.ts.                                               *)
(*                                                                         *)
(* One step is one event of the page, or one SQL statement on the          *)
(* application's database: answers come in any order.                      *)
(***************************************************************************)
EXTENDS Integers, Sequences, SequencesExt, Functions

CONSTANTS
    Tab,          \* ids of query tabs, each used once
    Statement,    \* SQL statements
    Wrappable,    \* those that return a result one can select from
    Script,       \* what "Run all queries" finds in a tab: its statements
    Filter, Sort, \* conditions and orders on a result
    HistoryLimit, \* rows of the history, 10 in the code
    MaxRequests,  \* bound: revisions that are given out, over all tabs
    None          \* no result, no filter, no sort, no tab

ASSUME QueryAssumption ==
    /\ Wrappable \subseteq Statement
    /\ Script \subseteq Seq(Statement) \ {<<>>}
    /\ HistoryLimit \in Nat \ {0}
    /\ MaxRequests \in Nat
    /\ None \notin Tab \cup Statement \cup Filter \cup Sort

VARIABLES
    tab,       \* "unused", "open" or "closed"
    active,    \* activeTabId, as far as it is a query tab
    executing, \* QueryTab.executing
    error,     \* QueryTab.error is set
    result,    \* QueryTab.results: the statement, the view and the request they are of
    base,      \* QueryTab.resultBaseQuery
    view,      \* QueryTab.filter and sort
    rev,       \* LatestRequestRegistry.revisions, of the channel of a tab
    asked,     \* the requests that wait for an answer
    recording, \* the calls of record_query_history under way
    history,   \* the rows of query_history, oldest first
    kept       \* the newest of those put there since it was last cleared

shown == <<executing, error, result, base, view>>
tabs == <<tab, active>>
records == <<recording, history, kept>>
vars == <<tabs, shown, rev, asked, records>>

Views == [filter : Filter \cup {None}, sort : Sort \cup {None}]
NoView == [filter |-> None, sort |-> None]

\* A run carries the statements it has still to run, the first of which is
\* at the server; step says which one of the run it is.
Request == [tab : Tab, rev : Nat, kind : {"run", "view"}, todo : Seq(Statement), step : Nat,
            view : Views]

RunId == [tab : Tab, rev : Nat, step : Nat]

Result == [of : Statement, view : Views, rev : Nat]

TypeOK ==
    /\ tab \in [Tab -> {"unused", "open", "closed"}]
    /\ active \in Tab \cup {None}
    /\ active # None => tab[active] = "open"
    /\ executing \in [Tab -> BOOLEAN]
    /\ error \in [Tab -> BOOLEAN]
    /\ result \in [Tab -> Result \cup {None}]
    /\ base \in [Tab -> Wrappable \cup {None}]
    /\ view \in [Tab -> Views]
    /\ \A t \in Tab : view[t] # NoView => base[t] # None
    /\ rev \in [Tab -> Nat]
    /\ \A r \in asked : r \in Request /\ r.todo # <<>>
    /\ \A r \in recording : r \in [id : RunId, stage : {"insert", "prune"}]
    /\ history \in Seq(RunId)
    /\ kept \in Seq(RunId)

Init ==
    /\ tab = [t \in Tab |-> "unused"]
    /\ active = None
    /\ executing = [t \in Tab |-> FALSE]
    /\ error = [t \in Tab |-> FALSE]
    /\ result = [t \in Tab |-> None]
    /\ base = [t \in Tab |-> None]
    /\ view = [t \in Tab |-> NoView]
    /\ rev = [t \in Tab |-> 0]
    /\ asked = {}
    /\ recording = {}
    /\ history = <<>>
    /\ kept = <<>>

\* isCurrent: no request was issued for the tab since, and it was not closed.
IsCurrent(r) == r.rev = rev[r.tab]

-----------------------------------------------------------------------------
(* Tabs. *)

Open == {t \in Tab : tab[t] = "open"}

OpenTab(t) ==
    /\ tab[t] = "unused"
    /\ tab' = [tab EXCEPT ![t] = "open"]
    /\ active' = t
    /\ UNCHANGED <<shown, rev, asked, records>>

Select(t) ==
    /\ active # t
    /\ t \in Open \cup {None}
    /\ active' = t
    /\ UNCHANGED <<tab, shown, rev, asked, records>>

\* The requests of the tab are invalidated; the active tab gives way to
\* another one, which may be of another kind.
CloseTab(t) ==
    /\ tab[t] = "open"
    /\ tab' = [tab EXCEPT ![t] = "closed"]
    /\ rev' = [rev EXCEPT ![t] = @ + 1]
    /\ IF active = t
       THEN active' \in (IF Open = {t} THEN {None} ELSE (Open \ {t}) \cup {None})
       ELSE UNCHANGED active
    /\ UNCHANGED <<shown, asked, records>>

-----------------------------------------------------------------------------
(* Requests. *)

Revisions == FoldFunction(LAMBDA n, m : n + m, 0, rev)

\* beginQuery, and the request goes out.
Begin(t, kind, todo, v) ==
    /\ active = t
    /\ Revisions < MaxRequests
    /\ rev' = [rev EXCEPT ![t] = @ + 1]
    /\ asked' = asked \cup {[tab |-> t, rev |-> rev[t] + 1, kind |-> kind, todo |-> todo,
                             step |-> 1, view |-> v]}
    /\ executing' = [executing EXCEPT ![t] = TRUE]
    /\ error' = [error EXCEPT ![t] = FALSE]
    /\ view' = [view EXCEPT ![t] = v]
    /\ UNCHANGED <<tabs, records>>

Run(t, todo) ==
    /\ Begin(t, "run", todo, NoView)
    /\ result' = [result EXCEPT ![t] = None]
    /\ base' = [base EXCEPT ![t] = None]

\* By the editor's key or a shortcut also while the tab is executing.
RunQuery(t, s) == Run(t, <<s>>)

RunAllQueries(t, q) == ~executing[t] /\ Run(t, q)

AskView(t, v) == Begin(t, "view", <<base[t]>>, v) /\ UNCHANGED <<result, base>>

\* What one can click: the rows of a SELECT and what stands above them.
ResultShown(t) == ~executing[t] /\ ~error[t] /\ result[t] # None /\ base[t] # None

ApplyQueryFilter(t, f) == ResultShown(t) /\ AskView(t, [view[t] EXCEPT !.filter = f])

\* By its button or by a shortcut, which is there as long as a filter is.
ClearQueryFilter(t) ==
    /\ view[t].filter # None
    /\ AskView(t, [view[t] EXCEPT !.filter = None])

QuerySortChange(t, s) == ResultShown(t) /\ AskView(t, [view[t] EXCEPT !.sort = s])

-----------------------------------------------------------------------------
(* Answers. *)

\* recordHistory is called when a statement is answered, whoever waits for it.
Record(r) ==
    recording' = recording \cup {[id |-> [tab |-> r.tab, rev |-> r.rev, step |-> r.step],
                                  stage |-> "insert"]}

Done(r) == asked' = asked \ {r}

\* The results of the last statement of a run.
Results(r) ==
    LET s == Head(r.todo) IN
    IF IsCurrent(r)
    THEN /\ result' = [result EXCEPT ![r.tab] = [of |-> s, view |-> r.view, rev |-> r.rev]]
         /\ base' = [base EXCEPT ![r.tab] = IF s \in Wrappable THEN s ELSE None]
         /\ view' = [view EXCEPT ![r.tab] = NoView]
         /\ executing' = [executing EXCEPT ![r.tab] = FALSE]
         /\ UNCHANGED error
    ELSE UNCHANGED shown

\* A run that goes on whoever asked meanwhile.
StatementEndsUnchecked(r) ==
    /\ r.kind = "run"
    /\ Record(r)
    /\ IF Len(r.todo) > 1
       THEN /\ asked' = (asked \ {r}) \cup {[r EXCEPT !.todo = Tail(@), !.step = @ + 1]}
            /\ UNCHANGED shown
       ELSE Done(r) /\ Results(r)
    /\ UNCHANGED <<tabs, rev, history, kept>>

\* A statement succeeds: the next one of the run is sent.  A run that is not
\* the latest request any more ends there.
StatementEnds(r) ==
    /\ r.kind = "run"
    /\ Record(r)
    /\ IF Len(r.todo) > 1 /\ IsCurrent(r)
       THEN /\ asked' = (asked \ {r}) \cup {[r EXCEPT !.todo = Tail(@), !.step = @ + 1]}
            /\ UNCHANGED shown
       ELSE /\ Done(r)
            /\ IF Len(r.todo) = 1 THEN Results(r) ELSE UNCHANGED shown
    /\ UNCHANGED <<tabs, rev, history, kept>>

ShowError(r) ==
    IF IsCurrent(r)
    THEN /\ error' = [error EXCEPT ![r.tab] = TRUE]
         /\ executing' = [executing EXCEPT ![r.tab] = FALSE]
         /\ UNCHANGED <<result, base, view>>
    ELSE UNCHANGED shown

\* A statement fails and the run is left with what it has.
StatementFailsQuietly(r) ==
    /\ r.kind = "run"
    /\ Record(r)
    /\ Done(r)
    /\ IF r.step = 1 THEN ShowError(r) ELSE UNCHANGED shown
    /\ UNCHANGED <<tabs, rev, history, kept>>

\* A statement fails, and the statements after it are not run.
StatementFails(r) ==
    /\ r.kind = "run"
    /\ Record(r)
    /\ Done(r)
    /\ ShowError(r)
    /\ UNCHANGED <<tabs, rev, history, kept>>

\* A view that is shown whenever it comes.
ViewedUnchecked(r) ==
    /\ r.kind = "view"
    /\ Done(r)
    /\ result' = [result EXCEPT ![r.tab] = [of |-> Head(r.todo), view |-> r.view, rev |-> r.rev]]
    /\ view' = [view EXCEPT ![r.tab] = r.view]
    /\ executing' = [executing EXCEPT ![r.tab] = FALSE]
    /\ error' = [error EXCEPT ![r.tab] = FALSE]
    /\ UNCHANGED <<tabs, base, rev, records>>

Viewed(r) ==
    /\ r.kind = "view"
    /\ Done(r)
    /\ IF IsCurrent(r)
       THEN /\ result' = [result EXCEPT ![r.tab] =
                             [of |-> Head(r.todo), view |-> r.view, rev |-> r.rev]]
            /\ view' = [view EXCEPT ![r.tab] = r.view]
            /\ executing' = [executing EXCEPT ![r.tab] = FALSE]
            /\ error' = [error EXCEPT ![r.tab] = FALSE]
       ELSE UNCHANGED <<result, view, executing, error>>
    /\ UNCHANGED <<tabs, base, rev, records>>

\* The rows that were there stay behind the error, and so does the new view.
ViewFails(r) ==
    /\ r.kind = "view"
    /\ Done(r)
    /\ ShowError(r)
    /\ UNCHANGED <<tabs, rev, records>>

-----------------------------------------------------------------------------
(* record_query_history and clear_query_history. *)

\* ORDER BY executed_at DESC, id DESC LIMIT 10
Newest(rows) == SubSeq(rows, IF Len(rows) > HistoryLimit THEN Len(rows) - HistoryLimit + 1 ELSE 1,
                       Len(rows))

Insert(c) ==
    /\ c.stage = "insert"
    /\ recording' = (recording \ {c}) \cup {[c EXCEPT !.stage = "prune"]}
    /\ history' = Append(history, c.id)
    /\ kept' = Newest(Append(kept, c.id))
    /\ UNCHANGED <<tabs, shown, rev, asked>>

\* Keeps the oldest.
PruneNewest(c) ==
    /\ c.stage = "prune"
    /\ recording' = recording \ {c}
    /\ history' = IF Len(history) > HistoryLimit THEN SubSeq(history, 1, HistoryLimit) ELSE history
    /\ UNCHANGED <<tabs, shown, rev, asked, kept>>

\* A statement of its own, without a transaction around the two.
Prune(c) ==
    /\ c.stage = "prune"
    /\ recording' = recording \ {c}
    /\ history' = Newest(history)
    /\ UNCHANGED <<tabs, shown, rev, asked, kept>>

\* Nobody is told but the console.
RecordFails(c) ==
    /\ recording' = recording \ {c}
    /\ UNCHANGED <<tabs, shown, rev, asked, history, kept>>

ClearHistory ==
    /\ history # <<>>
    /\ history' = <<>>
    /\ kept' = <<>>
    /\ UNCHANGED <<tabs, shown, rev, asked, recording>>

-----------------------------------------------------------------------------
User ==
    \/ \E t \in Tab :
          \/ OpenTab(t) \/ CloseTab(t) \/ ClearQueryFilter(t)
          \/ \E s \in Statement : RunQuery(t, s)
          \/ \E q \in Script : RunAllQueries(t, q)
          \/ \E f \in Filter \cup {None} : ApplyQueryFilter(t, f)
          \/ \E s \in Sort \cup {None} : QuerySortChange(t, s)
    \/ \E t \in Tab \cup {None} : Select(t)
    \/ ClearHistory

Answer == \E r \in asked : StatementEnds(r) \/ StatementFails(r) \/ Viewed(r) \/ ViewFails(r)

Store == \E c \in recording : Insert(c) \/ Prune(c) \/ RecordFails(c)

Next == User \/ Answer \/ Store

Spec == Init /\ [][Next]_vars

-----------------------------------------------------------------------------
(* Safety. *)

\* The rows of a tab are the answer to the last thing its user asked for: of
\* its latest request, of the query that a filter would be wrapped around, and
\* under the filter and the order that stand above them.
ResultIsWhatWasAsked ==
    \A t \in Open : ~executing[t] /\ ~error[t] /\ result[t] # None =>
        /\ result[t].rev = rev[t]
        /\ result[t].view = view[t]
        /\ base[t] \in {None, result[t].of}

\* A tab that shows skeletons waits for a request that will replace them.
ExecutingIsUnderWay ==
    \A t \in Open : executing[t] => \E r \in asked : r.tab = t /\ IsCurrent(r)

\* "Run all queries" sends no further statement once its tab was closed or asked
\* for something else.
SupersededRunStops ==
    [][\A r \in asked' : r.rev # rev'[r.tab] => \E o \in asked : o.tab = r.tab /\ o.rev = r.rev
                                                              /\ o.step = r.step]_vars

\* Whatever runs are being recorded, pruned and cleared at once, the history
\* shows the newest of those recorded since it was cleared.
HistoryKeepsNewest == Newest(history) = kept
=============================================================================
