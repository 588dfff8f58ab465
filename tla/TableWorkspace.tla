--------------------------- MODULE TableWorkspace ---------------------------
(***************************************************************************)
(* The table tabs of an open connection: loads of their rows, staged       *)
(* inline edits and their commit, and the sheet that edits one row         *)
(* (useTableDataController.ts, useSavedViewApplication.ts,                 *)
(* useTableDataFilters.ts), with the revisions by which a tab knows its    *)
(* latest request (latestRequestRegistry.ts, tabRequestController.ts) and  *)
(* the opening, closing and switching of tabs (useConnectionTabActions.ts).*)
(*                                                                         *)
(* One step is one event of the page: something the user does, or an       *)
(* answer of the backend, which come in any order.  A handler sees the     *)
(* state of its event; after an await it still sees that state.  A row     *)
(* stands for its staged updates, which go out in one statement.           *)
(***************************************************************************)
EXTENDS Naturals, FiniteSets, Functions

CONSTANTS
    Tab,          \* ids of table tabs, each used once
    View,         \* what a tab can ask for: page, filter and sort
    Row,          \* rows of a table, by primary key
    Value,        \* what an edit writes
    MaxRequests,  \* bound: revisions given out and saved views that wait, over all tabs
    None

ASSUME WorkspaceAssumption ==
    /\ MaxRequests \in Nat
    /\ None \notin Tab \cup View \cup Row \cup Value

VARIABLES
    tab,       \* "unused", "open" or "closed"
    active,    \* activeTabId, as far as it is a table tab
    asked,     \* currentPage, applied filter and sort of a tab
    data,      \* the view whose rows the tab shows
    loading,   \* TableDataTab.loading
    rev,       \* LatestRequestRegistry.revisions, of the channel of a tab
    loads,     \* the loads that wait for an answer
    switching, \* saved views that wait until the edited one is saved
    staged,    \* pendingInlineEditsByTab
    saving,    \* savingInlineEdits
    commit,    \* the commit of inline edits that is under way
    sheet,     \* the tab in which editingRow was selected, None when closed
    mutating,  \* savingRow or deletingRow
    mutation   \* the update or deletion of a row that is under way

rows == <<asked, data, loading, rev, loads>>
edits == <<staged, saving, commit>>
rowEdit == <<sheet, mutating, mutation>>
vars == <<tab, active, rows, switching, edits, rowEdit>>

Updates == [Row -> Value \cup {None}]
NoUpdates == [r \in Row |-> None]
\* By what a request came: "page" for page, filter, sort or refresh, "view" for
\* a saved view, "edit" for a row saved while a saved view was under way.
By == {"page", "view", "edit"}
Load == [tab : Tab, rev : Nat, view : View, by : By]
Switch == [tab : Tab, view : View]
Commit == [tab : Tab, rev : Nat, view : View, updates : Updates, todo : SUBSET Row,
           sent : Row \cup {None}]
Mutation == [tab : Tab, rev : Nat, view : View, by : By]

TypeOK ==
    /\ tab \in [Tab -> {"unused", "open", "closed"}]
    /\ active \in Tab \cup {None}
    /\ active # None => tab[active] = "open"
    /\ asked \in [Tab -> View \cup {None}]
    /\ \A t \in Tab : tab[t] = "open" => asked[t] # None
    /\ data \in [Tab -> View \cup {None}]
    /\ loading \in [Tab -> BOOLEAN]
    /\ rev \in [Tab -> Nat]
    /\ \A l \in loads : l \in Load
    /\ \A s \in switching : s \in Switch
    /\ staged \in [Tab -> Updates]
    /\ saving \in BOOLEAN
    /\ commit = None \/ commit \in Commit
    /\ sheet \in Tab \cup {None}
    /\ mutating \in BOOLEAN
    /\ mutation = None \/ mutation \in Mutation

Init ==
    /\ tab = [t \in Tab |-> "unused"]
    /\ active = None
    /\ asked = [t \in Tab |-> None]
    /\ data = [t \in Tab |-> None]
    /\ loading = [t \in Tab |-> FALSE]
    /\ rev = [t \in Tab |-> 0]
    /\ loads = {}
    /\ switching = {}
    /\ staged = [t \in Tab |-> NoUpdates]
    /\ saving = FALSE
    /\ commit = None
    /\ sheet = None
    /\ mutating = FALSE
    /\ mutation = None

\* isCurrent: x is the latest request of its tab, or was watching and no
\* request was issued since.
IsCurrent(x) == x.rev = rev[x.tab]

Open == {t \in Tab : tab[t] = "open"}

SavedUnderWay(t) == \E l \in loads : l.tab = t /\ l.by = "view" /\ IsCurrent(l)

\* The backdrop of the sheet, which a table tab shows while it is active, takes
\* the mouse from everything else; shortcuts and the palette go past it.
Modal == sheet # None /\ active # None

\* The rows of t can be clicked.
Shown(t) == active = t /\ data[t] # None /\ ~loading[t] /\ ~Modal

-----------------------------------------------------------------------------
(* Loads. *)

\* The bound.  A saved view that waits to be applied has its place already.
Room == FoldFunction(LAMBDA n, m : n + m, 0, rev) + Cardinality(switching) < MaxRequests

\* beginTable, and the request goes out.
BeginLoad(t, v, by) ==
    /\ rev' = [rev EXCEPT ![t] = @ + 1]
    /\ loads' = loads \cup {[tab |-> t, rev |-> rev[t] + 1, view |-> v, by |-> by]}
    /\ loading' = [loading EXCEPT ![t] = TRUE]

\* The page, the filter or the sort changes, or the rows are refreshed.
Ask(t, v) ==
    /\ active = t
    /\ asked' = [asked EXCEPT ![t] = v]
    /\ Room
    /\ BeginLoad(t, v, "page")
    /\ UNCHANGED <<tab, active, switching, data, edits, rowEdit>>

\* A saved view changes the tab when its rows are there.  The button of the menu
\* is off while the tab loads; the open menu and its dialog are not.
ApplyView(t, v) ==
    /\ active = t
    /\ ~Modal
    /\ Room
    /\ BeginLoad(t, v, "view")
    /\ UNCHANGED <<tab, active, asked, data, switching, edits, rowEdit>>

\* "Save and switch": the edited view is saved first.
SaveAndSwitch(t, v) ==
    /\ active = t
    /\ ~Modal
    /\ Room
    /\ switching' = switching \cup {[tab |-> t, view |-> v]}
    /\ UNCHANGED <<tab, active, rows, edits, rowEdit>>

\* It is saved, and the other is applied to the tab of the click, which may load,
\* stand behind another tab or be closed by then.
ViewSaved(s) ==
    /\ switching' = switching \ {s}
    /\ BeginLoad(s.tab, s.view, "view")
    /\ UNCHANGED <<tab, active, asked, data, edits, rowEdit>>

\* It is not saved, or the other does not fit the table.
ViewNotSaved(s) ==
    /\ switching' = switching \ {s}
    /\ UNCHANGED <<tab, active, rows, edits, rowEdit>>

\* An answer that is taken whenever it comes.
LoadedUnchecked(l) ==
    /\ loads' = loads \ {l}
    /\ data' = [data EXCEPT ![l.tab] = l.view]
    /\ asked' = IF l.by = "view" THEN [asked EXCEPT ![l.tab] = l.view] ELSE asked
    /\ loading' = [loading EXCEPT ![l.tab] = FALSE]
    /\ UNCHANGED <<tab, active, switching, rev, edits, rowEdit>>

\* Only the latest request commits.
Loaded(l) ==
    /\ loads' = loads \ {l}
    /\ IF IsCurrent(l)
       THEN /\ data' = [data EXCEPT ![l.tab] = l.view]
            /\ asked' = IF l.by = "view" THEN [asked EXCEPT ![l.tab] = l.view] ELSE asked
            /\ loading' = [loading EXCEPT ![l.tab] = FALSE]
       ELSE UNCHANGED <<data, asked, loading>>
    /\ UNCHANGED <<tab, active, switching, rev, edits, rowEdit>>

\* A failure that is only reported.
LoadFailsQuietly(l) ==
    /\ loads' = loads \ {l}
    /\ UNCHANGED <<tab, active, switching, asked, data, loading, rev, edits, rowEdit>>

\* A saved view that cannot be loaded leaves the rows that are there.
LoadFails(l) ==
    /\ loads' = loads \ {l}
    /\ IF IsCurrent(l)
       THEN /\ data' = IF l.by = "view" THEN data ELSE [data EXCEPT ![l.tab] = None]
            /\ loading' = [loading EXCEPT ![l.tab] = FALSE]
       ELSE UNCHANGED <<data, loading>>
    /\ UNCHANGED <<tab, active, switching, asked, rev, edits, rowEdit>>

-----------------------------------------------------------------------------
(* Tabs. *)

\* From the list of tables or the palette, or from a foreign key with a filter.
OpenTab(t, v) ==
    /\ tab[t] = "unused"
    /\ tab' = [tab EXCEPT ![t] = "open"]
    /\ active' = t
    /\ asked' = [asked EXCEPT ![t] = v]
    /\ Room
    /\ BeginLoad(t, v, "page")
    /\ UNCHANGED <<switching, data, edits, rowEdit>>

\* A click on the tab or a shortcut; also to a tab of another kind and back.
Select(t) ==
    /\ active # t
    /\ t \in Open \cup {None}
    /\ active' = t
    /\ UNCHANGED <<switching, tab, rows, edits, rowEdit>>

\* Closing a tab that forgets its requests in flight.
CloseTabQuietly(t) ==
    /\ tab[t] = "open"
    /\ ~Modal \/ active = t
    /\ tab' = [tab EXCEPT ![t] = "closed"]
    /\ IF active = t
       THEN active' \in (IF Open = {t} THEN {None} ELSE (Open \ {t}) \cup {None})
       ELSE UNCHANGED active
    /\ UNCHANGED <<switching, rows, edits, rowEdit>>

\* invalidateTab; a neighbour becomes active.  The shortcut closes the active tab.
CloseTab(t) ==
    /\ tab[t] = "open"
    /\ ~Modal \/ active = t
    /\ tab' = [tab EXCEPT ![t] = "closed"]
    /\ rev' = [rev EXCEPT ![t] = @ + 1]
    /\ IF active = t
       THEN active' \in (IF Open = {t} THEN {None} ELSE (Open \ {t}) \cup {None})
       ELSE UNCHANGED active
    /\ UNCHANGED <<switching, asked, data, loading, loads, edits, rowEdit>>

-----------------------------------------------------------------------------
(* Inline edits. *)

\* A value equal to the one shown takes the edit back.
Stage(t, r, v) ==
    /\ Shown(t)
    /\ staged[t][r] # v
    /\ staged' = [staged EXCEPT ![t][r] = v]
    /\ UNCHANGED <<tab, active, switching, rows, saving, commit, rowEdit>>

\* The button is off while a commit or a load is under way.
Discard(t) ==
    /\ active = t
    /\ ~Modal
    /\ staged[t] # NoUpdates
    /\ ~saving
    /\ ~loading[t]
    /\ staged' = [staged EXCEPT ![t] = NoUpdates]
    /\ UNCHANGED <<tab, active, switching, rows, saving, commit, rowEdit>>

\* handleSaveInlineChanges up to its first await; the commit only watches.
StartCommit(t) ==
    /\ active = t
    /\ ~Modal
    /\ staged[t] # NoUpdates
    /\ ~saving
    /\ ~loading[t]
    /\ saving' = TRUE
    /\ commit' = [tab |-> t, rev |-> rev[t], view |-> asked[t], updates |-> staged[t],
                  todo |-> {r \in Row : staged[t][r] # None}, sent |-> None]
    /\ UNCHANGED <<tab, active, switching, rows, staged, rowEdit>>

\* continueWhileCurrent: the next row is written.
Send(r) ==
    /\ commit # None
    /\ commit.sent = None
    /\ IsCurrent(commit)
    /\ r \in commit.todo
    /\ commit' = [commit EXCEPT !.sent = r]
    /\ UNCHANGED <<tab, active, switching, rows, staged, saving, rowEdit>>

\* The update is answered; the row is done if the commit is still current.
Written ==
    /\ commit # None
    /\ commit.sent # None
    /\ commit' = [commit EXCEPT !.sent = None, !.todo = @ \ {commit.sent}]
    /\ UNCHANGED <<tab, active, switching, rows, staged, saving, rowEdit>>

\* A commit that ends is over for the tab, however it ended.
WriteFailsClearing ==
    /\ commit # None
    /\ commit.sent # None
    /\ commit' = None
    /\ staged' = [staged EXCEPT ![commit.tab] = NoUpdates]
    /\ saving' = (saving /\ ~IsCurrent(commit))
    /\ UNCHANGED <<tab, active, switching, rows, rowEdit>>

\* The update is refused or lost: the edits stay staged, those that were
\* written with them.
WriteFails ==
    /\ commit # None
    /\ commit.sent # None
    /\ commit' = None
    /\ saving' = (saving /\ ~IsCurrent(commit))
    /\ UNCHANGED <<tab, active, switching, rows, staged, rowEdit>>

\* The tab was closed or asked for other rows: no write goes out any more,
\* and savingInlineEdits stays as it is.
Superseded ==
    /\ commit # None
    /\ commit.sent = None
    /\ ~IsCurrent(commit)
    /\ commit' = None
    /\ UNCHANGED <<tab, active, switching, rows, staged, saving, rowEdit>>

\* All rows are written: the edits of the tab are gone and it loads again.
Committed ==
    /\ commit # None
    /\ commit.sent = None
    /\ commit.todo = {}
    /\ IsCurrent(commit)
    /\ commit' = None
    /\ saving' = FALSE
    /\ staged' = [staged EXCEPT ![commit.tab] = NoUpdates]
    /\ Room
    /\ BeginLoad(commit.tab, commit.view, "page")
    /\ UNCHANGED <<tab, active, switching, asked, data, rowEdit>>

-----------------------------------------------------------------------------
(* The sheet of a row. *)

SelectRow(t) ==
    /\ Shown(t)
    /\ sheet' = t
    /\ UNCHANGED <<tab, active, switching, rows, edits, mutating, mutation>>

CloseSheet ==
    /\ Modal
    /\ sheet' = None
    /\ UNCHANGED <<tab, active, switching, rows, edits, mutating, mutation>>

\* handleSaveRow and handleDeleteRow: the statement is about the row of the
\* sheet and the table of the active tab.
Mutate(t) ==
    /\ active = t
    /\ sheet # None
    /\ ~mutating
    /\ mutating' = TRUE
    /\ mutation' = [tab |-> t, rev |-> rev[t], view |-> asked[t],
                    by |-> IF SavedUnderWay(t) THEN "edit" ELSE "page"]
    /\ UNCHANGED <<tab, active, switching, rows, edits, sheet>>

\* The row is written: whatever sheet is open is closed, and the tab loads
\* the rows it asked for when the row was saved.
Mutated ==
    /\ mutation # None
    /\ mutation' = None
    /\ IF IsCurrent(mutation)
       THEN /\ sheet' = None
            /\ mutating' = FALSE
            /\ Room
            /\ BeginLoad(mutation.tab, mutation.view, mutation.by)
            /\ UNCHANGED <<asked, data>>
       ELSE UNCHANGED <<rows, sheet, mutating>>
    /\ UNCHANGED <<tab, active, switching, edits>>

MutationFails ==
    /\ mutation # None
    /\ mutation' = None
    /\ mutating' = (mutating /\ ~IsCurrent(mutation))
    /\ UNCHANGED <<tab, active, switching, rows, edits, sheet>>

-----------------------------------------------------------------------------
User ==
    \/ \E t \in Tab, v \in View :
        Ask(t, v) \/ ApplyView(t, v) \/ SaveAndSwitch(t, v) \/ OpenTab(t, v)
    \/ \E t \in Tab :
        CloseTab(t) \/ Discard(t) \/ StartCommit(t) \/ SelectRow(t) \/ Mutate(t)
    \/ \E t \in Tab \cup {None} : Select(t)
    \/ \E t \in Tab, r \in Row, v \in Value \cup {None} : Stage(t, r, v)
    \/ CloseSheet

Answer ==
    \/ \E l \in loads : Loaded(l) \/ LoadFails(l)
    \/ \E s \in switching : ViewSaved(s) \/ ViewNotSaved(s)
    \/ \E r \in Row : Send(r)
    \/ Written \/ WriteFails \/ Superseded \/ Committed
    \/ Mutated \/ MutationFails

Next == User \/ Answer

Spec == Init /\ [][Next]_vars

-----------------------------------------------------------------------------
(* Properties. *)

\* The rows of t are not those of its page, filter and sort, and it does not
\* say that it is loading.
ShowsOther(t) == t \in Open /\ ~loading[t] /\ data[t] # None /\ data[t] # asked[t]

\* In whatever order loads, saved views, commits and row edits are answered, a tab
\* comes to show other rows than its page, filter and sort say in two ways only: a
\* saved view cannot be loaded, and the rows from before stand under the page
\* asked for last, or a row was saved while a saved view was under way, and the
\* load after it asks once more for what that view has replaced.
ShownStaysAsked ==
    [][\A t \in Tab : ShowsOther(t)' =>
        \/ ShowsOther(t)
        \/ \E l \in loads \ loads' :
            /\ l.tab = t /\ IsCurrent(l)
            /\ l.by = "edit" \/ (l.by = "view" /\ UNCHANGED data)]_vars

\* A tab that shows a skeleton waits for an answer that it will take.
LoadingIsUnderWay ==
    \A t \in Open : loading[t] => \E l \in loads : l.tab = t /\ IsCurrent(l)

\* The commit that is under way wrote the edit of r.
WroteIt(r) == r \notin commit.todo /\ r # commit.sent

\* A commit takes no edit it started with off the bar that it has not written:
\* not when a write fails, nor when the tab turned to other rows meanwhile.
CommittedIsWritten ==
    [][commit # None /\ commit' = None =>
        \A r \in Row :
            /\ commit.updates[r] # None
            /\ staged[commit.tab][r] = commit.updates[r]
            /\ staged'[commit.tab][r] = None
            => WroteIt(r)]_vars

\* No write goes out for a tab that is closed, though its commit was under way.
ClosedTabIsNotWritten ==
    [][commit # None /\ commit' # None /\ commit.sent = None /\ commit'.sent # None
        => tab[commit.tab] = "open"]_vars

\* "Change staged": an edit that is staged, before a commit or beside it, stays
\* staged until it was written.
StagedIsKept ==
    [][commit # None /\ commit' = None =>
        \A t \in Tab, r \in Row :
            staged[t][r] # None /\ staged'[t][r] = None =>
                t = commit.tab /\ commit.updates[r] = staged[t][r] /\ WroteIt(r)]_vars
=============================================================================
