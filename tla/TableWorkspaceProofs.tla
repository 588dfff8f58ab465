------------------------ MODULE TableWorkspaceProofs ------------------------
(***************************************************************************)
(* What TableWorkspace promises for every set of tabs, views, rows and     *)
(* values and every number of requests.  LoadInv is about the revisions    *)
(* of requests, ViewInv about what the latest of a tab asks for.           *)
(***************************************************************************)
EXTENDS TableWorkspace, TLAPS

\* A commit or a row edit watches a revision that was given out, and a tab
\* that is open as long as the revision is the latest.
Watches(x) ==
    /\ x.rev <= rev[x.tab]
    /\ IsCurrent(x) => tab[x.tab] = "open"

\* Loads have revisions of their own, and a tab is loading as long as its latest
\* one is under way.
LoadInv ==
    /\ \A l \in loads : l.rev <= rev[l.tab]
    /\ \A k, l \in loads : k.tab = l.tab /\ k.rev = l.rev => k = l
    /\ \A l \in loads : IsCurrent(l) => loading[l.tab]
    /\ LoadingIsUnderWay
    /\ commit # None => Watches(commit)
    /\ mutation # None => Watches(mutation)

\* What is the latest of its tab asks for what the tab is asked for, but for saved
\* views and row edits beside one: a saved view replaces that when it comes.
ViewInv ==
    /\ \A l \in loads : IsCurrent(l) /\ l.by = "page" => l.view = asked[l.tab]
    /\ commit # None /\ IsCurrent(commit) => ~loading[commit.tab] /\ commit.view = asked[commit.tab]
    /\ mutation # None /\ IsCurrent(mutation) /\ mutation.by = "page"
       => ~SavedUnderWay(mutation.tab) /\ mutation.view = asked[mutation.tab]

-----------------------------------------------------------------------------
(* Types. *)

LEMMA InitTypeOK == Init => TypeOK
<1> SUFFICES ASSUME Init PROVE TypeOK
  OBVIOUS
<1>1. NoUpdates \in Updates
  BY DEF NoUpdates, Updates
<1> QED
  BY <1>1 DEF Init, TypeOK

LEMMA BeginLoadTypes ==
    ASSUME TypeOK, NEW t \in Tab, NEW v \in View, NEW by \in By, BeginLoad(t, v, by)
    PROVE  /\ rev' \in [Tab -> Nat]
           /\ loading' \in [Tab -> BOOLEAN]
           /\ \A l \in loads' : l \in Load
<1> DEFINE new == [tab |-> t, rev |-> rev[t] + 1, view |-> v, by |-> by]
<1>1. rev[t] + 1 \in Nat
  BY DEF TypeOK
<1>2. new \in Load
  BY <1>1 DEF Load
<1>3. loads' = loads \cup {new}
  BY DEF BeginLoad
<1> HIDE DEF new
<1>4. \A l \in loads' : l \in Load
  BY <1>2, <1>3 DEF TypeOK
<1>5. rev' \in [Tab -> Nat] /\ loading' \in [Tab -> BOOLEAN]
  BY DEF BeginLoad, TypeOK
<1> QED
  BY <1>4, <1>5

LEMMA CloseTypes ==
    ASSUME TypeOK, NEW t \in Tab, CloseTab(t)
    PROVE  /\ tab' \in [Tab -> {"unused", "open", "closed"}]
           /\ active' \in Tab \cup {None}
           /\ active' # None => tab'[active'] = "open"
           /\ \A u \in Tab : tab'[u] = "open" => tab[u] = "open"
           /\ rev' \in [Tab -> Nat]
<1>1. tab' \in [Tab -> {"unused", "open", "closed"}]
      /\ \A u \in Tab : tab'[u] = IF u = t THEN "closed" ELSE tab[u]
  BY DEF CloseTab, TypeOK
<1>2. rev' \in [Tab -> Nat]
  BY DEF CloseTab, TypeOK
<1>3. CASE active = t
  <2>1. active' = None \/ active' \in Open \ {t}
    BY <1>3 DEF CloseTab
  <2> QED
    BY <1>1, <1>2, <2>1 DEF Open
<1>4. CASE active # t
  BY <1>1, <1>2, <1>4 DEF CloseTab, TypeOK
<1> QED
  BY <1>3, <1>4

\* What a handler captures at its click is of the active tab.
LEMMA ActiveIsOpen ==
    ASSUME TypeOK, NEW t \in Tab, active = t
    PROVE  tab[t] = "open" /\ asked[t] \in View /\ rev[t] \in Nat /\ staged[t] \in Updates
BY WorkspaceAssumption DEF TypeOK

LEMMA CommitTypes ==
    ASSUME TypeOK, [Next]_vars
    PROVE  commit' = None \/ commit' \in Commit
<1>1. ASSUME NEW t \in Tab, StartCommit(t)
      PROVE  commit' \in Commit
  <2>1. {r \in Row : staged[t][r] # None} \in SUBSET Row /\ None \in Row \cup {None}
    OBVIOUS
  <2> QED
    BY <1>1, <2>1, ActiveIsOpen DEF StartCommit, Commit
<1>2. ASSUME NEW r \in Row, Send(r)
      PROVE  commit' \in Commit
  BY <1>2 DEF Send, TypeOK, Commit
<1>3. CASE Written
  <2>1. commit.todo \ {commit.sent} \in SUBSET Row
    BY <1>3 DEF Written, TypeOK, Commit
  <2> QED
    BY <1>3, <2>1 DEF Written, TypeOK, Commit
<1>4. ASSUME commit' = commit \/ commit' = None
      PROVE  commit' = None \/ commit' \in Commit
  BY <1>4 DEF TypeOK
<1>5. CASE WriteFails \/ Superseded \/ Committed
  BY <1>4, <1>5 DEF WriteFails, Superseded, Committed
<1>6. CASE \/ \E t \in Tab, v \in View : Ask(t, v) \/ ApplyView(t, v) \/ SaveAndSwitch(t, v) \/ OpenTab(t, v)
           \/ \E s \in switching : ViewSaved(s) \/ ViewNotSaved(s)
           \/ \E t \in Tab : CloseTab(t) \/ Discard(t) \/ Mutate(t)
           \/ \E t \in Tab \cup {None} : Select(t)
  BY <1>4, <1>6 DEF Ask, ApplyView, SaveAndSwitch, ViewSaved, ViewNotSaved, OpenTab,
                      CloseTab, Discard, Mutate, Select, edits
<1>7. CASE \/ \E t \in Tab : SelectRow(t)
           \/ \E t \in Tab, r \in Row, v \in Value \cup {None} : Stage(t, r, v)
           \/ CloseSheet \/ Mutated \/ MutationFails
           \/ \E l \in loads : Loaded(l) \/ LoadFails(l)
  BY <1>4, <1>7 DEF SelectRow, Stage, CloseSheet, Mutated, MutationFails, Loaded, LoadFails, edits
<1>8. CASE UNCHANGED vars
  BY <1>4, <1>8 DEF vars, edits
<1> QED
  BY <1>1, <1>2, <1>3, <1>5, <1>6, <1>7, <1>8 DEF Next, User, Answer

LEMMA NextTypeOK ==
    ASSUME TypeOK, [Next]_vars
    PROVE  TypeOK'
<1> USE DEF rows, edits, rowEdit
<1>c. commit' = None \/ commit' \in Commit
  BY CommitTypes
<1>n. NoUpdates \in Updates
  BY DEF NoUpdates, Updates
<1>1. ASSUME NEW t \in Tab, NEW v \in View, Ask(t, v)
      PROVE  TypeOK'
  <2>1. asked' \in [Tab -> View \cup {None}] /\ \A u \in Tab : tab[u] = "open" => asked'[u] # None
    BY <1>1, WorkspaceAssumption DEF Ask, TypeOK
  <2> QED
    BY <1>1, <1>c, <2>1, BeginLoadTypes DEF Ask, By, TypeOK
<1>2. ASSUME NEW t \in Tab, NEW v \in View, ApplyView(t, v)
      PROVE  TypeOK'
  BY <1>2, <1>c, BeginLoadTypes DEF ApplyView, By, TypeOK
<1>3. ASSUME NEW t \in Tab, NEW v \in View, OpenTab(t, v)
      PROVE  TypeOK'
  <2>1. asked' \in [Tab -> View \cup {None}] /\ \A u \in Tab : tab'[u] = "open" => asked'[u] # None
    BY <1>3, WorkspaceAssumption DEF OpenTab, TypeOK
  <2>2. tab' \in [Tab -> {"unused", "open", "closed"}] /\ active' \in Tab /\ tab'[active'] = "open"
    BY <1>3 DEF OpenTab, TypeOK
  <2> QED
    BY <1>3, <1>c, <2>1, <2>2, BeginLoadTypes DEF OpenTab, By, TypeOK
<1>4. ASSUME NEW t \in Tab, CloseTab(t)
      PROVE  TypeOK'
  BY <1>4, <1>c, CloseTypes DEF CloseTab, TypeOK
<1>5. ASSUME NEW t \in Tab \cup {None}, Select(t)
      PROVE  TypeOK'
  BY <1>5, <1>c, WorkspaceAssumption DEF Select, Open, TypeOK
<1>6. ASSUME NEW l \in loads, Loaded(l) \/ LoadFails(l)
      PROVE  TypeOK'
  <2>1. l.tab \in Tab /\ l.view \in View
    BY DEF TypeOK, Load
  <2>2. data' \in [Tab -> View \cup {None}] /\ loading' \in [Tab -> BOOLEAN]
    BY <1>6, <2>1 DEF Loaded, LoadFails, TypeOK
  <2>3. asked' = asked \/ asked' = [asked EXCEPT ![l.tab] = l.view]
    BY <1>6 DEF Loaded, LoadFails
  <2>4. asked' \in [Tab -> View \cup {None}] /\ \A t \in Tab : tab[t] = "open" => asked'[t] # None
    BY <2>1, <2>3, WorkspaceAssumption DEF TypeOK
  <2>5. \A k \in loads' : k \in Load
    BY <1>6 DEF Loaded, LoadFails, TypeOK
  <2> QED
    BY <1>6, <1>c, <2>2, <2>4, <2>5 DEF Loaded, LoadFails, TypeOK
<1>7. ASSUME NEW t \in Tab, NEW r \in Row, NEW v \in Value \cup {None}, Stage(t, r, v)
      PROVE  TypeOK'
  <2>1. staged' \in [Tab -> Updates]
    BY <1>7 DEF Stage, TypeOK, Updates
  <2> QED
    BY <1>7, <1>c, <2>1 DEF Stage, TypeOK
<1>8. ASSUME NEW t \in Tab, Discard(t)
      PROVE  TypeOK'
  BY <1>8, <1>c, <1>n DEF Discard, TypeOK
<1>9. ASSUME NEW t \in Tab, StartCommit(t)
      PROVE  TypeOK'
  BY <1>9, <1>c DEF StartCommit, TypeOK
<1>10. CASE (\E r \in Row : Send(r)) \/ Written \/ WriteFails \/ Superseded
  <2>1. saving' \in BOOLEAN
    BY <1>10 DEF Send, Written, WriteFails, Superseded, TypeOK
  <2> QED
    BY <1>10, <1>c, <2>1 DEF Send, Written, WriteFails, Superseded, TypeOK
<1>11. CASE Committed
  <2>1. commit.tab \in Tab /\ commit.view \in View
    BY <1>11 DEF Committed, TypeOK, Commit
  <2>2. staged' \in [Tab -> Updates]
    BY <1>11, <1>n DEF Committed, TypeOK
  <2> QED
    BY <1>11, <1>c, <2>1, <2>2, BeginLoadTypes DEF Committed, By, TypeOK
<1>12. ASSUME NEW t \in Tab, SelectRow(t)
       PROVE  TypeOK'
  BY <1>12, <1>c DEF SelectRow, TypeOK
<1>13. CASE CloseSheet
  BY <1>13, <1>c DEF CloseSheet, TypeOK
<1>14. ASSUME NEW t \in Tab, Mutate(t)
       PROVE  TypeOK'
  <2>1. mutation' \in Mutation
    BY <1>14, ActiveIsOpen DEF Mutate, Mutation, By
  <2> QED
    BY <1>14, <1>c, <2>1 DEF Mutate, TypeOK
<1>15. CASE Mutated
  <2>1. mutation.tab \in Tab /\ mutation.view \in View /\ mutation.by \in By
    BY <1>15 DEF Mutated, TypeOK, Mutation
  <2>2. CASE IsCurrent(mutation)
    <3>1. BeginLoad(mutation.tab, mutation.view, mutation.by) /\ sheet' = None /\ mutating' \in BOOLEAN
          /\ UNCHANGED <<asked, data>>
      BY <1>15, <2>2 DEF Mutated
    <3> QED
      BY <1>15, <1>c, <2>1, <3>1, BeginLoadTypes DEF Mutated, TypeOK
  <2>3. CASE ~IsCurrent(mutation)
    BY <1>15, <1>c, <2>3 DEF Mutated, TypeOK
  <2> QED
    BY <2>2, <2>3
<1>16. CASE MutationFails
  <2>1. mutating' \in BOOLEAN
    BY <1>16 DEF MutationFails, TypeOK
  <2> QED
    BY <1>16, <1>c, <2>1 DEF MutationFails, TypeOK
<1>17. CASE UNCHANGED vars
  BY <1>17 DEF vars, TypeOK
<1>18. ASSUME NEW t \in Tab, NEW v \in View, SaveAndSwitch(t, v)
       PROVE  TypeOK'
  BY <1>18, <1>c DEF SaveAndSwitch, Switch, TypeOK
<1>19. ASSUME NEW s \in switching, ViewSaved(s) \/ ViewNotSaved(s)
       PROVE  TypeOK'
  <2>1. s.tab \in Tab /\ s.view \in View /\ \A k \in switching' : k \in Switch
    BY <1>19 DEF ViewSaved, ViewNotSaved, Switch, TypeOK
  <2>2. CASE ViewSaved(s)
    BY <1>c, <2>1, <2>2, BeginLoadTypes DEF ViewSaved, By, TypeOK
  <2>3. CASE ViewNotSaved(s)
    BY <1>c, <2>1, <2>3 DEF ViewNotSaved, TypeOK
  <2> QED
    BY <1>19, <2>2, <2>3
<1> QED
  BY <1>1, <1>2, <1>3, <1>4, <1>5, <1>6, <1>7, <1>8, <1>9, <1>10, <1>11, <1>12, <1>13, <1>14,
     <1>15, <1>16, <1>17, <1>18, <1>19 DEF Next, User, Answer

-----------------------------------------------------------------------------
(* Revisions. *)

\* A load begins, with what else happens to the tab, the commit and the row edit.
Begins(t, v, by) ==
    /\ BeginLoad(t, v, by)
    /\ \A u \in Tab \ {t} : tab'[u] = tab[u]
    /\ commit' \in {None, commit}
    /\ mutation' \in {None, mutation}

\* A commit or a row edit begins, goes on or ends; nothing else happens to the loads.
Watching ==
    /\ UNCHANGED <<tab, loading, rev, loads>>
    /\ commit' # None => \/ commit # None /\ commit'.tab = commit.tab /\ commit'.rev = commit.rev
                         \/ tab[commit'.tab] = "open" /\ commit'.rev = rev[commit'.tab]
    /\ mutation' # None => \/ mutation' = mutation
                           \/ tab[mutation'.tab] = "open" /\ mutation'.rev = rev[mutation'.tab]

LEMMA LoadsOfAStep ==
    ASSUME TypeOK, [Next]_vars
    PROVE  \/ \E t \in Tab, v \in View, by \in By : Begins(t, v, by)
           \/ \E t \in Tab : CloseTab(t)
           \/ \E l \in loads : Loaded(l) \/ LoadFails(l)
           \/ Watching
<1> USE DEF rows, edits, rowEdit
<1>a. "page" \in By /\ "view" \in By
  BY DEF By
<1>1. ASSUME NEW t \in Tab, NEW v \in View, Ask(t, v)
      PROVE  Begins(t, v, "page")
  BY <1>1 DEF Ask, Begins
<1>2. ASSUME NEW t \in Tab, NEW v \in View, ApplyView(t, v)
      PROVE  Begins(t, v, "view")
  BY <1>2 DEF ApplyView, Begins
<1>3. ASSUME NEW t \in Tab, NEW v \in View, OpenTab(t, v)
      PROVE  Begins(t, v, "page")
  BY <1>3 DEF OpenTab, Begins, TypeOK
<1>4. CASE Committed
  <2>1. commit.tab \in Tab /\ commit.view \in View
    BY <1>4 DEF Committed, TypeOK, Commit
  <2>2. Begins(commit.tab, commit.view, "page")
    BY <1>4, <2>1 DEF Committed, Begins
  <2> QED
    BY <1>a, <2>1, <2>2
<1>5. CASE Mutated /\ IsCurrent(mutation)
  <2>1. mutation.tab \in Tab /\ mutation.view \in View /\ mutation.by \in By
    BY <1>5 DEF Mutated, TypeOK, Mutation
  <2>2. Begins(mutation.tab, mutation.view, mutation.by)
    BY <1>5, <2>1 DEF Mutated, Begins
  <2> QED
    BY <2>1, <2>2
<1>s. ASSUME NEW s \in switching, ViewSaved(s)
      PROVE  s.tab \in Tab /\ s.view \in View /\ Begins(s.tab, s.view, "view")
  BY <1>s DEF ViewSaved, Begins, TypeOK, Switch
<1>6. CASE Mutated /\ ~IsCurrent(mutation)
  BY <1>6 DEF Mutated, Watching
<1>7. CASE MutationFails \/ CloseSheet \/ \E t \in Tab : SelectRow(t)
  BY <1>7 DEF MutationFails, CloseSheet, SelectRow, Watching
<1>8. ASSUME NEW t \in Tab, Mutate(t)
      PROVE  Watching
  <2>1. mutation'.tab = t /\ mutation'.rev = rev[t]
    BY <1>8 DEF Mutate
  <2> QED
    BY <1>8, <2>1, ActiveIsOpen DEF Mutate, Watching
<1>9. ASSUME NEW t \in Tab, StartCommit(t)
      PROVE  Watching
  <2>1. commit'.tab = t /\ commit'.rev = rev[t]
    BY <1>9 DEF StartCommit
  <2> QED
    BY <1>9, <2>1, ActiveIsOpen DEF StartCommit, Watching
<1>10. CASE (\E r \in Row : Send(r)) \/ Written
  <2>1. commit # None /\ commit \in Commit
    BY <1>10 DEF Send, Written, TypeOK
  <2>2. commit'.tab = commit.tab /\ commit'.rev = commit.rev
    BY <1>10, <2>1 DEF Send, Written, Commit
  <2> QED
    BY <1>10, <2>1, <2>2 DEF Send, Written, Watching
<1>11. CASE WriteFails \/ Superseded
  BY <1>11 DEF WriteFails, Superseded, Watching
<1>12. CASE \/ \E t \in Tab : Discard(t)
            \/ \E t \in Tab, r \in Row, v \in Value \cup {None} : Stage(t, r, v)
            \/ \E t \in Tab \cup {None} : Select(t)
            \/ \E t \in Tab, v \in View : SaveAndSwitch(t, v)
            \/ \E s \in switching : ViewNotSaved(s)
  BY <1>12 DEF Discard, Stage, Select, SaveAndSwitch, ViewNotSaved, Watching
<1>13. CASE UNCHANGED vars
  BY <1>13 DEF vars, Watching
<1> QED
  BY <1>a, <1>s, <1>1, <1>2, <1>3, <1>4, <1>5, <1>6, <1>7, <1>8, <1>9, <1>10, <1>11, <1>12, <1>13
     DEF Next, User, Answer

\* The revision of a tab grows with a load.
LEMMA BeginRevisions ==
    ASSUME TypeOK, NEW t \in Tab, NEW v \in View, NEW by \in By, BeginLoad(t, v, by)
    PROVE  /\ \A u \in Tab : rev[u] \in Nat /\ rev'[u] = IF u = t THEN rev[u] + 1 ELSE rev[u]
           /\ \A u \in Tab : loading'[u] = (u = t \/ loading[u])
           /\ \E l \in loads' : /\ loads' = loads \cup {l}
                                /\ l.tab = t /\ l.rev = rev'[t] /\ l.view = v /\ l.by = by
<1> DEFINE new == [tab |-> t, rev |-> rev[t] + 1, view |-> v, by |-> by]
<1>1. \A u \in Tab : rev[u] \in Nat /\ rev'[u] = IF u = t THEN rev[u] + 1 ELSE rev[u]
  BY DEF BeginLoad, TypeOK
<1>2. \A u \in Tab : loading'[u] = (u = t \/ loading[u])
  BY DEF BeginLoad, TypeOK
<1>3. new.tab = t /\ new.rev = rev'[t] /\ new.view = v /\ new.by = by
  BY <1>1
<1>4. loads' = loads \cup {new}
  BY DEF BeginLoad
<1> HIDE DEF new
<1> QED
  BY <1>1, <1>2, <1>3, <1>4

\* What was current for another tab is so still; for the tab itself nothing is.
LEMMA CurrentAfterBegin ==
    ASSUME TypeOK, NEW t \in Tab, NEW v \in View, NEW by \in By, BeginLoad(t, v, by),
           NEW x, x.tab \in Tab, x.rev \in Nat, x.rev <= rev[x.tab]
    PROVE  /\ x.rev <= rev'[x.tab]
           /\ x.rev = rev'[x.tab] <=> x.tab # t /\ IsCurrent(x)
BY BeginRevisions DEF IsCurrent

LEMMA NextLoadInv ==
    ASSUME TypeOK, LoadInv, [Next]_vars
    PROVE  LoadInv'
<1> USE DEF IsCurrent
<1>0. \A l \in loads : l.tab \in Tab /\ l.rev \in Nat /\ l.rev <= rev[l.tab] /\ rev[l.tab] \in Nat
  BY DEF TypeOK, Load, LoadInv
<1>m. commit # None => commit.tab \in Tab /\ commit.rev \in Nat
  BY DEF TypeOK, Commit
<1>n. mutation # None => mutation.tab \in Tab /\ mutation.rev \in Nat
  BY DEF TypeOK, Mutation
<1>1. ASSUME NEW t \in Tab, NEW v \in View, NEW by \in By, Begins(t, v, by)
      PROVE  LoadInv'
  <2>0. BeginLoad(t, v, by)
    BY <1>1 DEF Begins
  <2>1. PICK n \in loads' : loads' = loads \cup {n} /\ n.tab = t /\ n.rev = rev'[t]
    BY <2>0, BeginRevisions
  <2>2. \A u \in Tab : rev[u] \in Nat /\ rev'[u] = IF u = t THEN rev[u] + 1 ELSE rev[u]
    BY <2>0, BeginRevisions
  <2>3. \A u \in Tab : loading'[u] = (u = t \/ loading[u])
    BY <2>0, BeginRevisions
  <2>4. \A l \in loads : /\ l.rev <= rev'[l.tab]
                         /\ l.rev = rev'[l.tab] <=> l.tab # t /\ IsCurrent(l)
    BY <1>0, <2>0, CurrentAfterBegin
  <2>5. \A u \in Tab \ {t} : tab'[u] = tab[u]
    BY <1>1 DEF Begins
  <2>6. \A l \in loads' : l.rev <= rev'[l.tab]
    <3>1. rev'[t] <= rev'[t]
      BY <2>2
    <3> QED
      BY <2>1, <2>4, <3>1
  <2>7. \A k, l \in loads' : k.tab = l.tab /\ k.rev = l.rev => k = l
    <3>1. \A l \in loads : l.tab = t => l.rev # rev'[t]
      BY <2>4
    <3> QED
      BY <2>1, <3>1 DEF LoadInv
  <2>8. \A l \in loads' : l.rev = rev'[l.tab] => loading'[l.tab]
    BY <1>0, <2>1, <2>3, <2>4 DEF LoadInv
  <2>9. LoadingIsUnderWay'
    <3> SUFFICES ASSUME NEW u \in Tab, tab'[u] = "open", loading'[u]
                 PROVE  \E l \in loads' : l.tab = u /\ l.rev = rev'[u]
      BY DEF LoadingIsUnderWay, Open
    <3>1. CASE u = t
      BY <2>1, <3>1
    <3>2. CASE u # t
      <4>1. loading[u] /\ tab[u] = "open" /\ rev'[u] = rev[u]
        BY <2>2, <2>3, <2>5, <3>2
      <4>2. PICK l \in loads : l.tab = u /\ l.rev = rev[u]
        BY <4>1 DEF LoadInv, LoadingIsUnderWay, Open
      <4> QED
        BY <2>1, <4>1, <4>2
    <3> QED
      BY <3>1, <3>2
  <2>10. commit' # None => commit'.rev <= rev'[commit'.tab]
                           /\ (commit'.rev = rev'[commit'.tab] => tab'[commit'.tab] = "open")
    <3> SUFFICES ASSUME commit' # None, commit # None, commit' = commit
                 PROVE  commit.rev <= rev'[commit.tab]
                        /\ (commit.rev = rev'[commit.tab] => tab'[commit.tab] = "open")
      BY <1>1 DEF Begins
    <3> QED
      BY <1>m, <2>0, <2>5, CurrentAfterBegin DEF LoadInv, Watches
  <2>11. mutation' # None => mutation'.rev <= rev'[mutation'.tab]
                             /\ (mutation'.rev = rev'[mutation'.tab] => tab'[mutation'.tab] = "open")
    <3> SUFFICES ASSUME mutation' # None, mutation # None, mutation' = mutation
                 PROVE  mutation.rev <= rev'[mutation.tab]
                        /\ (mutation.rev = rev'[mutation.tab] => tab'[mutation.tab] = "open")
      BY <1>1 DEF Begins
    <3> QED
      BY <1>n, <2>0, <2>5, CurrentAfterBegin DEF LoadInv, Watches
  <2> QED
    BY <2>6, <2>7, <2>8, <2>9, <2>10, <2>11 DEF LoadInv, Watches
<1>2. ASSUME NEW t \in Tab, CloseTab(t)
      PROVE  LoadInv'
  <2>1. UNCHANGED <<loading, loads, commit, mutation>>
    BY <1>2 DEF CloseTab, edits, rowEdit
  <2>2. \A u \in Tab : rev[u] \in Nat /\ rev'[u] = IF u = t THEN rev[u] + 1 ELSE rev[u]
    BY <1>2 DEF CloseTab, TypeOK
  <2>3. \A u \in Tab : tab'[u] = IF u = t THEN "closed" ELSE tab[u]
    BY <1>2 DEF CloseTab, TypeOK
  <2>4. ASSUME NEW x, x.tab \in Tab, x.rev \in Nat, x.rev <= rev[x.tab]
        PROVE  /\ x.rev <= rev'[x.tab]
               /\ x.rev = rev'[x.tab] => x.tab # t /\ x.rev = rev[x.tab]
    BY <2>2, <2>4
  <2>5. \A l \in loads : /\ l.rev <= rev'[l.tab]
                         /\ l.rev = rev'[l.tab] => l.tab # t /\ l.rev = rev[l.tab]
    BY <1>0, <2>4
  <2>6. commit # None => Watches(commit)'
    BY <1>m, <2>1, <2>3, <2>4 DEF LoadInv, Watches
  <2>7. mutation # None => Watches(mutation)'
    BY <1>n, <2>1, <2>3, <2>4 DEF LoadInv, Watches
  <2>8. \A l \in loads : l.rev = rev'[l.tab] => loading[l.tab]
    BY <2>5 DEF LoadInv
  <2>9. LoadingIsUnderWay'
    BY <2>1, <2>2, <2>3 DEF LoadInv, LoadingIsUnderWay, Open
  <2> QED
    BY <2>1, <2>5, <2>6, <2>7, <2>8, <2>9 DEF LoadInv
<1>3. ASSUME NEW l \in loads, Loaded(l) \/ LoadFails(l)
      PROVE  LoadInv'
  <2>1. loads' = loads \ {l} /\ UNCHANGED <<tab, rev, commit, mutation>>
    BY <1>3 DEF Loaded, LoadFails, edits, rowEdit
  <2>2. \A t \in Tab : loading'[t] = (loading[t] /\ ~(l.tab = t /\ IsCurrent(l)))
    BY <1>0, <1>3 DEF Loaded, LoadFails, TypeOK
  <2>3. ASSUME NEW k \in loads', k.rev = rev[k.tab]
        PROVE  loading'[k.tab]
    <3>1. k \in loads /\ k # l /\ k.tab \in Tab
      BY <1>0, <2>1
    <3>2. ~(l.tab = k.tab /\ IsCurrent(l))
      BY <2>3, <3>1 DEF LoadInv
    <3>3. loading[k.tab]
      BY <2>3, <3>1 DEF LoadInv
    <3> QED
      BY <2>2, <3>1, <3>2, <3>3
  <2>4. LoadingIsUnderWay'
    <3> SUFFICES ASSUME NEW u \in Tab, tab[u] = "open", loading'[u]
                 PROVE  \E k \in loads' : k.tab = u /\ k.rev = rev[u]
      BY <2>1 DEF LoadingIsUnderWay, Open
    <3>1. loading[u] /\ ~(l.tab = u /\ IsCurrent(l))
      BY <2>2
    <3> QED
      BY <2>1, <3>1 DEF LoadInv, LoadingIsUnderWay, Open
  <2> QED
    BY <2>1, <2>3, <2>4 DEF LoadInv, Watches
<1>4. CASE Watching
  <2>1. UNCHANGED <<tab, loading, rev, loads>>
    BY <1>4 DEF Watching
  <2>2. commit' # None => Watches(commit)'
    <3>1. commit # None => commit.rev <= rev[commit.tab] /\ (IsCurrent(commit) => tab[commit.tab] = "open")
      BY DEF LoadInv, Watches
    <3>2. commit' # None => commit'.tab \in Tab
      BY CommitTypes DEF Commit
    <3>3. \A u \in Tab : rev[u] <= rev[u]
      BY DEF TypeOK
    <3> QED
      BY <1>4, <2>1, <3>1, <3>2, <3>3 DEF Watching, Watches
  <2>3. mutation' # None => Watches(mutation)'
    <3>1. mutation # None => mutation.rev <= rev[mutation.tab] /\ (IsCurrent(mutation) => tab[mutation.tab] = "open")
      BY DEF LoadInv, Watches
    <3>2. mutation' # None => mutation'.tab \in Tab
      BY NextTypeOK DEF TypeOK, Mutation
    <3>3. \A u \in Tab : rev[u] <= rev[u]
      BY DEF TypeOK
    <3> QED
      BY <1>4, <2>1, <3>1, <3>2, <3>3 DEF Watching, Watches
  <2>4. LoadingIsUnderWay'
    BY <2>1 DEF LoadInv, LoadingIsUnderWay, Open
  <2> QED
    BY <2>1, <2>2, <2>3, <2>4 DEF LoadInv
<1> QED
  BY <1>1, <1>2, <1>3, <1>4, LoadsOfAStep

-----------------------------------------------------------------------------
(* Rows. *)

\* A load that begins for a page asks for what its tab is asked for from now on.
Fits(t, v, by) ==
    /\ \A u \in Tab \ {t} : asked'[u] = asked[u]
    /\ by = "page" => asked'[t] = v

\* A commit begins with what its tab asked for, and so does a row edit, unless a
\* saved view is under way.
Quiet ==
    /\ asked' = asked
    /\ commit' # None => \/ /\ commit # None
                            /\ commit'.tab = commit.tab /\ commit'.rev = commit.rev
                            /\ commit'.view = commit.view
                         \/ ~loading[commit'.tab] /\ commit'.view = asked[commit'.tab]
    /\ mutation' # None => \/ mutation' = mutation
                           \/ /\ mutation'.view = asked[mutation'.tab]
                              /\ SavedUnderWay(mutation'.tab) => mutation'.by = "edit"

LEMMA RowsOfAStep ==
    ASSUME TypeOK, ViewInv, [Next]_vars
    PROVE  \/ \E t \in Tab, v \in View, by \in By : Begins(t, v, by) /\ Fits(t, v, by)
           \/ \E t \in Tab : CloseTab(t)
           \/ \E l \in loads : Loaded(l) \/ LoadFails(l)
           \/ Watching /\ Quiet
<1> USE DEF rows, edits, rowEdit
<1>a. "page" \in By /\ "view" \in By
  BY DEF By
<1>1. ASSUME NEW t \in Tab, NEW v \in View, Ask(t, v)
      PROVE  Begins(t, v, "page") /\ Fits(t, v, "page")
  BY <1>1 DEF Ask, Begins, Fits, TypeOK
<1>2. ASSUME NEW t \in Tab, NEW v \in View, ApplyView(t, v)
      PROVE  Begins(t, v, "view") /\ Fits(t, v, "view")
  BY <1>2 DEF ApplyView, Begins, Fits
<1>3. ASSUME NEW t \in Tab, NEW v \in View, OpenTab(t, v)
      PROVE  Begins(t, v, "page") /\ Fits(t, v, "page")
  BY <1>3 DEF OpenTab, Begins, Fits, TypeOK
<1>4. ASSUME NEW s \in switching, ViewSaved(s)
      PROVE  /\ s.tab \in Tab /\ s.view \in View
             /\ Begins(s.tab, s.view, "view") /\ Fits(s.tab, s.view, "view")
  BY <1>4 DEF ViewSaved, Begins, Fits, TypeOK, Switch
<1>5. CASE Committed
  <2>1. commit.tab \in Tab /\ commit.view \in View /\ commit.view = asked[commit.tab]
    BY <1>5 DEF Committed, TypeOK, Commit, ViewInv
  <2>2. Begins(commit.tab, commit.view, "page") /\ Fits(commit.tab, commit.view, "page")
    BY <1>5, <2>1 DEF Committed, Begins, Fits
  <2> QED
    BY <1>a, <2>1, <2>2
<1>6. CASE Mutated /\ IsCurrent(mutation)
  <2>1. mutation.tab \in Tab /\ mutation.view \in View /\ mutation.by \in By
    BY <1>6 DEF Mutated, TypeOK, Mutation
  <2>2. mutation.by = "page" => mutation.view = asked[mutation.tab]
    BY <1>6 DEF Mutated, ViewInv
  <2>3. Begins(mutation.tab, mutation.view, mutation.by)
        /\ Fits(mutation.tab, mutation.view, mutation.by)
    BY <1>6, <2>2 DEF Mutated, Begins, Fits
  <2> QED
    BY <2>1, <2>3
<1>7. CASE Mutated /\ ~IsCurrent(mutation)
  BY <1>7 DEF Mutated, Watching, Quiet
<1>8. ASSUME NEW t \in Tab, Mutate(t)
      PROVE  Watching /\ Quiet
  <2>1. /\ mutation'.tab = t /\ mutation'.rev = rev[t] /\ mutation'.view = asked[t]
        /\ SavedUnderWay(t) => mutation'.by = "edit"
    BY <1>8 DEF Mutate
  <2> QED
    BY <1>8, <2>1, ActiveIsOpen DEF Mutate, Watching, Quiet
<1>9. ASSUME NEW t \in Tab, StartCommit(t)
      PROVE  Watching /\ Quiet
  <2>1. commit'.tab = t /\ commit'.rev = rev[t] /\ commit'.view = asked[t] /\ ~loading[t]
    BY <1>9 DEF StartCommit
  <2> QED
    BY <1>9, <2>1, ActiveIsOpen DEF StartCommit, Watching, Quiet
<1>10. CASE (\E r \in Row : Send(r)) \/ Written
  <2>1. commit # None /\ commit \in Commit
    BY <1>10 DEF Send, Written, TypeOK
  <2>2. commit'.tab = commit.tab /\ commit'.rev = commit.rev /\ commit'.view = commit.view
    BY <1>10, <2>1 DEF Send, Written, Commit
  <2> QED
    BY <1>10, <2>1, <2>2 DEF Send, Written, Watching, Quiet
<1>11. CASE \/ WriteFails \/ Superseded \/ MutationFails \/ CloseSheet
            \/ \E t \in Tab : SelectRow(t)
  BY <1>11 DEF WriteFails, Superseded, MutationFails, CloseSheet, SelectRow, Watching, Quiet
<1>12. CASE \/ \E t \in Tab : Discard(t)
            \/ \E t \in Tab, r \in Row, v \in Value \cup {None} : Stage(t, r, v)
            \/ \E t \in Tab \cup {None} : Select(t)
            \/ \E t \in Tab, v \in View : SaveAndSwitch(t, v)
            \/ \E s \in switching : ViewNotSaved(s)
  BY <1>12 DEF Discard, Stage, Select, SaveAndSwitch, ViewNotSaved, Watching, Quiet
<1>13. CASE UNCHANGED vars
  BY <1>13 DEF vars, Watching, Quiet
<1> QED
  BY <1>a, <1>1, <1>2, <1>3, <1>4, <1>5, <1>6, <1>7, <1>8, <1>9, <1>10, <1>11, <1>12, <1>13
     DEF Next, User, Answer

LEMMA BeginKeepsViews ==
    ASSUME TypeOK, LoadInv, ViewInv, NEW t \in Tab, NEW v \in View, NEW by \in By,
           Begins(t, v, by), Fits(t, v, by)
    PROVE  ViewInv'
<1> USE DEF IsCurrent
<1>0. \A l \in loads : l.tab \in Tab /\ l.rev \in Nat /\ l.rev <= rev[l.tab]
  BY DEF TypeOK, Load, LoadInv
<1>1. BeginLoad(t, v, by)
  BY DEF Begins
<1>2. PICK n \in loads' : loads' = loads \cup {n} /\ n.tab = t /\ n.rev = rev'[t]
                          /\ n.view = v /\ n.by = by
  BY <1>1, BeginRevisions
<1>3. \A l \in loads : l.rev = rev'[l.tab] <=> l.tab # t /\ l.rev = rev[l.tab]
  BY <1>0, <1>1, CurrentAfterBegin
<1>4. \A u \in Tab : loading'[u] = (u = t \/ loading[u])
  BY <1>1, BeginRevisions
<1>5. \A u \in Tab \ {t} : asked'[u] = asked[u]
  BY DEF Fits
<1>6. \A l \in loads' : l.rev = rev'[l.tab] /\ l.by = "page" => l.view = asked'[l.tab]
  <2>1. by = "page" => asked'[t] = v
    BY DEF Fits
  <2>2. \A l \in loads : l.rev = rev'[l.tab] /\ l.by = "page" => l.view = asked'[l.tab]
    BY <1>0, <1>3, <1>5 DEF ViewInv
  <2> QED
    BY <1>2, <2>1, <2>2
<1>7. ASSUME NEW x, x.tab \in Tab, x.rev \in Nat, x.rev <= rev[x.tab], x.rev = rev'[x.tab]
      PROVE  x.tab # t /\ x.rev = rev[x.tab]
  BY <1>1, <1>7, CurrentAfterBegin
<1>8. commit' # None /\ commit'.rev = rev'[commit'.tab]
      => ~loading'[commit'.tab] /\ commit'.view = asked'[commit'.tab]
  <2> SUFFICES ASSUME commit # None, commit.rev = rev'[commit.tab]
               PROVE  ~loading'[commit.tab] /\ commit.view = asked'[commit.tab]
    BY DEF Begins
  <2>1. commit.tab \in Tab /\ commit.tab # t /\ commit.rev = rev[commit.tab]
    BY <1>7 DEF TypeOK, Commit, LoadInv, Watches
  <2> QED
    BY <1>4, <1>5, <2>1 DEF ViewInv
<1>9. (mutation # None /\ IsCurrent(mutation) /\ mutation.by = "page"
       => ~SavedUnderWay(mutation.tab) /\ mutation.view = asked[mutation.tab])'
  <2> SUFFICES ASSUME mutation # None, mutation' = mutation, mutation.rev = rev'[mutation.tab],
                      mutation.by = "page"
               PROVE  /\ ~(\E l \in loads' : l.tab = mutation.tab /\ l.by = "view" /\ l.rev = rev'[l.tab])
                      /\ mutation.view = asked'[mutation.tab]
    BY DEF Begins, SavedUnderWay
  <2>1. mutation.tab \in Tab /\ mutation.tab # t /\ mutation.rev = rev[mutation.tab]
    BY <1>7 DEF TypeOK, Mutation, LoadInv, Watches
  <2>2. ~(\E l \in loads : l.tab = mutation.tab /\ l.by = "view" /\ l.rev = rev[l.tab])
    BY <2>1 DEF ViewInv, SavedUnderWay
  <2> QED
    BY <1>2, <1>3, <1>5, <2>1, <2>2 DEF ViewInv
<1> QED
  BY <1>6, <1>8, <1>9 DEF ViewInv

LEMMA CloseKeepsViews ==
    ASSUME TypeOK, LoadInv, ViewInv, NEW t \in Tab, CloseTab(t)
    PROVE  ViewInv'
<1> USE DEF IsCurrent
<1>1. UNCHANGED <<asked, loading, loads, commit, mutation>>
  BY DEF CloseTab, edits, rowEdit
<1>2. \A u \in Tab : rev[u] \in Nat /\ rev'[u] = IF u = t THEN rev[u] + 1 ELSE rev[u]
  BY DEF CloseTab, TypeOK
<1>3. ASSUME NEW x, x.tab \in Tab, x.rev \in Nat, x.rev <= rev[x.tab], x.rev = rev'[x.tab]
      PROVE  x.rev = rev[x.tab]
  BY <1>2, <1>3
<1>4. \A l \in loads : l.rev = rev'[l.tab] => l.rev = rev[l.tab]
  BY <1>3 DEF TypeOK, Load, LoadInv
<1>5. commit # None /\ commit.rev = rev'[commit.tab] => commit.rev = rev[commit.tab]
  BY <1>3 DEF TypeOK, Commit, LoadInv, Watches
<1>6. mutation # None /\ mutation.rev = rev'[mutation.tab] => mutation.rev = rev[mutation.tab]
  BY <1>3 DEF TypeOK, Mutation, LoadInv, Watches
<1>7. (mutation # None /\ IsCurrent(mutation) /\ mutation.by = "page"
       => ~SavedUnderWay(mutation.tab) /\ mutation.view = asked[mutation.tab])'
  BY <1>1, <1>4, <1>6 DEF ViewInv, SavedUnderWay
<1>8. (\A l \in loads : IsCurrent(l) /\ l.by = "page" => l.view = asked[l.tab])'
  BY <1>1, <1>4 DEF ViewInv
<1>9. (commit # None /\ IsCurrent(commit) => ~loading[commit.tab] /\ commit.view = asked[commit.tab])'
  BY <1>1, <1>5 DEF ViewInv
<1> QED
  BY <1>7, <1>8, <1>9 DEF ViewInv

\* An answer that is taken changes what its tab asks for only if it is of a saved
\* view, and then nothing else of the tab is the latest.
LEMMA AnswerKeepsViews ==
    ASSUME TypeOK, LoadInv, ViewInv, NEW l \in loads, Loaded(l) \/ LoadFails(l)
    PROVE  ViewInv'
<1> USE DEF IsCurrent
<1>0. l.tab \in Tab /\ l.view \in View /\ \A k \in loads : k.tab \in Tab
  BY DEF TypeOK, Load
<1>1. loads' = loads \ {l} /\ UNCHANGED <<tab, active, rev, commit, mutation>>
  BY DEF Loaded, LoadFails, edits, rowEdit
<1>2. CASE ~IsCurrent(l)
  <2>1. UNCHANGED <<asked, loading>>
    BY <1>2 DEF Loaded, LoadFails
  <2>2. (mutation # None /\ IsCurrent(mutation) /\ mutation.by = "page"
         => ~SavedUnderWay(mutation.tab) /\ mutation.view = asked[mutation.tab])'
    BY <1>1, <2>1 DEF ViewInv, SavedUnderWay
  <2> QED
    BY <1>1, <2>1, <2>2 DEF ViewInv
<1>3. CASE IsCurrent(l)
  <2>1. \A u \in Tab \ {l.tab} : asked'[u] = asked[u] /\ loading'[u] = loading[u]
    BY <1>0, <1>3 DEF Loaded, LoadFails, TypeOK
  <2>2. loading[l.tab]
    BY <1>3 DEF LoadInv
\* The answer was of the only request of the tab that is current.
  <2>3. \A k \in loads' : k.rev = rev[k.tab] => k.tab # l.tab
    BY <1>1, <1>3 DEF LoadInv
  <2>4. (\A k \in loads : IsCurrent(k) /\ k.by = "page" => k.view = asked[k.tab])'
    BY <1>0, <1>1, <2>1, <2>3 DEF ViewInv
  <2>5. (commit # None /\ IsCurrent(commit)
         => ~loading[commit.tab] /\ commit.view = asked[commit.tab])'
    <3> SUFFICES ASSUME commit # None, commit.rev = rev[commit.tab]
                 PROVE  ~loading'[commit.tab] /\ commit.view = asked'[commit.tab]
      BY <1>1
    <3>1. commit.tab \in Tab /\ ~loading[commit.tab] /\ commit.view = asked[commit.tab]
      BY DEF TypeOK, Commit, ViewInv
    <3> QED
      BY <2>1, <2>2, <3>1
  <2>6. (mutation # None /\ IsCurrent(mutation) /\ mutation.by = "page"
         => ~SavedUnderWay(mutation.tab) /\ mutation.view = asked[mutation.tab])'
    <3> SUFFICES ASSUME mutation # None, mutation.rev = rev[mutation.tab], mutation.by = "page"
                 PROVE  /\ ~(\E k \in loads' : k.tab = mutation.tab /\ k.by = "view" /\ k.rev = rev[k.tab])
                        /\ mutation.view = asked'[mutation.tab]
      BY <1>1 DEF SavedUnderWay
    <3>1. mutation.tab \in Tab /\ ~SavedUnderWay(mutation.tab) /\ mutation.view = asked[mutation.tab]
      BY DEF TypeOK, Mutation, ViewInv
    <3>2. mutation.tab = l.tab => asked' = asked
      BY <1>3, <3>1 DEF Loaded, LoadFails, SavedUnderWay
    <3> QED
      BY <1>1, <2>1, <3>1, <3>2 DEF SavedUnderWay
  <2> QED
    BY <2>4, <2>5, <2>6 DEF ViewInv
<1> QED
  BY <1>2, <1>3

LEMMA QuietKeepsViews ==
    ASSUME TypeOK, LoadInv, ViewInv, Watching, Quiet
    PROVE  ViewInv'
<1> USE DEF IsCurrent
<1>1. UNCHANGED <<loading, rev, loads, asked>>
  BY DEF Watching, Quiet
<1>2. (commit # None /\ IsCurrent(commit)
       => ~loading[commit.tab] /\ commit.view = asked[commit.tab])'
  BY <1>1 DEF Quiet, ViewInv
<1>3. \A u \in Tab : SavedUnderWay(u)' = SavedUnderWay(u)
  BY <1>1 DEF SavedUnderWay
<1>4. (mutation # None /\ IsCurrent(mutation) /\ mutation.by = "page"
       => ~SavedUnderWay(mutation.tab) /\ mutation.view = asked[mutation.tab])'
  BY <1>1 DEF Quiet, ViewInv, SavedUnderWay
<1>5. (\A l \in loads : IsCurrent(l) /\ l.by = "page" => l.view = asked[l.tab])'
  BY <1>1 DEF ViewInv
<1> QED
  BY <1>2, <1>4, <1>5 DEF ViewInv

LEMMA NextViewInv ==
    ASSUME TypeOK, LoadInv, ViewInv, [Next]_vars
    PROVE  ViewInv'
BY RowsOfAStep, BeginKeepsViews, CloseKeepsViews, AnswerKeepsViews, QuietKeepsViews

\* Rows change with an answer only, and what a tab asks for with an answer or a
\* request after which it is loading.
LEMMA ShownOfAStep ==
    ASSUME TypeOK, LoadInv, [Next]_vars, NEW t \in Tab, ShowsOther(t)', ~ShowsOther(t)
    PROVE  \E l \in loads : (Loaded(l) \/ LoadFails(l)) /\ l.tab = t /\ IsCurrent(l)
<1> USE DEF rows, edits, rowEdit
<1>0. tab'[t] = "open" /\ ~loading'[t] /\ data'[t] # None /\ data'[t] # asked'[t]
  BY DEF ShowsOther, Open
<1>b. ASSUME NEW u \in Tab, NEW v \in View, NEW by \in By, BeginLoad(u, v, by)
      PROVE  u # t /\ ~loading[t]
  <2>1. \A x \in Tab : loading'[x] = (x = u \/ loading[x])
    BY <1>b, BeginRevisions
  <2> QED
    BY <1>0, <2>1
<1>k. ASSUME tab[t] = "open", ~loading[t], data'[t] = data[t], asked'[t] = asked[t]
      PROVE  FALSE
  BY <1>0, <1>k DEF ShowsOther, Open
<1>a. "page" \in By /\ "view" \in By
  BY DEF By
<1>1. ASSUME NEW u \in Tab, NEW v \in View
      PROVE  ~Ask(u, v) /\ ~ApplyView(u, v) /\ ~OpenTab(u, v)
  <2>1. ~Ask(u, v)
    <3> SUFFICES ASSUME Ask(u, v) PROVE FALSE
      OBVIOUS
    <3>1. u # t /\ ~loading[t]
      BY <1>a, <1>b DEF Ask
    <3> QED
      BY <1>0, <1>k, <3>1 DEF Ask, TypeOK
  <2>2. ~ApplyView(u, v)
    <3> SUFFICES ASSUME ApplyView(u, v) PROVE FALSE
      OBVIOUS
    <3>1. u # t /\ ~loading[t]
      BY <1>a, <1>b DEF ApplyView
    <3> QED
      BY <1>0, <1>k, <3>1 DEF ApplyView
  <2>3. ~OpenTab(u, v)
    <3> SUFFICES ASSUME OpenTab(u, v) PROVE FALSE
      OBVIOUS
    <3>1. u # t /\ ~loading[t]
      BY <1>a, <1>b DEF OpenTab
    <3> QED
      BY <1>0, <1>k, <3>1 DEF OpenTab, TypeOK
  <2> QED
    BY <2>1, <2>2, <2>3
<1>2. ASSUME NEW s \in switching
      PROVE  ~ViewSaved(s)
  <2> SUFFICES ASSUME ViewSaved(s) PROVE FALSE
    OBVIOUS
  <2>1. s.tab \in Tab /\ s.view \in View
    BY DEF TypeOK, Switch
  <2>2. ~loading[t]
    BY <1>a, <1>b, <2>1 DEF ViewSaved
  <2> QED
    BY <1>0, <1>k, <2>2 DEF ViewSaved
<1>3. ~Committed
  <2> SUFFICES ASSUME Committed PROVE FALSE
    OBVIOUS
  <2>1. commit.tab \in Tab /\ commit.view \in View
    BY DEF Committed, TypeOK, Commit
  <2>2. ~loading[t]
    BY <1>a, <1>b, <2>1 DEF Committed
  <2> QED
    BY <1>0, <1>k, <2>2 DEF Committed
<1>4. ~Mutated
  <2> SUFFICES ASSUME Mutated PROVE FALSE
    OBVIOUS
  <2>1. mutation.tab \in Tab /\ mutation.view \in View /\ mutation.by \in By
    BY DEF Mutated, TypeOK, Mutation
  <2>2. CASE IsCurrent(mutation)
    <3>1. ~loading[t]
      BY <1>b, <2>1, <2>2 DEF Mutated
    <3> QED
      BY <1>0, <1>k, <2>2, <3>1 DEF Mutated
  <2>3. CASE ~IsCurrent(mutation)
    BY <1>0, <1>k, <2>3 DEF Mutated
  <2> QED
    BY <2>2, <2>3
<1>5. ASSUME NEW u \in Tab
      PROVE  ~CloseTab(u)
  <2> SUFFICES ASSUME CloseTab(u) PROVE FALSE
    OBVIOUS
  <2>1. tab[t] = "open"
    BY <1>0 DEF CloseTab, TypeOK
  <2> QED
    BY <1>0, <1>k, <2>1 DEF CloseTab
<1>6. ASSUME UNCHANGED <<tab, rows>>
      PROVE  FALSE
  BY <1>0, <1>k, <1>6
<1>7. CASE \/ \E u \in Tab, v \in View : SaveAndSwitch(u, v)
           \/ \E s \in switching : ViewNotSaved(s)
           \/ \E u \in Tab \cup {None} : Select(u)
           \/ \E u \in Tab : Discard(u) \/ StartCommit(u) \/ Mutate(u)
           \/ \E u \in Tab, r \in Row, v \in Value \cup {None} : Stage(u, r, v)
  BY <1>6, <1>7 DEF SaveAndSwitch, ViewNotSaved, Select, Discard, StartCommit, Mutate, Stage
<1>8. CASE \/ \E r \in Row : Send(r)
           \/ Written \/ WriteFails \/ Superseded \/ CloseSheet \/ MutationFails
           \/ \E u \in Tab : SelectRow(u)
           \/ UNCHANGED vars
  BY <1>6, <1>8 DEF Send, Written, WriteFails, Superseded, CloseSheet, MutationFails, SelectRow, vars
<1>9. CASE \E l \in loads : Loaded(l) \/ LoadFails(l)
  <2>1. PICK l \in loads : Loaded(l) \/ LoadFails(l)
    BY <1>9
  <2>2. l.tab \in Tab
    BY DEF TypeOK, Load
  <2>3. CASE ~IsCurrent(l)
    BY <1>0, <1>k, <2>1, <2>3 DEF Loaded, LoadFails
  <2>4. CASE IsCurrent(l) /\ l.tab # t
    <3>1. tab' = tab /\ loading'[t] = loading[t] /\ data'[t] = data[t] /\ asked'[t] = asked[t]
      BY <2>1, <2>2, <2>4 DEF Loaded, LoadFails, TypeOK
    <3> QED
      BY <1>0, <1>k, <3>1
  <2> QED
    BY <2>1, <2>3, <2>4
<1> QED
  BY <1>1, <1>2, <1>3, <1>4, <1>5, <1>7, <1>8, <1>9 DEF Next, User, Answer

-----------------------------------------------------------------------------
(* The theorems. *)

LEMMA LoadInvariant == Spec => [](TypeOK /\ LoadInv)
<1>1. Init => TypeOK /\ LoadInv
  <2> SUFFICES ASSUME Init PROVE LoadInv
    BY InitTypeOK
  <2> QED
    BY DEF Init, LoadInv, LoadingIsUnderWay, Open
<1>2. TypeOK /\ LoadInv /\ [Next]_vars => (TypeOK /\ LoadInv)'
  BY NextTypeOK, NextLoadInv
<1> QED
  BY <1>1, <1>2, PTL DEF Spec

\* Every variable keeps its type: the active tab is open and knows what it
\* asked for (the state of useTableDataController.ts and its tabs).
THEOREM TypeCorrect == Spec => []TypeOK
<1> QED
  BY LoadInvariant, PTL

\* Whatever the user does, a tab that shows that it is loading waits for a
\* request that is its latest, so that its answer ends the loading.
THEOREM LoadingIsAnswered == Spec => []LoadingIsUnderWay
<1>1. LoadInv => LoadingIsUnderWay
  BY DEF LoadInv
<1> QED
  BY <1>1, LoadInvariant, PTL

\* A commit writes nothing for a tab that was closed (continueWhileCurrent
\* before each statement of handleSaveInlineChanges).
THEOREM ClosedTabIsLeft == Spec => ClosedTabIsNotWritten
<1>1. ASSUME TypeOK, LoadInv, [Next]_vars, commit # None, commit' # None, commit.sent = None,
             commit'.sent # None
      PROVE  tab[commit.tab] = "open"
  <2>1. ASSUME NEW r \in Row, Send(r)
        PROVE  tab[commit.tab] = "open"
    BY <1>1, <2>1 DEF Send, LoadInv, Watches
  <2>2. ~Written /\ ~WriteFails /\ ~Superseded /\ ~Committed
    BY <1>1 DEF Written, WriteFails, Superseded, Committed
  <2>3. ASSUME NEW t \in Tab
        PROVE  ~StartCommit(t)
    BY <1>1 DEF StartCommit
  <2>4. ASSUME commit' = commit
        PROVE  FALSE
    BY <1>1, <2>4
  <2>5. CASE \/ \E t \in Tab, v \in View : Ask(t, v) \/ ApplyView(t, v) \/ SaveAndSwitch(t, v) \/ OpenTab(t, v)
             \/ \E s \in switching : ViewSaved(s) \/ ViewNotSaved(s)
             \/ \E t \in Tab : CloseTab(t) \/ Discard(t) \/ Mutate(t)
             \/ \E t \in Tab \cup {None} : Select(t)
    BY <2>4, <2>5 DEF Ask, ApplyView, SaveAndSwitch, ViewSaved, ViewNotSaved, OpenTab,
                      CloseTab, Discard, Mutate, Select, edits
  <2>6. CASE \/ \E t \in Tab : SelectRow(t)
             \/ \E t \in Tab, r \in Row, v \in Value \cup {None} : Stage(t, r, v)
             \/ CloseSheet \/ Mutated \/ MutationFails
             \/ \E l \in loads : Loaded(l) \/ LoadFails(l)
    BY <2>4, <2>6 DEF SelectRow, Stage, CloseSheet, Mutated, MutationFails, Loaded, LoadFails, edits
  <2>7. CASE UNCHANGED vars
    BY <2>4, <2>7 DEF vars, edits
  <2> QED
    BY <1>1, <2>1, <2>2, <2>3, <2>5, <2>6, <2>7 DEF Next, User, Answer
<1>2. TypeOK /\ LoadInv /\ [Next]_vars
      => [commit # None /\ commit' # None /\ commit.sent = None /\ commit'.sent # None
          => tab[commit.tab] = "open"]_vars
  BY <1>1
<1> QED
  BY <1>2, LoadInvariant, PTL DEF Spec, ClosedTabIsNotWritten

\* In whatever order loads, saved views, commits and row edits are answered, and
\* whatever the user does meanwhile, a tab comes to show other rows than its page,
\* filter and sort say only where a saved view fails, or after a row that was saved
\* while a saved view was under way.
THEOREM ShownIsRight == Spec => ShownStaysAsked
<1>1. Init => ViewInv
  BY DEF Init, ViewInv
<1>2. TypeOK /\ LoadInv /\ ViewInv /\ [Next]_vars => ViewInv'
  BY NextViewInv
<1>3. ASSUME TypeOK, LoadInv, ViewInv, [Next]_vars, NEW t \in Tab, ShowsOther(t)', ~ShowsOther(t)
      PROVE  \E l \in loads \ loads' :
                /\ l.tab = t /\ IsCurrent(l)
                /\ l.by = "edit" \/ (l.by = "view" /\ UNCHANGED data)
  <2>1. PICK l \in loads : (Loaded(l) \/ LoadFails(l)) /\ l.tab = t /\ IsCurrent(l)
    BY <1>3, ShownOfAStep
  <2>2. l \in loads \ loads'
    BY <2>1 DEF Loaded, LoadFails
  <2>3. l.by \in By /\ l.view \in View /\ data'[t] # None /\ data'[t] # asked'[t]
    BY <1>3 DEF TypeOK, Load, ShowsOther
  <2>4. CASE Loaded(l)
    <3>1. data'[t] = l.view /\ (l.by = "view" => asked'[t] = l.view) /\ (l.by # "view" => asked' = asked)
      BY <1>3, <2>1, <2>4 DEF Loaded, TypeOK
    <3>2. l.by # "view" /\ l.by # "page"
      BY <1>3, <2>1, <2>3, <3>1 DEF ViewInv
    <3>3. l.by = "edit"
      BY <2>3, <3>2 DEF By
    <3> QED
      BY <2>1, <2>2, <3>3
  <2>5. CASE LoadFails(l)
    <3>1. l.by # "view" => data'[t] = None
      BY <1>3, <2>1, <2>5 DEF LoadFails, TypeOK
    <3>2. l.by = "view" /\ UNCHANGED data
      BY <2>1, <2>3, <2>5, <3>1 DEF LoadFails
    <3> QED
      BY <2>1, <2>2, <3>2
  <2> QED
    BY <2>1, <2>4, <2>5
<1>4. TypeOK /\ LoadInv /\ ViewInv /\ [Next]_vars
      => [\A t \in Tab : ShowsOther(t)' =>
            \/ ShowsOther(t)
            \/ \E l \in loads \ loads' :
                /\ l.tab = t /\ IsCurrent(l)
                /\ l.by = "edit" \/ (l.by = "view" /\ UNCHANGED data)]_vars
  BY <1>3
<1> QED
  BY <1>1, <1>2, <1>4, LoadInvariant, PTL DEF Spec, ShownStaysAsked

\* The end of a commit takes no edit off the bar that the commit had not
\* written: only the one that finds nothing left to write takes any.
THEOREM CommitKeepsTheRest == Spec => CommittedIsWritten
<1>1. ASSUME TypeOK, [Next]_vars, commit # None, commit' = None, NEW r \in Row,
             commit.updates[r] # None,
             staged[commit.tab][r] = commit.updates[r],
             staged'[commit.tab][r] = None
      PROVE  WroteIt(r)
  <2>1. staged' # staged
    BY <1>1
  <2>2. CASE Committed
    BY <2>2, WorkspaceAssumption DEF Committed, WroteIt
  <2>3. ASSUME NEW t \in Tab
        PROVE  ~Discard(t)
    BY <1>1 DEF Discard
  <2>4. ASSUME NEW t \in Tab, NEW k \in Row, NEW v \in Value \cup {None}
        PROVE  ~Stage(t, k, v)
    BY <1>1 DEF Stage
  <2>5. CASE \/ \E t \in Tab, v \in View : Ask(t, v) \/ ApplyView(t, v) \/ SaveAndSwitch(t, v) \/ OpenTab(t, v)
             \/ \E s \in switching : ViewSaved(s) \/ ViewNotSaved(s)
             \/ \E t \in Tab : CloseTab(t) \/ Mutate(t) \/ StartCommit(t)
             \/ \E t \in Tab \cup {None} : Select(t)
    BY <2>1, <2>5 DEF Ask, ApplyView, SaveAndSwitch, ViewSaved, ViewNotSaved, OpenTab,
                      CloseTab, Mutate, StartCommit, Select, edits
  <2>6. CASE \/ \E t \in Tab : SelectRow(t)
             \/ \E k \in Row : Send(k)
             \/ Written \/ WriteFails \/ Superseded
             \/ CloseSheet \/ Mutated \/ MutationFails
             \/ \E l \in loads : Loaded(l) \/ LoadFails(l)
    BY <2>1, <2>6 DEF SelectRow, Send, Written, WriteFails, Superseded, CloseSheet, Mutated,
                      MutationFails, Loaded, LoadFails, edits
  <2>7. CASE UNCHANGED vars
    BY <2>1, <2>7 DEF vars, edits
  <2> QED
    BY <1>1, <2>2, <2>3, <2>4, <2>5, <2>6, <2>7 DEF Next, User, Answer
<1>2. TypeOK /\ [Next]_vars
      => [commit # None /\ commit' = None =>
            \A r \in Row :
                /\ commit.updates[r] # None
                /\ staged[commit.tab][r] = commit.updates[r]
                /\ staged'[commit.tab][r] = None
                => WroteIt(r)]_vars
  BY <1>1
<1> QED
  BY <1>2, TypeCorrect, PTL DEF Spec, CommittedIsWritten
=============================================================================
