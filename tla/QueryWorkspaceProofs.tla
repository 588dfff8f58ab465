------------------------ MODULE QueryWorkspaceProofs ------------------------
(***************************************************************************)
(* What QueryWorkspace promises for every set of tabs, statements, filters *)
(* and orders, every limit of the history and every number of requests.    *)
(*                                                                         *)
(* RequestInv says what the requests under way know of their tab: it is    *)
(* what makes an answer that is current fit the rows that it replaces.     *)
(***************************************************************************)
EXTENDS QueryWorkspace, SequenceTheorems, TLAPS

\* Requests of a tab have revisions of their own that were given out; a run
\* shows its result as it is, and a view that is current is one of the query
\* that stands behind the tab's result.
RequestInv ==
    /\ \A r \in asked : r.rev \in 1..rev[r.tab]
    /\ \A r, s \in asked : r.tab = s.tab /\ r.rev = s.rev => r = s
    /\ \A r \in asked : r.kind = "run" => r.view = NoView
    /\ \A r \in asked : r.kind = "view" /\ IsCurrent(r) => base[r.tab] = Head(r.todo)

\* A tab that was not opened yet neither shows nor asked for anything.
UnusedInv ==
    /\ \A t \in Tab : tab[t] = "unused" => ~executing[t] /\ result[t] = None
    /\ \A r \in asked : tab[r.tab] # "unused"

TabInv == RequestInv /\ UnusedInv /\ ExecutingIsUnderWay /\ ResultIsWhatWasAsked

-----------------------------------------------------------------------------
(* The history. *)

\* The index a list is cut at.
First(n) == IF n > HistoryLimit THEN n - HistoryLimit + 1 ELSE 1

LEMMA NewestProperties ==
    ASSUME NEW S, NEW s \in Seq(S)
    PROVE  /\ Newest(s) \in Seq(S)
           /\ Len(Newest(s)) = IF Len(s) > HistoryLimit THEN HistoryLimit ELSE Len(s)
           /\ \A i \in 1..Len(Newest(s)) : Newest(s)[i] = s[First(Len(s)) + i - 1]
<1> DEFINE n == Len(s)
           m == First(n)
<1>0. HistoryLimit \in Nat \ {0} /\ n \in Nat
  BY QueryAssumption, LenProperties
<1>1. m \in 1..(n + 1) /\ (n - m + 1 = IF n > HistoryLimit THEN HistoryLimit ELSE n)
      /\ m \in Int /\ n \in Int
  BY <1>0 DEF First
<1>2. \A i \in m..n : s[i] \in S
  <2> SUFFICES ASSUME NEW i \in m..n PROVE s[i] \in S
    OBVIOUS
  <2>1. i \in 1..Len(s)
    BY <1>0, <1>1
  <2> QED
    BY <2>1, ElementOfSeq
<1>3. Newest(s) = SubSeq(s, m, n)
  BY DEF Newest, First
<1> HIDE DEF m, n
<1>4. /\ SubSeq(s, m, n) \in Seq(S)
      /\ Len(SubSeq(s, m, n)) = IF m <= n THEN n - m + 1 ELSE 0
      /\ \A i \in 1..(n - m + 1) : SubSeq(s, m, n)[i] = s[m + i - 1]
  BY <1>1, <1>2, SubSeqProperties
<1>5. Len(Newest(s)) = n - m + 1
  BY <1>0, <1>1, <1>3, <1>4
<1> QED
  BY <1>0, <1>1, <1>3, <1>4, <1>5 DEF m, n

\* What is pruned twice is pruned once.
LEMMA NewestTwice ==
    ASSUME NEW S, NEW s \in Seq(S)
    PROVE  Newest(Newest(s)) = Newest(s)
<1> DEFINE u == Newest(s)
<1>0. HistoryLimit \in Nat \ {0} /\ Len(s) \in Nat
  BY QueryAssumption, LenProperties
<1>1. u \in Seq(S) /\ Len(u) \in Nat /\ Len(u) <= HistoryLimit
  BY <1>0, NewestProperties
<1> HIDE DEF u
<1>2. Newest(u) = SubSeq(u, 1, Len(u))
  <2>1. ~(Len(u) > HistoryLimit)
    BY <1>0, <1>1
  <2> QED
    BY <2>1 DEF Newest
<1>3. Newest(u) = u
  BY <1>1, <1>2, SubSeqFull
<1> QED
  BY <1>3 DEF u

\* What is put behind the newest is put behind all.
LEMMA NewestAppend ==
    ASSUME NEW S, NEW s \in Seq(S), NEW x \in S
    PROVE  Newest(Append(Newest(s), x)) = Newest(Append(s, x))
<1> DEFINE n == Len(s)
           u == Newest(s)
           a == Append(s, x)
           b == Append(u, x)
<1>0. HistoryLimit \in Nat \ {0} /\ n \in Nat
  BY QueryAssumption, LenProperties
<1>1. /\ u \in Seq(S)
      /\ Len(u) = IF n > HistoryLimit THEN HistoryLimit ELSE n
      /\ \A i \in 1..Len(u) : u[i] = s[First(n) + i - 1]
  BY NewestProperties
<1>2. /\ a \in Seq(S) /\ Len(a) = n + 1 /\ \A i \in 1..n : a[i] = s[i]
      /\ a[n + 1] = x
  BY AppendProperties
<1> HIDE DEF u
<1>3. /\ b \in Seq(S) /\ Len(b) = Len(u) + 1 /\ \A i \in 1..Len(u) : b[i] = u[i]
      /\ b[Len(u) + 1] = x
  BY <1>1, AppendProperties
<1> HIDE DEF a, b, n
<1>4. /\ Newest(a) \in Seq(S)
      /\ Len(Newest(a)) = IF n + 1 > HistoryLimit THEN HistoryLimit ELSE n + 1
      /\ \A i \in 1..Len(Newest(a)) : Newest(a)[i] = a[First(n + 1) + i - 1]
  BY <1>2, NewestProperties
<1>5. /\ Newest(b) \in Seq(S)
      /\ Len(Newest(b)) = IF Len(u) + 1 > HistoryLimit THEN HistoryLimit ELSE Len(u) + 1
      /\ \A i \in 1..Len(Newest(b)) : Newest(b)[i] = b[First(Len(u) + 1) + i - 1]
  BY <1>3, NewestProperties
<1>6. Len(Newest(a)) = Len(Newest(b))
  BY <1>0, <1>1, <1>4, <1>5
<1>7. ASSUME NEW i \in 1..Len(Newest(b))
      PROVE  Newest(b)[i] = Newest(a)[i]
  <2>1. Newest(b)[i] = b[First(Len(u) + 1) + i - 1] /\ Newest(a)[i] = a[First(n + 1) + i - 1]
    BY <1>4, <1>5, <1>6
  <2>2. CASE n <= HistoryLimit
    <3>1. Len(u) = n /\ First(n) = 1 /\ First(n + 1) + i - 1 \in 1..(n + 1)
      BY <1>0, <1>1, <1>5, <2>2 DEF First
    <3>2. CASE First(n + 1) + i - 1 = n + 1
      BY <1>2, <1>3, <2>1, <3>1, <3>2
    <3>3. CASE First(n + 1) + i - 1 # n + 1
      <4> DEFINE j == First(n + 1) + i - 1
      <4>1. j \in 1..n
        BY <1>0, <3>1, <3>3
      <4>2. b[j] = u[j] /\ a[j] = s[j] /\ u[j] = s[j]
        <5>1. First(n) + j - 1 = j
          BY <1>0, <3>1, <4>1
        <5> QED
          BY <1>1, <1>2, <1>3, <3>1, <4>1, <5>1
      <4> QED
        BY <2>1, <3>1, <4>2
    <3> QED
      BY <3>2, <3>3
  <2>3. CASE n > HistoryLimit
    <3>1. /\ Len(u) = HistoryLimit /\ First(Len(u) + 1) = 2 /\ i \in 1..HistoryLimit
          /\ First(n) = n - HistoryLimit + 1 /\ First(n + 1) = n - HistoryLimit + 2
      BY <1>0, <1>1, <1>5, <2>3 DEF First
    <3>2. CASE i = HistoryLimit
      <4>1. First(Len(u) + 1) + i - 1 = Len(u) + 1 /\ First(n + 1) + i - 1 = n + 1
        BY <1>0, <3>1, <3>2
      <4> QED
        BY <1>2, <1>3, <2>1, <4>1
    <3>3. CASE i # HistoryLimit
      <4>1. i + 1 \in 1..Len(u) /\ n - HistoryLimit + 1 + i \in 1..n
        BY <1>0, <2>3, <3>1, <3>3
      <4>2. Newest(b)[i] = b[i + 1] /\ Newest(a)[i] = a[n - HistoryLimit + 1 + i]
        <5>1. 2 + i - 1 = i + 1 /\ (n - HistoryLimit + 2) + i - 1 = n - HistoryLimit + 1 + i
          BY <1>0, <3>1
        <5> QED
          BY <2>1, <3>1, <5>1
      <4>3. u[i + 1] = s[n - HistoryLimit + 1 + i]
        <5>1. First(n) + (i + 1) - 1 = n - HistoryLimit + 1 + i
          BY <1>0, <3>1
        <5> QED
          BY <1>1, <4>1, <5>1
      <4> QED
        BY <1>2, <1>3, <4>1, <4>2, <4>3
    <3> QED
      BY <3>2, <3>3
  <2> QED
    BY <1>0, <2>2, <2>3
<1>8. Newest(b) = Newest(a)
  BY <1>4, <1>5, <1>6, <1>7, SeqEqual
<1> QED
  BY <1>8 DEF a, b, u

-----------------------------------------------------------------------------
(* Types. *)

LEMMA InitTypeOK == Init => TypeOK
<1> SUFFICES ASSUME Init PROVE TypeOK
  OBVIOUS
<1>1. NoView \in Views
  BY DEF NoView, Views
<1>2. <<>> \in Seq(RunId)
  OBVIOUS
<1> QED
  BY <1>1, <1>2 DEF Init, TypeOK

LEMMA NoViewType == NoView \in Views
BY DEF NoView, Views

\* What a handler asks for: statements to run or the query behind a result.
Asks(t, kind, todo, v) ==
    /\ kind \in {"run", "view"}
    /\ todo \in Seq(Statement)
    /\ todo # <<>>
    /\ v \in Views
    /\ kind = "run" => v = NoView
    /\ kind = "view" => todo = <<base[t]>> /\ base[t] # None
    /\ Begin(t, kind, todo, v)
    /\ kind = "run" => /\ result' = [result EXCEPT ![t] = None]
                       /\ base' = [base EXCEPT ![t] = None]
    /\ kind = "view" => UNCHANGED <<result, base>>

\* Every click that runs, filters or sorts asks so.
LEMMA ClicksAsk ==
    ASSUME TypeOK, NEW t \in Tab,
           \/ \E s \in Statement : RunQuery(t, s)
           \/ \E q \in Script : RunAllQueries(t, q)
           \/ ClearQueryFilter(t)
           \/ \E f \in Filter \cup {None} : ApplyQueryFilter(t, f)
           \/ \E s \in Sort \cup {None} : QuerySortChange(t, s)
    PROVE  \E kind \in {"run", "view"}, todo \in Seq(Statement), v \in Views : Asks(t, kind, todo, v)
<1>1. ASSUME NEW todo \in Seq(Statement), todo # <<>>, Run(t, todo)
      PROVE  Asks(t, "run", todo, NoView)
  BY <1>1, NoViewType DEF Run, Asks
<1>2. ASSUME NEW v \in Views, base[t] # None, AskView(t, v)
      PROVE  Asks(t, "view", <<base[t]>>, v) /\ <<base[t]>> \in Seq(Statement)
  <2>1. base[t] \in Statement
    BY <1>2, QueryAssumption DEF TypeOK
  <2>2. <<base[t]>> \in Seq(Statement) /\ <<base[t]>> # <<>>
    BY <2>1
  <2> QED
    BY <1>2, <2>2 DEF AskView, Asks
<1>3. ASSUME NEW s \in Statement, RunQuery(t, s)
      PROVE  Asks(t, "run", <<s>>, NoView) /\ <<s>> \in Seq(Statement)
  <2>1. <<s>> \in Seq(Statement) /\ <<s>> # <<>>
    OBVIOUS
  <2> QED
    BY <1>1, <1>3, <2>1 DEF RunQuery
<1>4. ASSUME NEW q \in Script, RunAllQueries(t, q)
      PROVE  Asks(t, "run", q, NoView) /\ q \in Seq(Statement)
  BY <1>1, <1>4, QueryAssumption DEF RunAllQueries
<1>5. view[t] \in Views /\ (view[t] # NoView => base[t] # None)
  BY DEF TypeOK
<1>6. CASE ClearQueryFilter(t)
  <2>1. [view[t] EXCEPT !.filter = None] \in Views
    BY <1>5 DEF Views
  <2>2. base[t] # None
    BY <1>5, <1>6 DEF ClearQueryFilter, NoView
  <2> QED
    BY <1>2, <1>6, <2>1, <2>2 DEF ClearQueryFilter
<1>7. ASSUME NEW f \in Filter \cup {None}, ApplyQueryFilter(t, f)
      PROVE  Asks(t, "view", <<base[t]>>, [view[t] EXCEPT !.filter = f])
             /\ <<base[t]>> \in Seq(Statement) /\ [view[t] EXCEPT !.filter = f] \in Views
  <2>1. [view[t] EXCEPT !.filter = f] \in Views
    BY <1>5 DEF Views
  <2> QED
    BY <1>2, <1>7, <2>1 DEF ApplyQueryFilter, ResultShown
<1>8. ASSUME NEW s \in Sort \cup {None}, QuerySortChange(t, s)
      PROVE  Asks(t, "view", <<base[t]>>, [view[t] EXCEPT !.sort = s])
             /\ <<base[t]>> \in Seq(Statement) /\ [view[t] EXCEPT !.sort = s] \in Views
  <2>1. [view[t] EXCEPT !.sort = s] \in Views
    BY <1>5 DEF Views
  <2> QED
    BY <1>2, <1>8, <2>1 DEF QuerySortChange, ResultShown
<1> QED
  BY <1>3, <1>4, <1>6, <1>7, <1>8, NoViewType

LEMMA AskTypes ==
    ASSUME TypeOK, NEW t \in Tab, NEW kind, NEW todo, NEW v, Asks(t, kind, todo, v)
    PROVE  TypeOK'
<1> DEFINE new == [tab |-> t, rev |-> rev[t] + 1, kind |-> kind, todo |-> todo, step |-> 1,
                   view |-> v]
<1> USE DEF tabs, records
<1>1. new \in Request /\ new.todo # <<>>
  <2>1. rev[t] + 1 \in Nat /\ 1 \in Nat
    BY DEF TypeOK
  <2> QED
    BY <2>1 DEF Asks, Request
<1>2. asked' = asked \cup {new} /\ rev' = [rev EXCEPT ![t] = @ + 1]
      /\ executing' = [executing EXCEPT ![t] = TRUE] /\ error' = [error EXCEPT ![t] = FALSE]
      /\ view' = [view EXCEPT ![t] = v] /\ v \in Views
      /\ UNCHANGED <<tab, active, recording, history, kept>>
  BY DEF Asks, Begin
<1> HIDE DEF new
<1>3. \A r \in asked' : r \in Request /\ r.todo # <<>>
  BY <1>1, <1>2 DEF TypeOK
<1>4. rev' \in [Tab -> Nat]
  BY <1>2 DEF TypeOK
<1>5. executing' \in [Tab -> BOOLEAN] /\ error' \in [Tab -> BOOLEAN]
  BY <1>2 DEF TypeOK
<1>6. view' \in [Tab -> Views] /\ \A u \in Tab : view'[u] = IF u = t THEN v ELSE view[u]
  BY <1>2 DEF TypeOK
<1>7. CASE kind = "run"
  <2>1. v = NoView /\ result' = [result EXCEPT ![t] = None] /\ base' = [base EXCEPT ![t] = None]
    BY <1>7 DEF Asks
  <2>2. result' \in [Tab -> Result \cup {None}]
    BY <2>1 DEF TypeOK
  <2>3. base' \in [Tab -> Wrappable \cup {None}] /\ \A u \in Tab : u # t => base'[u] = base[u]
    BY <2>1 DEF TypeOK
  <2>4. \A u \in Tab : view'[u] # NoView => base'[u] # None
    BY <1>6, <2>1, <2>3 DEF TypeOK
  <2> QED
    BY <1>2, <1>3, <1>4, <1>5, <1>6, <2>2, <2>3, <2>4 DEF TypeOK
<1>8. CASE kind = "view"
  <2>1. UNCHANGED <<result, base>> /\ base[t] # None
    BY <1>8 DEF Asks
  <2>2. \A u \in Tab : view'[u] # NoView => base'[u] # None
    BY <1>6, <2>1 DEF TypeOK
  <2> QED
    BY <1>2, <1>3, <1>4, <1>5, <1>6, <2>1, <2>2 DEF TypeOK
<1> QED
  BY <1>7, <1>8 DEF Asks

\* The statement that is put into the history.
LEMMA RecordTypes ==
    ASSUME TypeOK, NEW r \in asked, Record(r)
    PROVE  \A c \in recording' : c \in [id : RunId, stage : {"insert", "prune"}]
<1> DEFINE i == [tab |-> r.tab, rev |-> r.rev, step |-> r.step]
<1>1. i \in RunId
  BY DEF TypeOK, Request, RunId
<1>2. recording' = recording \cup {[id |-> i, stage |-> "insert"]}
  BY DEF Record
<1> HIDE DEF i
<1>3. [id |-> i, stage |-> "insert"] \in [id : RunId, stage : {"insert", "prune"}]
  BY <1>1
<1> QED
  BY <1>2, <1>3 DEF TypeOK

\* The next statement of a run.
Following(r) == [r EXCEPT !.todo = Tail(@), !.step = @ + 1]

LEMMA FollowingType ==
    ASSUME TypeOK, NEW r \in asked, Len(r.todo) > 1
    PROVE  /\ Following(r) \in Request /\ Following(r).todo # <<>>
           /\ Following(r).tab = r.tab /\ Following(r).rev = r.rev
           /\ Following(r).kind = r.kind /\ Following(r).view = r.view
<1>1. r \in Request /\ r.todo \in Seq(Statement) /\ r.todo # <<>> /\ r.step \in Nat
  BY DEF TypeOK, Request
<1>2. Tail(r.todo) \in Seq(Statement) /\ Len(Tail(r.todo)) = Len(r.todo) - 1
  BY <1>1, HeadTailProperties
<1>3. Tail(r.todo) # <<>>
  <2>0. Len(r.todo) \in Nat
    BY <1>1, LenProperties
  <2>1. Len(Tail(r.todo)) # 0
    <3>1. \A n \in Nat : n > 1 => n - 1 # 0
      OBVIOUS
    <3> QED
      BY <1>2, <2>0, <3>1, Zenon
  <2> QED
    BY <2>1, EmptySeq
<1>4. r.step + 1 \in Nat
  BY <1>1
<1> QED
  BY <1>1, <1>2, <1>3, <1>4 DEF Following, Request

\* What an answer does to what is shown: nothing, or the result of a request
\* that is current, or its error.
ShowsResult(r, o, b, v) ==
    /\ IsCurrent(r)
    /\ o \in Statement
    /\ result' = [result EXCEPT ![r.tab] = [of |-> o, view |-> v, rev |-> r.rev]]
    /\ base' = [base EXCEPT ![r.tab] = b]
    /\ view' = [view EXCEPT ![r.tab] = v]
    /\ executing' = [executing EXCEPT ![r.tab] = FALSE]
    /\ error' \in {error, [error EXCEPT ![r.tab] = FALSE]}
    /\ v \in Views
    /\ b \in Wrappable \cup {None}
    /\ b \in {None, o}
    /\ v # NoView => b # None

LEMMA AnswerShows ==
    ASSUME TypeOK, RequestInv, NEW r \in asked,
           StatementEnds(r) \/ StatementFails(r) \/ Viewed(r) \/ ViewFails(r)
    PROVE  /\ \/ UNCHANGED shown /\ (IsCurrent(r) => \E q \in asked' : q.tab = r.tab /\ q.rev = r.rev)
              \/ IsCurrent(r) /\ ShowError(r)
              \/ \E b \in Wrappable \cup {None}, v \in Views : ShowsResult(r, Head(r.todo), b, v)
           /\ \/ asked' = asked \ {r}
              \/ /\ IsCurrent(r)
                 /\ Len(r.todo) > 1
                 /\ r.kind = "run"
                 /\ asked' = (asked \ {r}) \cup {Following(r)}
                 /\ UNCHANGED shown
           /\ UNCHANGED <<tab, active, rev, history, kept>>
           /\ UNCHANGED recording \/ Record(r)
<1>0. Head(r.todo) \in Statement /\ r.tab \in Tab /\ r.view \in Views
      /\ r.todo \in Seq(Statement) /\ Len(r.todo) \in Nat \ {0}
  <2>1. r.todo \in Seq(Statement) /\ r.todo # <<>>
    BY DEF TypeOK, Request
  <2> QED
    BY <2>1, HeadTailProperties, EmptySeq DEF TypeOK, Request
<1>l. Len(r.todo) > 1 \/ Len(r.todo) = 1
  <2>1. Len(r.todo) \in Nat \ {0}
    BY <1>0
  <2>2. \A n \in Nat \ {0} : n > 1 \/ n = 1
    OBVIOUS
  <2> QED
    BY <2>1, <2>2, Zenon
<1> USE DEF tabs, records
<1>1. CASE StatementFails(r) \/ ViewFails(r)
  BY <1>1 DEF StatementFails, ViewFails, Done, ShowError
<1>2. CASE Viewed(r)
  <2>1. CASE IsCurrent(r)
    <3>1. base[r.tab] = Head(r.todo) /\ base' = [base EXCEPT ![r.tab] = Head(r.todo)]
      BY <1>0, <1>2, <2>1 DEF Viewed, RequestInv, TypeOK
    <3>2. base[r.tab] \in Wrappable \cup {None} /\ Head(r.todo) # None
      BY <1>0, QueryAssumption DEF TypeOK
    <3>3. ShowsResult(r, Head(r.todo), Head(r.todo), r.view)
      BY <1>0, <1>2, <2>1, <3>1, <3>2 DEF Viewed, ShowsResult
    <3> QED
      BY <1>0, <1>2, <3>1, <3>2, <3>3 DEF Viewed, Done
  <2>2. CASE ~IsCurrent(r)
    BY <1>2, <2>2 DEF Viewed, Done, shown
  <2> QED
    BY <2>1, <2>2
<1>3. CASE StatementEnds(r)
  <2>1. CASE Len(r.todo) > 1 /\ IsCurrent(r)
    <3>1. asked' = (asked \ {r}) \cup {Following(r)} /\ UNCHANGED shown
      BY <1>3, <2>1 DEF StatementEnds, Following
    <3>2. Following(r).tab = r.tab /\ Following(r).rev = r.rev
      BY <2>1, FollowingType
    <3> QED
      BY <1>3, <2>1, <3>1, <3>2 DEF StatementEnds
  <2>2. CASE ~(Len(r.todo) > 1 /\ IsCurrent(r)) /\ ~IsCurrent(r)
    BY <1>3, <2>2 DEF StatementEnds, Done, Results, shown
  <2>3. CASE ~(Len(r.todo) > 1) /\ IsCurrent(r)
    <3>1. Len(r.todo) = 1
      BY <1>l, <2>3
    <3>2. Results(r) /\ Done(r) /\ r.view = NoView
      BY <1>3, <2>3, <3>1 DEF StatementEnds, RequestInv
    <3> DEFINE s == Head(r.todo)
               b == IF s \in Wrappable THEN s ELSE None
    <3>3. ShowsResult(r, s, b, NoView) /\ b \in Wrappable \cup {None}
      BY <1>0, <2>3, <3>2, NoViewType DEF Results, ShowsResult
    <3> QED
      BY <1>3, <3>2, <3>3, NoViewType DEF StatementEnds, Done
  <2> QED
    BY <2>1, <2>2, <2>3
<1> QED
  BY <1>1, <1>2, <1>3

LEMMA AnswerTypes ==
    ASSUME TypeOK, RequestInv, NEW r \in asked,
           StatementEnds(r) \/ StatementFails(r) \/ Viewed(r) \/ ViewFails(r)
    PROVE  TypeOK'
<1>0. r \in Request /\ r.tab \in Tab /\ r.rev \in Nat
  BY DEF TypeOK, Request
<1>1. \A q \in asked' : q \in Request /\ q.todo # <<>>
  BY AnswerShows, FollowingType DEF TypeOK
<1>2. \A c \in recording' : c \in [id : RunId, stage : {"insert", "prune"}]
  BY AnswerShows, RecordTypes DEF TypeOK
<1>3. /\ result' \in [Tab -> Result \cup {None}]
      /\ base' \in [Tab -> Wrappable \cup {None}]
      /\ view' \in [Tab -> Views]
      /\ executing' \in [Tab -> BOOLEAN] /\ error' \in [Tab -> BOOLEAN]
      /\ \A t \in Tab : view'[t] # NoView => base'[t] # None
  <2>1. CASE UNCHANGED shown
    BY <2>1 DEF shown, TypeOK
  <2>2. CASE ShowError(r) /\ IsCurrent(r)
    BY <1>0, <2>2 DEF ShowError, TypeOK
  <2>3. ASSUME NEW b \in Wrappable \cup {None}, NEW v \in Views,
               ShowsResult(r, Head(r.todo), b, v)
        PROVE  <1>3!1 /\ <1>3!2 /\ <1>3!3 /\ <1>3!4 /\ <1>3!5
    <3> DEFINE new == [of |-> Head(r.todo), view |-> v, rev |-> r.rev]
    <3>1. new \in Result
      BY <1>0, <2>3 DEF ShowsResult, Result
    <3>2. result' = [result EXCEPT ![r.tab] = new]
      BY <2>3 DEF ShowsResult
    <3> HIDE DEF new
    <3>3. result' \in [Tab -> Result \cup {None}]
      BY <1>0, <3>1, <3>2 DEF TypeOK
    <3>4. base' \in [Tab -> Wrappable \cup {None}] /\ \A t \in Tab : base'[t] = IF t = r.tab THEN b ELSE base[t]
      BY <1>0, <2>3 DEF ShowsResult, TypeOK
    <3>5. view' \in [Tab -> Views] /\ \A t \in Tab : view'[t] = IF t = r.tab THEN v ELSE view[t]
      BY <1>0, <2>3 DEF ShowsResult, TypeOK
    <3>6. executing' \in [Tab -> BOOLEAN] /\ error' \in [Tab -> BOOLEAN]
      BY <1>0, <2>3 DEF ShowsResult, TypeOK
    <3>7. \A t \in Tab : view'[t] # NoView => base'[t] # None
      BY <2>3, <3>4, <3>5 DEF ShowsResult, TypeOK
    <3> QED
      BY <3>3, <3>4, <3>5, <3>6, <3>7
  <2> QED
    BY <2>1, <2>2, <2>3, AnswerShows
<1>4. UNCHANGED <<tab, active, rev, history, kept>>
  BY AnswerShows
<1> QED
  BY <1>1, <1>2, <1>3, <1>4 DEF TypeOK

\* One of the two statements that put a run into the history.
LEMMA StoreTypes ==
    ASSUME TypeOK, NEW c \in recording, Insert(c) \/ Prune(c) \/ RecordFails(c)
    PROVE  /\ \A d \in recording' : d \in [id : RunId, stage : {"insert", "prune"}]
           /\ history' \in Seq(RunId)
           /\ kept' \in Seq(RunId)
           /\ UNCHANGED <<tabs, shown, rev, asked>>
<1>0. c \in [id : RunId, stage : {"insert", "prune"}] /\ history \in Seq(RunId) /\ kept \in Seq(RunId)
  BY DEF TypeOK
<1>1. CASE Insert(c)
  <2> DEFINE d == [c EXCEPT !.stage = "prune"]
  <2>1. d \in [id : RunId, stage : {"insert", "prune"}]
    BY <1>0
  <2>2. recording' = (recording \ {c}) \cup {d}
    BY <1>1 DEF Insert
  <2> HIDE DEF d
  <2>3. Append(history, c.id) \in Seq(RunId) /\ Append(kept, c.id) \in Seq(RunId)
    BY <1>0, AppendProperties
  <2>4. Newest(Append(kept, c.id)) \in Seq(RunId)
    BY <2>3, NewestProperties
  <2> QED
    BY <1>1, <2>1, <2>2, <2>3, <2>4 DEF Insert, TypeOK
<1>2. CASE Prune(c)
  <2>1. Newest(history) \in Seq(RunId)
    BY <1>0, NewestProperties
  <2> QED
    BY <1>2, <2>1 DEF Prune, TypeOK
<1>3. CASE RecordFails(c)
  BY <1>3 DEF RecordFails, TypeOK
<1> QED
  BY <1>1, <1>2, <1>3

\* The steps of Next, the clicks that ask for something taken together.
LEMMA StepsOfNext ==
    ASSUME TypeOK, RequestInv, [Next]_vars
    PROVE  \/ \E t \in Tab : OpenTab(t) \/ CloseTab(t)
           \/ \E t \in Tab, kind \in {"run", "view"}, todo \in Seq(Statement), v \in Views :
                 Asks(t, kind, todo, v)
           \/ \E t \in Tab \cup {None} : Select(t)
           \/ ClearHistory
           \/ \E r \in asked : StatementEnds(r) \/ StatementFails(r) \/ Viewed(r) \/ ViewFails(r)
           \/ \E c \in recording : Insert(c) \/ Prune(c) \/ RecordFails(c)
           \/ UNCHANGED vars
<1>1. CASE User
  BY <1>1, ClicksAsk DEF User
<1> QED
  BY <1>1 DEF Next, Answer, Store

LEMMA CloseTypes ==
    ASSUME TypeOK, NEW t \in Tab, CloseTab(t)
    PROVE  /\ tab' \in [Tab -> {"unused", "open", "closed"}]
           /\ active' \in Tab \cup {None}
           /\ active' # None => tab'[active'] = "open"
           /\ rev' \in [Tab -> Nat]
<1>1. tab' \in [Tab -> {"unused", "open", "closed"}]
      /\ \A u \in Tab : tab'[u] = IF u = t THEN "closed" ELSE tab[u]
  BY DEF CloseTab, TypeOK
<1>2. rev' \in [Tab -> Nat]
  BY DEF CloseTab, TypeOK
<1>3. CASE active = t
  <2>1. active' = None \/ active' \in Open \ {t}
    BY <1>3 DEF CloseTab
  <2> QED
    BY <1>1, <1>2, <2>1 DEF Open
<1>4. CASE active # t
  BY <1>1, <1>2, <1>4 DEF CloseTab, TypeOK
<1> QED
  BY <1>3, <1>4

LEMMA NextTypeOK ==
    ASSUME TypeOK, RequestInv, [Next]_vars
    PROVE  TypeOK'
<1> USE DEF tabs, records, shown
<1>1. ASSUME NEW t \in Tab, OpenTab(t)
      PROVE  TypeOK'
  BY <1>1 DEF OpenTab, TypeOK
<1>2. ASSUME NEW t \in Tab, CloseTab(t)
      PROVE  TypeOK'
  BY <1>2, CloseTypes DEF CloseTab, TypeOK
<1>3. ASSUME NEW t \in Tab, NEW kind \in {"run", "view"}, NEW todo \in Seq(Statement),
             NEW v \in Views, Asks(t, kind, todo, v)
      PROVE  TypeOK'
  BY <1>3, AskTypes
<1>4. ASSUME NEW t \in Tab \cup {None}, Select(t)
      PROVE  TypeOK'
  BY <1>4, QueryAssumption DEF Select, Open, TypeOK
<1>5. CASE ClearHistory
  <2>1. <<>> \in Seq(RunId)
    OBVIOUS
  <2> QED
    BY <1>5, <2>1 DEF ClearHistory, TypeOK
<1>6. ASSUME NEW r \in asked, StatementEnds(r) \/ StatementFails(r) \/ Viewed(r) \/ ViewFails(r)
      PROVE  TypeOK'
  BY <1>6, AnswerTypes
<1>7. ASSUME NEW c \in recording, Insert(c) \/ Prune(c) \/ RecordFails(c)
      PROVE  TypeOK'
  BY <1>7, StoreTypes DEF TypeOK
<1>8. CASE UNCHANGED vars
  BY <1>8 DEF vars, TypeOK
<1> QED
  BY <1>1, <1>2, <1>3, <1>4, <1>5, <1>6, <1>7, <1>8, StepsOfNext

-----------------------------------------------------------------------------
(* The requests of a tab and what it shows. *)

LEMMA AskKeepsTabInv ==
    ASSUME TypeOK, TabInv, NEW t \in Tab, NEW kind, NEW todo, NEW v, Asks(t, kind, todo, v)
    PROVE  TabInv'
<1> DEFINE new == [tab |-> t, rev |-> rev[t] + 1, kind |-> kind, todo |-> todo, step |-> 1,
                   view |-> v]
<1> USE DEF IsCurrent
<1>0. \A r \in asked : r.tab \in Tab /\ r.rev \in Nat /\ r.rev <= rev[r.tab] /\ rev[r.tab] \in Nat
  BY DEF TypeOK, TabInv, RequestInv, Request
<1>1. /\ new.tab = t /\ new.rev = rev[t] + 1 /\ new.kind = kind /\ new.todo = todo /\ new.view = v
      /\ asked' = asked \cup {new}
      /\ tab[t] = "open" /\ tab' = tab /\ rev[t] \in Nat
  <2>1. active = t /\ t # None /\ tab' = tab
    BY QueryAssumption DEF Asks, Begin, tabs
  <2>2. tab[t] = "open" /\ rev[t] \in Nat
    BY <2>1 DEF TypeOK
  <2>3. asked' = asked \cup {new}
    BY DEF Asks, Begin
  <2> QED
    BY <2>1, <2>2, <2>3
<1>2. \A u \in Tab : /\ rev'[u] = IF u = t THEN rev[t] + 1 ELSE rev[u]
                     /\ executing'[u] = IF u = t THEN TRUE ELSE executing[u]
                     /\ error'[u] = IF u = t THEN FALSE ELSE error[u]
                     /\ view'[u] = IF u = t THEN v ELSE view[u]
  BY DEF Asks, Begin, TypeOK
<1>r. \A u \in Tab : rev[u] \in Nat /\ rev'[u] = IF u = t THEN rev[u] + 1 ELSE rev[u]
  BY DEF Asks, Begin, TypeOK
<1>3. \A u \in Tab \ {t} : base'[u] = base[u] /\ result'[u] = result[u]
  BY DEF Asks, TypeOK
<1>4. kind = "run" => v = NoView
  BY DEF Asks
<1>5. kind = "view" => base'[t] = Head(todo)
  BY DEF Asks
<1> HIDE DEF new
<1>6. RequestInv'
  <2>1. \A r \in asked' : r.rev \in 1..rev'[r.tab]
    <3>1. rev[t] + 1 \in 1..(rev[t] + 1)
      BY <1>1
    <3>2. ASSUME NEW r \in asked
          PROVE  r.rev \in 1..rev'[r.tab]
      <4>1. r.rev \in 1..rev[r.tab] /\ r.tab \in Tab
        BY <1>0 DEF TabInv, RequestInv
      <4>2. rev'[r.tab] \in Nat /\ rev'[r.tab] >= rev[r.tab] /\ rev[r.tab] \in Nat
        BY <1>r, <4>1
      <4> QED
        BY <4>1, <4>2
    <3>3. new.rev \in 1..rev'[new.tab]
      BY <1>1, <1>2, <3>1
    <3> QED
      BY <1>1, <3>2, <3>3
  <2>2. \A r, s \in asked' : r.tab = s.tab /\ r.rev = s.rev => r = s
    <3>1. \A r \in asked : r.tab = t => r.rev # rev[t] + 1
      BY <1>0
    <3> QED
      BY <1>1, <3>1 DEF TabInv, RequestInv
  <2>3. \A r \in asked' : r.kind = "run" => r.view = NoView
    BY <1>1, <1>4 DEF TabInv, RequestInv
  <2>4. \A r \in asked' : r.kind = "view" /\ r.rev = rev'[r.tab] => base'[r.tab] = Head(r.todo)
    <3>1. ASSUME NEW r \in asked, r.rev = rev'[r.tab]
          PROVE  r.tab # t /\ r.rev = rev[r.tab]
      <4>1. r.tab # t
        BY <1>0, <1>r, <3>1
      <4> QED
        BY <1>0, <1>r, <3>1, <4>1
    <3>2. \A r \in asked : r.kind = "view" /\ r.rev = rev'[r.tab] => base'[r.tab] = Head(r.todo)
      BY <1>0, <1>3, <3>1 DEF TabInv, RequestInv
    <3> QED
      BY <1>1, <1>5, <3>2
  <2> QED
    BY <2>1, <2>2, <2>3, <2>4 DEF RequestInv
<1>7. UnusedInv'
  BY <1>1, <1>2, <1>3 DEF TabInv, UnusedInv
<1>8. ExecutingIsUnderWay'
  <2> SUFFICES ASSUME NEW u \in Tab, tab[u] = "open", executing'[u]
               PROVE  \E r \in asked' : r.tab = u /\ r.rev = rev'[u]
    BY <1>1 DEF ExecutingIsUnderWay, Open
  <2>1. CASE u = t
    BY <1>1, <1>2, <2>1
  <2>2. CASE u # t
    <3>0. executing[u] /\ rev'[u] = rev[u]
      BY <1>2, <2>2
    <3>1. \E r \in asked : r.tab = u /\ r.rev = rev[u]
      BY <3>0 DEF TabInv, ExecutingIsUnderWay, Open
    <3> QED
      BY <1>1, <3>0, <3>1
  <2> QED
    BY <2>1, <2>2
<1>9. ResultIsWhatWasAsked'
  <2> SUFFICES ASSUME NEW u \in Tab, tab[u] = "open", ~executing'[u], ~error'[u], result'[u] # None
               PROVE  /\ result'[u].rev = rev'[u]
                      /\ result'[u].view = view'[u]
                      /\ base'[u] \in {None, result'[u].of}
    BY <1>1 DEF ResultIsWhatWasAsked, Open
  <2>1. u # t
    BY <1>2
  <2> QED
    BY <1>2, <1>3, <2>1 DEF TabInv, ResultIsWhatWasAsked, Open
<1> QED
  BY <1>6, <1>7, <1>8, <1>9 DEF TabInv

\* An answer takes its request away, or puts the next statement of the same
\* run in its place.
LEMMA AnswerKeepsRequests ==
    ASSUME TypeOK, TabInv, NEW r \in asked,
           StatementEnds(r) \/ StatementFails(r) \/ Viewed(r) \/ ViewFails(r)
    PROVE  /\ \A q \in asked' : \E p \in asked : /\ p.tab = q.tab /\ p.rev = q.rev
                                                 /\ p.kind = q.kind /\ p.view = q.view
                                                 /\ p = q \/ (p = r /\ q.kind = "run" /\ IsCurrent(p))
           /\ \A p, q \in asked' : p.tab = q.tab /\ p.rev = q.rev => p = q
<1>0. RequestInv
  BY DEF TabInv
<1>1. CASE asked' = asked \ {r}
  BY <1>0, <1>1 DEF RequestInv
<1>2. CASE /\ IsCurrent(r)
           /\ Len(r.todo) > 1
           /\ r.kind = "run"
           /\ asked' = (asked \ {r}) \cup {Following(r)}
  <2>1. /\ Following(r).tab = r.tab /\ Following(r).rev = r.rev
        /\ Following(r).kind = r.kind /\ Following(r).view = r.view
    BY <1>2, FollowingType
  <2> QED
    BY <1>0, <1>2, <2>1 DEF RequestInv
<1> QED
  BY <1>0, <1>1, <1>2, AnswerShows

LEMMA AnswerKeepsTabInv ==
    ASSUME TypeOK, TabInv, NEW r \in asked,
           StatementEnds(r) \/ StatementFails(r) \/ Viewed(r) \/ ViewFails(r)
    PROVE  TabInv'
<1> USE DEF IsCurrent
<1>0. RequestInv /\ r.tab \in Tab /\ \A q \in asked : q.tab \in Tab
  BY DEF TabInv, TypeOK, Request
<1>1. tab' = tab /\ rev' = rev
  BY <1>0, AnswerShows
<1>2. \/ UNCHANGED shown /\ (IsCurrent(r) => \E q \in asked' : q.tab = r.tab /\ q.rev = r.rev)
      \/ IsCurrent(r) /\ ShowError(r)
      \/ \E b \in Wrappable \cup {None}, v \in Views : ShowsResult(r, Head(r.todo), b, v)
  BY <1>0, AnswerShows
<1>3. \A q \in asked \ {r} : q \in asked'
  BY <1>0, AnswerShows
\* What the tab of r shows is r's from now on; what other tabs show stays.
<1>4. \A t \in Tab \ {r.tab} : /\ executing'[t] = executing[t] /\ error'[t] = error[t]
                               /\ result'[t] = result[t] /\ base'[t] = base[t]
                               /\ view'[t] = view[t]
  <2>1. CASE UNCHANGED shown
    BY <2>1 DEF shown
  <2>2. CASE IsCurrent(r) /\ ShowError(r)
    BY <2>2 DEF ShowError, TypeOK
  <2>3. ASSUME NEW b \in Wrappable \cup {None}, NEW v \in Views,
               ShowsResult(r, Head(r.todo), b, v), NEW t \in Tab \ {r.tab}
        PROVE  /\ executing'[t] = executing[t] /\ error'[t] = error[t]
               /\ result'[t] = result[t] /\ base'[t] = base[t]
               /\ view'[t] = view[t]
    <3>1. error'[t] = error[t]
      BY <2>3 DEF ShowsResult, TypeOK
    <3>2. executing'[t] = executing[t] /\ view'[t] = view[t]
      BY <2>3 DEF ShowsResult, TypeOK
    <3>3. result'[t] = result[t] /\ base'[t] = base[t]
      BY <2>3 DEF ShowsResult, TypeOK
    <3> QED
      BY <3>1, <3>2, <3>3
  <2> QED
    BY <1>2, <2>1, <2>2, <2>3
<1>5. \/ UNCHANGED shown /\ (IsCurrent(r) => \E q \in asked' : q.tab = r.tab /\ q.rev = r.rev)
      \/ /\ IsCurrent(r)
         /\ ~executing'[r.tab]
         /\ \/ error'[r.tab] /\ base' = base
            \/ /\ result'[r.tab].rev = r.rev
               /\ result'[r.tab].view = view'[r.tab]
               /\ base'[r.tab] \in {None, result'[r.tab].of}
  <2>1. CASE IsCurrent(r) /\ ShowError(r)
    BY <1>0, <2>1 DEF ShowError, TypeOK
  <2>2. ASSUME NEW b \in Wrappable \cup {None}, NEW v \in Views,
               ShowsResult(r, Head(r.todo), b, v)
        PROVE  /\ IsCurrent(r)
               /\ ~executing'[r.tab]
               /\ result'[r.tab].rev = r.rev
               /\ result'[r.tab].view = view'[r.tab]
               /\ base'[r.tab] \in {None, result'[r.tab].of}
    <3>1. result'[r.tab] = [of |-> Head(r.todo), view |-> v, rev |-> r.rev]
      BY <1>0, <2>2 DEF ShowsResult, TypeOK
    <3>2. base'[r.tab] = b /\ view'[r.tab] = v /\ ~executing'[r.tab]
      BY <1>0, <2>2 DEF ShowsResult, TypeOK
    <3>3. b \in {None, Head(r.todo)} /\ IsCurrent(r)
      BY <2>2 DEF ShowsResult
    <3> QED
      BY <3>1, <3>2, <3>3
  <2> QED
    BY <1>2, <2>1, <2>2
<1>6. RequestInv'
  <2>1. \A q \in asked' : q.rev \in 1..rev'[q.tab] /\ (q.kind = "run" => q.view = NoView)
    BY <1>0, <1>1, AnswerKeepsRequests DEF RequestInv
  <2>2. ASSUME NEW q \in asked', q.kind = "view", q.rev = rev'[q.tab]
        PROVE  base'[q.tab] = Head(q.todo)
    <3>1. q \in asked /\ base[q.tab] = Head(q.todo) /\ q.tab \in Tab
      BY <1>0, <1>1, <2>2, AnswerKeepsRequests DEF RequestInv
    <3>2. CASE q.tab # r.tab
      BY <1>4, <3>1, <3>2
    <3>3. CASE q.tab = r.tab /\ q.rev # r.rev
      <4>1. UNCHANGED shown
        BY <1>1, <1>5, <2>2, <3>3
      <4> QED
        BY <3>1, <4>1 DEF shown
    <3>4. CASE q.tab = r.tab /\ q.rev = r.rev
      <4>1. q = r
        BY <1>0, <3>1, <3>4 DEF RequestInv
      <4>2. UNCHANGED shown
        BY <1>0, <2>2, <4>1, AnswerShows
      <4> QED
        BY <3>1, <4>2 DEF shown
    <3> QED
      BY <3>2, <3>3, <3>4
  <2> QED
    BY <2>1, <2>2, AnswerKeepsRequests DEF RequestInv
<1>7. UnusedInv'
  <2>1. tab[r.tab] # "unused"
    BY DEF TabInv, UnusedInv
  <2>2. \A q \in asked' : tab[q.tab] # "unused"
    BY AnswerKeepsRequests DEF TabInv, UnusedInv
  <2> QED
    BY <1>1, <1>4, <2>1, <2>2 DEF TabInv, UnusedInv
<1>8. ExecutingIsUnderWay'
  <2> SUFFICES ASSUME NEW u \in Tab, tab[u] = "open", executing'[u]
               PROVE  \E q \in asked' : q.tab = u /\ q.rev = rev[u]
    BY <1>1 DEF ExecutingIsUnderWay, Open
  <2>1. executing[u]
    BY <1>4, <1>5 DEF shown
  <2>2. PICK q \in asked : q.tab = u /\ q.rev = rev[u]
    BY <2>1 DEF TabInv, ExecutingIsUnderWay, Open
  <2>3. CASE q # r
    BY <1>3, <2>2, <2>3
  <2>4. CASE q = r
    BY <1>5, <2>2, <2>4
  <2> QED
    BY <2>3, <2>4
<1>9. ResultIsWhatWasAsked'
  <2> SUFFICES ASSUME NEW u \in Tab, tab[u] = "open", ~executing'[u], ~error'[u], result'[u] # None
               PROVE  /\ result'[u].rev = rev[u]
                      /\ result'[u].view = view'[u]
                      /\ base'[u] \in {None, result'[u].of}
    BY <1>1 DEF ResultIsWhatWasAsked, Open
  <2>1. CASE u # r.tab \/ UNCHANGED shown
    BY <1>4, <2>1 DEF TabInv, ResultIsWhatWasAsked, Open, shown
  <2>2. CASE u = r.tab /\ ~UNCHANGED shown
    BY <1>5, <2>2
  <2> QED
    BY <2>1, <2>2
<1> QED
  BY <1>6, <1>7, <1>8, <1>9 DEF TabInv

LEMMA CloseKeepsTabInv ==
    ASSUME TypeOK, TabInv, NEW t \in Tab, CloseTab(t)
    PROVE  TabInv'
<1> USE DEF IsCurrent
<1>0. \A r \in asked : r.tab \in Tab /\ r.rev \in Nat /\ r.rev <= rev[r.tab] /\ rev[r.tab] \in Nat
  BY DEF TypeOK, TabInv, RequestInv, Request
<1>1. asked' = asked /\ UNCHANGED shown
  BY DEF CloseTab
<1>2. \A u \in Tab : /\ rev'[u] = IF u = t THEN rev[t] + 1 ELSE rev[u]
                     /\ tab'[u] = IF u = t THEN "closed" ELSE tab[u]
  BY DEF CloseTab, TypeOK
<1>3. RequestInv'
  <2>1. \A r \in asked : r.rev = rev'[r.tab] => r.rev = rev[r.tab]
    BY <1>0, <1>2
  <2>2. \A r \in asked : r.rev \in 1..rev'[r.tab]
    BY <1>0, <1>2 DEF TabInv, RequestInv
  <2> QED
    BY <1>1, <2>1, <2>2 DEF TabInv, RequestInv, shown
<1>4. UnusedInv'
  BY <1>0, <1>1, <1>2 DEF TabInv, UnusedInv, shown
<1>5. ExecutingIsUnderWay'
  BY <1>1, <1>2 DEF TabInv, ExecutingIsUnderWay, Open, shown
<1>6. ResultIsWhatWasAsked'
  BY <1>1, <1>2 DEF TabInv, ResultIsWhatWasAsked, Open, shown
<1> QED
  BY <1>3, <1>4, <1>5, <1>6 DEF TabInv

LEMMA NextTabInv ==
    ASSUME TypeOK, TabInv, [Next]_vars
    PROVE  TabInv'
<1> USE DEF tabs, records
<1>1. ASSUME NEW t \in Tab, OpenTab(t)
      PROVE  TabInv'
  <2>1. asked' = asked /\ rev' = rev /\ UNCHANGED shown /\ tab[t] = "unused"
        /\ \A u \in Tab : tab'[u] = IF u = t THEN "open" ELSE tab[u]
    BY <1>1 DEF OpenTab, TypeOK
  <2>2. ~executing[t] /\ result[t] = None
    BY <2>1 DEF TabInv, UnusedInv
  <2>3. \A r \in asked : r.tab \in Tab
    BY DEF TypeOK, Request
  <2>4. RequestInv'
    BY <2>1 DEF TabInv, RequestInv, IsCurrent, shown
  <2>5. UnusedInv'
    BY <2>1, <2>3 DEF TabInv, UnusedInv, shown
  <2>6. ExecutingIsUnderWay'
    BY <2>1, <2>2 DEF TabInv, ExecutingIsUnderWay, Open, shown, IsCurrent
  <2>7. ResultIsWhatWasAsked'
    BY <2>1, <2>2 DEF TabInv, ResultIsWhatWasAsked, Open, shown
  <2> QED
    BY <2>4, <2>5, <2>6, <2>7 DEF TabInv
<1>2. ASSUME NEW t \in Tab, CloseTab(t)
      PROVE  TabInv'
  BY <1>2, CloseKeepsTabInv
<1>3. ASSUME NEW t \in Tab, NEW kind \in {"run", "view"}, NEW todo \in Seq(Statement),
             NEW v \in Views, Asks(t, kind, todo, v)
      PROVE  TabInv'
  BY <1>3, AskKeepsTabInv
<1>4. ASSUME NEW r \in asked, StatementEnds(r) \/ StatementFails(r) \/ Viewed(r) \/ ViewFails(r)
      PROVE  TabInv'
  BY <1>4, AnswerKeepsTabInv
<1>5. ASSUME UNCHANGED <<tab, shown, rev, asked>>
      PROVE  TabInv'
  BY <1>5 DEF TabInv, RequestInv, UnusedInv, ExecutingIsUnderWay, ResultIsWhatWasAsked, IsCurrent,
              Open, shown
<1>6. ASSUME NEW t \in Tab \cup {None}, Select(t)
      PROVE  TabInv'
  BY <1>5, <1>6 DEF Select
<1>7. CASE ClearHistory \/ UNCHANGED vars
  BY <1>5, <1>7 DEF ClearHistory, vars
<1>8. ASSUME NEW c \in recording, Insert(c) \/ Prune(c) \/ RecordFails(c)
      PROVE  TabInv'
  BY <1>5, <1>8, StoreTypes
<1>9. RequestInv
  BY DEF TabInv
<1> QED
  BY <1>1, <1>2, <1>3, <1>4, <1>6, <1>7, <1>8, <1>9, StepsOfNext

-----------------------------------------------------------------------------
(* The theorems. *)

LEMMA TabInvariant == Spec => [](TypeOK /\ TabInv)
<1>1. Init => TypeOK /\ TabInv
  <2> SUFFICES ASSUME Init PROVE TabInv
    BY InitTypeOK
  <2>1. RequestInv /\ UnusedInv
    BY DEF Init, RequestInv, UnusedInv
  <2>2. ExecutingIsUnderWay /\ ResultIsWhatWasAsked
    BY DEF Init, ExecutingIsUnderWay, ResultIsWhatWasAsked, Open
  <2> QED
    BY <2>1, <2>2 DEF TabInv
<1>2. TypeOK /\ TabInv /\ [Next]_vars => (TypeOK /\ TabInv)'
  BY NextTypeOK, NextTabInv DEF TabInv
<1> QED
  BY <1>1, <1>2, PTL DEF Spec

\* Every variable keeps its type: a tab with a filter has the query that the
\* filter is wrapped around (queryTableState.ts), and a request always has a
\* statement at the server.
THEOREM TypeCorrect == Spec => []TypeOK
<1> QED
  BY TabInvariant, PTL

\* In whatever order answers come, an open tab shows rows of its latest request,
\* of the query that its filter is about and under that filter (the revisions
\* of latestRequestRegistry.ts as useQueryWorkspaceController.ts uses them).
THEOREM ResultIsRight == Spec => []ResultIsWhatWasAsked
<1>1. TabInv => ResultIsWhatWasAsked
  BY DEF TabInv
<1> QED
  BY <1>1, TabInvariant, PTL

\* A tab that is executing waits for a request that is its latest, so that its
\* answer, whatever it is, ends the waiting.
THEOREM ExecutingIsAnswered == Spec => []ExecutingIsUnderWay
<1>1. TabInv => ExecutingIsUnderWay
  BY DEF TabInv
<1> QED
  BY <1>1, TabInvariant, PTL

\* A run of all statements sends no further one once its tab was closed or
\* asked for something else (the check before each of them).
THEOREM SupersededRunIsLeft == Spec => SupersededRunStops
<1> DEFINE Sent(r) == \E o \in asked : o.tab = r.tab /\ o.rev = r.rev /\ o.step = r.step
           Step == \A r \in asked' : r.rev # rev'[r.tab] => Sent(r)
<1>1. ASSUME TypeOK, TabInv, [Next]_vars
      PROVE  Step
  <2>0. RequestInv
    BY <1>1 DEF TabInv
  <2>1. ASSUME UNCHANGED asked
        PROVE  Step
    BY <2>1
  <2>2. ASSUME NEW t \in Tab, OpenTab(t) \/ CloseTab(t)
        PROVE  UNCHANGED asked
    BY <2>2 DEF OpenTab, CloseTab
  <2>3. ASSUME NEW t \in Tab, NEW kind \in {"run", "view"}, NEW todo \in Seq(Statement),
               NEW v \in Views, Asks(t, kind, todo, v)
        PROVE  Step
    <3> DEFINE new == [tab |-> t, rev |-> rev[t] + 1, kind |-> kind, todo |-> todo, step |-> 1,
                       view |-> v]
    <3>1. asked' = asked \cup {new} /\ rev' = [rev EXCEPT ![t] = @ + 1]
      BY <2>3 DEF Asks, Begin
    <3>2. new.rev = rev'[new.tab]
      BY <1>1, <3>1 DEF TypeOK
    <3> HIDE DEF new
    <3> QED
      BY <3>1, <3>2
  <2>4. ASSUME NEW r \in asked,
               StatementEnds(r) \/ StatementFails(r) \/ Viewed(r) \/ ViewFails(r)
        PROVE  Step
    <3>1. CASE asked' = asked \ {r}
      BY <3>1
    <3>2. CASE /\ IsCurrent(r)
               /\ Len(r.todo) > 1
               /\ asked' = (asked \ {r}) \cup {Following(r)}
      <4>1. Following(r).rev = rev'[Following(r).tab]
        BY <1>1, <2>0, <2>4, <3>2, FollowingType, AnswerShows DEF IsCurrent
      <4> QED
        BY <3>2, <4>1
    <3> QED
      BY <1>1, <2>0, <2>4, <3>1, <3>2, AnswerShows
  <2>5. ASSUME \/ \E t \in Tab \cup {None} : Select(t)
               \/ ClearHistory
               \/ \E c \in recording : Insert(c) \/ Prune(c) \/ RecordFails(c)
               \/ UNCHANGED vars
        PROVE  UNCHANGED asked
    BY <2>5 DEF Select, ClearHistory, Insert, Prune, RecordFails, vars
  <2> HIDE DEF Step
  <2> QED
    BY <1>1, <2>0, <2>1, <2>2, <2>3, <2>4, <2>5, StepsOfNext
<1>2. TypeOK /\ TabInv /\ [Next]_vars
      => [\A r \in asked' : r.rev # rev'[r.tab] => \E o \in asked : o.tab = r.tab /\ o.rev = r.rev
                                                                  /\ o.step = r.step]_vars
  BY <1>1
<1> QED
  BY <1>2, TabInvariant, PTL DEF Spec, SupersededRunStops

LEMMA NextHistory ==
    ASSUME TypeOK, RequestInv, HistoryKeepsNewest, [Next]_vars
    PROVE  HistoryKeepsNewest'
<1> USE DEF HistoryKeepsNewest, records
<1>0. history \in Seq(RunId)
  BY DEF TypeOK
<1>1. ASSUME NEW c \in recording, Insert(c)
      PROVE  HistoryKeepsNewest'
  <2>1. c.id \in RunId
    BY DEF TypeOK
  <2>2. history' = Append(history, c.id) /\ kept' = Newest(Append(Newest(history), c.id))
    BY <1>1 DEF Insert
  <2>3. Newest(Append(Newest(history), c.id)) = Newest(Append(history, c.id))
    BY <1>0, <2>1, NewestAppend
  <2> QED
    BY <2>2, <2>3 DEF Newest
<1>2. ASSUME NEW c \in recording, Prune(c)
      PROVE  HistoryKeepsNewest'
  <2>1. history' = Newest(history) /\ kept' = kept
    BY <1>2 DEF Prune
  <2>2. Newest(Newest(history)) = Newest(history)
    BY <1>0, NewestTwice
  <2> QED
    BY <2>1, <2>2 DEF Newest
<1>3. CASE ClearHistory
  <2>1. history' = <<>> /\ kept' = <<>>
    BY <1>3 DEF ClearHistory
  <2>2. Newest(<<>>) = <<>>
    BY QueryAssumption DEF Newest
  <2> QED
    BY <2>1, <2>2 DEF Newest
<1>4. ASSUME UNCHANGED <<history, kept>>
      PROVE  HistoryKeepsNewest'
  BY <1>4 DEF Newest
<1>5. ASSUME \/ \E t \in Tab : OpenTab(t) \/ CloseTab(t)
             \/ \E t \in Tab \cup {None} : Select(t)
             \/ \E c \in recording : RecordFails(c)
             \/ UNCHANGED vars
      PROVE  UNCHANGED <<history, kept>>
  BY <1>5 DEF OpenTab, CloseTab, Select, RecordFails, vars
<1>6. ASSUME NEW t \in Tab, NEW kind \in {"run", "view"}, NEW todo \in Seq(Statement),
             NEW v \in Views, Asks(t, kind, todo, v)
      PROVE  UNCHANGED <<history, kept>>
  BY <1>6 DEF Asks, Begin
<1>7. ASSUME NEW r \in asked,
             StatementEnds(r) \/ StatementFails(r) \/ Viewed(r) \/ ViewFails(r)
      PROVE  UNCHANGED <<history, kept>>
  BY <1>7, AnswerShows
<1> QED
  BY <1>1, <1>2, <1>3, <1>4, <1>5, <1>6, <1>7, StepsOfNext

\* However the inserts, prunes and clears of the history interleave, and for
\* every limit, it shows the newest of what was recorded since it was cleared
\* (record_query_history, get_query_history and clear_query_history).
THEOREM HistoryIsRight == Spec => []HistoryKeepsNewest
<1>1. Init => HistoryKeepsNewest
  <2>1. Newest(<<>>) = <<>>
    BY QueryAssumption DEF Newest
  <2> QED
    BY <2>1 DEF Init, HistoryKeepsNewest
<1>2. TypeOK /\ TabInv /\ HistoryKeepsNewest /\ [Next]_vars => HistoryKeepsNewest'
  BY NextHistory DEF TabInv
<1> QED
  BY <1>1, <1>2, TabInvariant, PTL DEF Spec
=============================================================================
