------------------------ MODULE MongoWorkbenchProofs ------------------------
(***************************************************************************)
(* What MongoWorkbench promises for every set of collections and every     *)
(* number of requests, whatever the user does and whenever.  Revisions and *)
(* Completeness are about what was asked and read, LatestInv is about the  *)
(* collection the page is at.                                              *)
(***************************************************************************)
EXTENDS MongoWorkbench, TLAPS

\* Requests have revisions of their own, and the page is loading as long as
\* the latest is under way.
Revisions ==
    /\ \A q, r \in queries : q.rev = r.rev => q = r
    /\ LoadingIsUnderWay

\* An answer can be edited exactly if it has whole documents, and a write
\* carries over what its answer had.
Completeness ==
    /\ result # None => (result.mutable <=> result.spec = "whole")
    /\ ReplacesAreComplete

\* The latest query is about the collection that is chosen, or it is the one
\* that a write runs again.
LatestInv == \A q \in queries : q.rev = revision => q.ns = ns \/ Rerun(q)

-----------------------------------------------------------------------------
LEMMA ClosedType == Closed \in [selected : BOOLEAN, new : BOOLEAN] /\ ~Closed.selected /\ ~Closed.new
BY DEF Closed

LEMMA InitTypeOK == Init => TypeOK
<1> SUFFICES ASSUME Init PROVE TypeOK
  OBVIOUS
<1>1. inspector \in [selected : BOOLEAN, new : BOOLEAN] /\ ~(inspector.selected /\ inspector.new)
  BY ClosedType DEF Init
<1> QED
  BY <1>1 DEF Init, TypeOK, FindText

\* What Ask does to the queries, for whatever collection and query.
LEMMA AskTypes ==
    ASSUME TypeOK, NEW n \in Collection, NEW spec \in Query, Ask(n, spec)
    PROVE  /\ revision' \in Nat
           /\ loading' \in BOOLEAN
           /\ queries' \subseteq [rev : 1..revision', ns : Collection, spec : Runnable]
<1> DEFINE new == [rev |-> revision + 1, ns |-> n, spec |-> spec]
<1>1. revision \in Nat /\ revision' = revision + 1 /\ loading' \in BOOLEAN
  BY DEF Ask, TypeOK
<1>2. \A q \in queries : q \in [rev : 1..(revision + 1), ns : Collection, spec : Runnable]
  BY <1>1 DEF TypeOK
<1>3. CASE spec = "invalid"
  BY <1>1, <1>2, <1>3 DEF Ask
<1>4. CASE spec # "invalid"
  <2>1. spec \in Runnable
    BY <1>4 DEF Query, Runnable
  <2>2. new \in [rev : 1..(revision + 1), ns : Collection, spec : Runnable]
    BY <1>1, <2>1
  <2>3. queries' = queries \cup {new}
    BY <1>4 DEF Ask
  <2> QED
    BY <1>1, <1>2, <2>2, <2>3
<1> QED
  BY <1>3, <1>4

LEMMA SupersedeTypes ==
    ASSUME TypeOK, Supersede
    PROVE  /\ revision' \in Nat
           /\ loading' \in BOOLEAN
           /\ queries' \subseteq [rev : 1..revision', ns : Collection, spec : Runnable]
<1>1. revision \in Nat /\ revision' = revision + 1 /\ loading' \in BOOLEAN /\ queries' = queries
  BY DEF Supersede, TypeOK
<1>2. \A q \in queries : q \in [rev : 1..(revision + 1), ns : Collection, spec : Runnable]
  BY <1>1 DEF TypeOK
<1>3. queries' \subseteq [rev : 1..(revision + 1), ns : Collection, spec : Runnable]
  BY <1>1, <1>2
<1> QED
  BY <1>1, <1>3

LEMMA QueryOfType ==
    ASSUME NEW m \in {"find", "aggregate"}, NEW f \in FindText
    PROVE  QueryOf(m, f) \in Query
BY DEF QueryOf, Query, Runnable, FindText

LEMMA MoveToTypes ==
    ASSUME TypeOK, NEW n \in Collection, NEW m \in {"find", "aggregate"}, MoveTo(n, m)
    PROVE  /\ ns' \in Collection /\ mode' \in {"find", "aggregate"} /\ find' \in FindText
           /\ revision' \in Nat
           /\ loading' \in BOOLEAN
           /\ queries' \subseteq [rev : 1..revision', ns : Collection, spec : Runnable]
<1>1. find \in FindText
  BY DEF TypeOK
<1>2. QueryOf(m, find) \in Query
  BY <1>1, QueryOfType
<1>3. Ask(n, QueryOf(m, find))
  BY DEF MoveTo
<1> QED
  BY <1>1, <1>2, <1>3, AskTypes DEF MoveTo

\* The page chooses a collection of users or none.
LEMMA ChooseFirstTypes ==
    ASSUME TypeOK, NEW first \in Collection \cup {None}, ChooseFirst(first)
    PROVE  /\ ns' \in Collection \cup {None} /\ mode' \in {"find", "aggregate"}
           /\ find' \in FindText
           /\ revision' \in Nat
           /\ loading' \in BOOLEAN
           /\ queries' \subseteq [rev : 1..revision', ns : Collection, spec : Runnable]
           /\ initialized' \in BOOLEAN
<1>1. CASE first = None
  BY <1>1 DEF ChooseFirst, TypeOK, editor
<1>2. CASE first # None
  <2>1. mode \in {"find", "aggregate"} /\ first \in Collection /\ MoveTo(first, mode)
    BY <1>2 DEF ChooseFirst, TypeOK
  <2> QED
    BY <2>1, MoveToTypes DEF ChooseFirst, TypeOK
<1> QED
  BY <1>1, <1>2

LEMMA AnswerTypes ==
    ASSUME TypeOK, NEW q \in queries, Answered(q) \/ QueryFails(q)
    PROVE  TypeOK'
<1>1. q \in [rev : 1..revision, ns : Collection, spec : Runnable]
  BY DEF TypeOK
<1>2. queries' \subseteq [rev : 1..revision', ns : Collection, spec : Runnable]
  BY DEF Answered, QueryFails, TypeOK
<1>3. write' = None \/ write' \in NewWrite
  BY DEF Answered, QueryFails, TypeOK
<1>4. CASE QueryFails(q)
  BY <1>2, <1>3, <1>4 DEF QueryFails, TypeOK, editor, listings
<1>5. ASSUME NEW empty \in BOOLEAN, Show(q, q.spec = "whole", empty)
      PROVE  /\ result' \in Result
             /\ inspector' \in [selected : BOOLEAN, new : BOOLEAN]
             /\ ~(inspector'.selected /\ inspector'.new)
             /\ loading' \in BOOLEAN
  <2>1. (q.spec = "whole") \in BOOLEAN /\ q.ns \in Collection /\ q.spec \in Runnable
    BY <1>1
  <2>2. result' \in Result
    BY <1>5, <2>1 DEF Show, Result
  <2>3. inspector' = [selected |-> ~empty, new |-> FALSE]
    BY <1>5 DEF Show
  <2>4. inspector' \in [selected : BOOLEAN, new : BOOLEAN] /\ ~inspector'.new
    BY <2>3
  <2>5. loading' \in BOOLEAN
    BY <1>5 DEF Show
  <2> QED
    BY <2>2, <2>4, <2>5
<1>6. CASE Answered(q)
  <2>1. CASE q.rev = revision
    BY <1>2, <1>3, <1>5, <1>6, <2>1 DEF Answered, TypeOK, editor, listings
  <2>2. CASE q.rev # revision
    BY <1>2, <1>3, <1>6, <2>2 DEF Answered, TypeOK, editor, listings
  <2> QED
    BY <2>1, <2>2
<1> QED
  BY <1>4, <1>6

\* The handler of a collection goes on to the catalog.
ToCatalog ==
    /\ admin' \in AdminTask
    /\ admin' # None
    /\ admin'.stage = "catalog"

LEMMA ToCatalogTypes ==
    ASSUME TypeOK, admin # None, admin' = [admin EXCEPT !.stage = "catalog"]
    PROVE  ToCatalog
BY NullAssumption DEF TypeOK, ToCatalog, AdminTask

LEMMA NextTypeOK ==
    ASSUME TypeOK, [Next]_vars
    PROVE  TypeOK'
<1> USE MongoAssumption DEF editor, answers, listings
<1>a. Closed \in [selected : BOOLEAN, new : BOOLEAN] /\ ~Closed.selected /\ ~Closed.new
  BY ClosedType
<1>q. QueryOf(mode, find) \in Query
  BY QueryOfType DEF TypeOK
<1>1. CASE Run
  <2>1. ns \in Collection /\ Ask(ns, QueryOf(mode, find))
    BY <1>1 DEF Run, TypeOK
  <2>2. revision' \in Nat /\ loading' \in BOOLEAN
        /\ queries' \subseteq [rev : 1..revision', ns : Collection, spec : Runnable]
    BY <2>1, <1>q, AskTypes
  <2>3. restored' \in BOOLEAN
    BY <1>1 DEF Run
  <2> QED
    BY <1>1, <2>2, <2>3 DEF Run, TypeOK
<1>2. ASSUME NEW m \in {"find", "aggregate"}, SetMode(m)
      PROVE  TypeOK'
  BY <1>2 DEF SetMode, TypeOK
<1>3. ASSUME NEW f \in FindText, SetEditor(f)
      PROVE  TypeOK'
  BY <1>3 DEF SetEditor, TypeOK
<1>4. CASE RefreshCatalog \/ ListingFails
  BY <1>4 DEF RefreshCatalog, ListingFails, TypeOK
<1>5. ASSUME NEW c \in Collection, SelectCollection(c)
      PROVE  TypeOK'
  <2>1. MoveTo(c, "find") /\ restored' \in BOOLEAN
    BY <1>5 DEF SelectCollection
  <2> QED
    BY <1>5, <2>1, <1>a, MoveToTypes DEF SelectCollection, TypeOK
<1>6. ASSUME NEW c \in Collection, NEW spec \in Runnable, LoadQuery(c, spec)
      PROVE  TypeOK'
  <2>1. mode' \in {"find", "aggregate"} /\ find' \in FindText /\ restored' \in BOOLEAN /\ Supersede
    BY <1>6 DEF LoadQuery, TypeOK, Runnable, FindText
  <2> QED
    BY <1>6, <2>1, <1>a, SupersedeTypes DEF LoadQuery, TypeOK
<1>7. ASSUME NEW c \in Collection \ System, CreateCollection(c)
      PROVE  TypeOK'
  BY <1>7 DEF CreateCollection, TypeOK, AdminTask
<1>8. CASE DropCollection
  BY <1>8 DEF DropCollection, TypeOK, AdminTask
<1>9. CASE SelectDocument \/ BeginDocument
  <2>1. inspector' \in [selected : BOOLEAN, new : BOOLEAN] /\ ~(inspector'.selected /\ inspector'.new)
    <3>1. CASE inspector' = [selected |-> TRUE, new |-> FALSE]
      BY <3>1
    <3>2. CASE inspector' = [selected |-> FALSE, new |-> TRUE]
      BY <3>2
    <3> QED
      BY <1>9, <3>1, <3>2 DEF SelectDocument, BeginDocument
  <2> QED
    BY <1>9, <2>1 DEF SelectDocument, BeginDocument, TypeOK
<1>10. CASE SaveDocument \/ DeleteDocument
  <2>1. PICK kind \in {"insert", "replace", "delete"} :
          Write(kind) /\ (kind # "insert" => result # None)
    BY <1>10 DEF SaveDocument, DeleteDocument, CanMutateSelectedDocument, SelectedDocument
  <2>2. ns \in Collection \cup {None}
    BY DEF TypeOK
  <2>3. (IF kind = "insert" THEN None ELSE result.ns) \in Collection \cup {None}
    BY <2>1 DEF TypeOK, Result
  <2>4. (kind = "insert" \/ result.spec = "whole") \in BOOLEAN
    OBVIOUS
  <2>5. write' \in NewWrite
    BY <2>1, <2>2, <2>3, <2>4, <1>q DEF Write, NewWrite
  <2>6. restored' \in BOOLEAN
    BY <2>1 DEF Write
  <2> QED
    BY <2>1, <2>5, <2>6 DEF Write, TypeOK
<1>11. ASSUME NEW q \in queries, Answered(q) \/ QueryFails(q)
       PROVE  TypeOK'
  BY <1>11, AnswerTypes
<1>12. CASE Listed
  <2>1. PICK first \in FirstOf(TRUE) : ChooseFirst(first)
    BY <1>12 DEF Listed
  <2>2. first \in Collection \cup {None}
    BY DEF FirstOf
  <2>3. initialized' => catalog'
    BY <1>12 DEF Listed
  <2> QED
    BY <1>12, <2>1, <2>2, <2>3, ChooseFirstTypes DEF Listed, TypeOK
<1>13. CASE Created
  <2>1. ToCatalog
    BY <1>13, ToCatalogTypes DEF Created
  <2> QED
    BY <1>13, <2>1 DEF Created, ToCatalog, TypeOK
<1>14. CASE Dropped
  <2>1. Supersede /\ restored' \in BOOLEAN
    BY <1>14 DEF Dropped
  <2>2. ToCatalog
    BY <1>14, ToCatalogTypes DEF Dropped
  <2> QED
    BY <1>14, <2>1, <2>2, SupersedeTypes DEF Dropped, ToCatalog, TypeOK
<1>15. CASE AdminFails
  BY <1>15 DEF AdminFails, TypeOK
<1>16. CASE AdminListed
  <2> DEFINE With(shown, first) ==
          /\ admin # None
          /\ admin.stage = "catalog"
          /\ shown => listing = "admin"
          /\ admin' = None
          /\ listing' = IF listing = "admin" THEN "none" ELSE listing
          /\ catalog' = (catalog \/ shown)
          /\ IF admin.op = "create"
             THEN /\ initialized' = (initialized \/ first # None)
                  /\ MoveTo(admin.ns, "find")
                  /\ result' = None
                  /\ restored' = FALSE
             ELSE /\ ChooseFirst(first)
                  /\ UNCHANGED <<result, restored>>
          /\ UNCHANGED <<inspector, write>>
  <2>0. PICK shown \in BOOLEAN : \E first \in FirstOf(shown) : With(shown, first)
    BY <1>16 DEF AdminListed
  <2>1. PICK first \in FirstOf(shown) : With(shown, first)
    BY <2>0
  <2>2. first \in Collection \cup {None} /\ (first # None => shown)
    BY DEF FirstOf
  <2>3. initialized' = (initialized \/ first # None)
    BY <2>1 DEF ChooseFirst
  <2>4. initialized' \in BOOLEAN /\ catalog' \in BOOLEAN /\ (initialized' => catalog')
    BY <2>1, <2>2, <2>3 DEF TypeOK
  <2>5. /\ ns' \in Collection \cup {None} /\ mode' \in {"find", "aggregate"} /\ find' \in FindText
        /\ revision' \in Nat /\ loading' \in BOOLEAN
        /\ queries' \subseteq [rev : 1..revision', ns : Collection, spec : Runnable]
    <3>1. CASE admin.op = "create"
      <4>1. admin.ns \in Collection
        BY <2>1 DEF TypeOK, AdminTask
      <4> QED
        BY <2>1, <3>1, <4>1, MoveToTypes
    <3>2. CASE admin.op # "create"
      BY <2>1, <2>2, <3>2, ChooseFirstTypes
    <3> QED
      BY <3>1, <3>2
  <2>6. restored' \in BOOLEAN
    BY <2>1 DEF TypeOK
  <2>7. listing' \in {"none", "page"}
    BY <2>1 DEF TypeOK
  <2>8. \/ result' = None
        \/ result' \in Result
    BY <2>1 DEF TypeOK
  <2> QED
    BY <2>1, <2>4, <2>5, <2>6, <2>7, <2>8 DEF TypeOK
<1>17. CASE Written
  <2>1. write \in NewWrite /\ write.ns \in Collection /\ write.spec \in Query
    BY <1>17 DEF Written, TypeOK, NewWrite
  <2>2. revision' \in Nat /\ loading' \in BOOLEAN
        /\ queries' \subseteq [rev : 1..revision', ns : Collection, spec : Runnable]
    BY <1>17, <2>1, AskTypes DEF Written
  <2>3. revision + 1 \in Nat
    BY DEF TypeOK
  <2>4. write' = None \/ write' \in NewWrite
    BY <1>17, <2>1, <2>3 DEF Written, NewWrite
  <2> QED
    BY <1>17, <2>2, <2>4 DEF Written, TypeOK
<1>18. CASE WriteFails
  BY <1>18 DEF WriteFails, TypeOK
<1>19. CASE UNCHANGED vars
  BY <1>19 DEF vars, TypeOK
<1> QED
  BY <1>1, <1>2, <1>3, <1>4, <1>5, <1>6, <1>7, <1>8, <1>9, <1>10, <1>11, <1>12, <1>13, <1>14,
     <1>15, <1>16, <1>17, <1>18, <1>19 DEF Next, Clicks, Arrivals

-----------------------------------------------------------------------------
(* Revisions. *)

\* A step asks for something, supersedes what was asked for, takes an answer
\* or leaves the queries alone.
LEMMA QueriesOfAStep ==
    ASSUME TypeOK, [Next]_vars
    PROVE  \/ \E n \in Collection, spec \in Query : Ask(n, spec)
           \/ Supersede
           \/ \E q \in queries : Answered(q) \/ QueryFails(q)
           \/ UNCHANGED <<revision, queries, loading>>
<1> USE DEF answers
<1>q. \A m \in {"find", "aggregate"} : QueryOf(m, find) \in Query
  BY QueryOfType DEF TypeOK
<1>m. ASSUME NEW n \in Collection, NEW m \in {"find", "aggregate"}, MoveTo(n, m)
      PROVE  \E k \in Collection, spec \in Query : Ask(k, spec)
  BY <1>q, <1>m DEF MoveTo
<1>f. ASSUME NEW first \in Collection \cup {None}, ChooseFirst(first)
      PROVE  \/ \E n \in Collection, spec \in Query : Ask(n, spec)
             \/ UNCHANGED <<revision, queries, loading>>
  <2>1. CASE first = None
    BY <1>f, <2>1 DEF ChooseFirst
  <2>2. CASE first # None
    BY <1>f, <1>m, <2>2 DEF ChooseFirst, TypeOK
  <2> QED
    BY <2>1, <2>2
<1>1. CASE Run
  BY <1>1, <1>q DEF Run, TypeOK
<1>2. ASSUME NEW c \in Collection, SelectCollection(c)
      PROVE  \E n \in Collection, spec \in Query : Ask(n, spec)
  BY <1>2, <1>m DEF SelectCollection
<1>3. CASE Listed
  <2>1. PICK first \in FirstOf(TRUE) : ChooseFirst(first)
    BY <1>3 DEF Listed
  <2>2. first \in Collection \cup {None}
    BY DEF FirstOf
  <2> QED
    BY <2>1, <2>2, <1>f
<1>4. CASE AdminListed
  <2>1. \/ admin # None /\ MoveTo(admin.ns, "find")
        \/ \E first \in Collection \cup {None} : ChooseFirst(first)
    BY <1>4 DEF AdminListed, FirstOf
  <2>2. admin # None => admin.ns \in Collection
    BY DEF TypeOK, AdminTask
  <2> QED
    BY <2>1, <2>2, <1>f, <1>m
<1>5. CASE Written
  BY <1>5 DEF Written, TypeOK, NewWrite
<1>6. CASE Dropped \/ \E c \in Collection, spec \in Runnable : LoadQuery(c, spec)
  BY <1>6 DEF Dropped, LoadQuery
<1>7. CASE SaveDocument \/ DeleteDocument
  BY <1>7 DEF SaveDocument, DeleteDocument, Write
<1>8. CASE \/ \E m \in {"find", "aggregate"} : SetMode(m)
           \/ \E f \in FindText : SetEditor(f)
           \/ RefreshCatalog \/ ListingFails \/ WriteFails
  BY <1>8 DEF SetMode, SetEditor, RefreshCatalog, ListingFails, WriteFails
<1>9. CASE \/ \E c \in Collection \ System : CreateCollection(c)
           \/ DropCollection \/ Created \/ AdminFails
  BY <1>9 DEF CreateCollection, DropCollection, Created, AdminFails
<1>10. CASE SelectDocument \/ BeginDocument
  BY <1>10 DEF SelectDocument, BeginDocument
<1>11. CASE UNCHANGED vars
  BY <1>11 DEF vars
<1> QED
  BY <1>1, <1>2, <1>3, <1>4, <1>5, <1>6, <1>7, <1>8, <1>9, <1>10, <1>11 DEF Next, Clicks, Arrivals

LEMMA NextRevisions ==
    ASSUME TypeOK, Revisions, [Next]_vars
    PROVE  Revisions'
<1> USE DEF Revisions, LoadingIsUnderWay
<1>0. revision \in Nat /\ \A q \in queries : q.rev \in 1..revision
  BY DEF TypeOK
<1>1. ASSUME NEW n \in Collection, NEW spec \in Query, Ask(n, spec)
      PROVE  Revisions'
  <2> DEFINE new == [rev |-> revision + 1, ns |-> n, spec |-> spec]
  <2>1. new.rev = revision + 1 /\ revision' = revision + 1
    BY <1>1 DEF Ask
  <2>2. CASE spec = "invalid"
    <3>1. queries' = queries /\ ~loading'
      BY <1>1, <2>2 DEF Ask
    <3> QED
      BY <1>0, <2>1, <3>1
  <2>3. CASE spec # "invalid"
    <3>1. queries' = queries \cup {new} /\ loading'
      BY <1>1, <2>3 DEF Ask
    <3> HIDE DEF new
    <3>2. \E q \in queries' : q.rev = revision'
      BY <2>1, <3>1
    <3>3. \A q, r \in queries' : q.rev = r.rev => q = r
      BY <1>0, <2>1, <3>1
    <3> QED
      BY <3>1, <3>2, <3>3
  <2> QED
    BY <2>2, <2>3
<1>2. CASE Supersede
  BY <1>0, <1>2 DEF Supersede
<1>3. ASSUME NEW q \in queries, Answered(q) \/ QueryFails(q)
      PROVE  Revisions'
  <2>1. queries' = queries \ {q} /\ revision' = revision
    BY <1>3 DEF Answered, QueryFails
  <2>2. CASE q.rev = revision
    <3>1. ~loading'
      BY <1>3, <2>2 DEF Answered, QueryFails, Show
    <3> QED
      BY <2>1, <2>2, <3>1
  <2>3. CASE q.rev # revision
    <3>1. loading' = loading
      BY <1>3, <2>3 DEF Answered, QueryFails, TypeOK
    <3> QED
      BY <2>1, <2>3, <3>1
  <2> QED
    BY <2>2, <2>3
<1>4. CASE UNCHANGED <<revision, queries, loading>>
  BY <1>4
<1> QED
  BY <1>1, <1>2, <1>3, <1>4, QueriesOfAStep

-----------------------------------------------------------------------------
(* What was read and what is written in its place. *)

\* What a step does to the answer shown and to the write under way.
LEMMA NextCompleteness ==
    ASSUME TypeOK, Completeness, [Next]_vars
    PROVE  Completeness'
<1> USE DEF Completeness, ReplacesAreComplete
<1>r. ASSUME result' = None \/ result' = result, write' = None \/ write' = write
      PROVE  Completeness'
  BY <1>r
<1>1. ASSUME NEW q \in queries, Answered(q) \/ QueryFails(q)
      PROVE  Completeness'
  <2>1. write' = None \/ write' = write
    BY <1>1 DEF Answered, QueryFails
  <2>2. \/ result' = result
        \/ \E empty \in BOOLEAN : Show(q, q.spec = "whole", empty)
    BY <1>1 DEF Answered, QueryFails
  <2>3. ASSUME NEW empty \in BOOLEAN, Show(q, q.spec = "whole", empty)
        PROVE  Completeness'
    <3>1. result'.mutable = (q.spec = "whole") /\ result'.spec = q.spec
      BY <2>3 DEF Show
    <3> QED
      BY <2>1, <3>1
  <2> QED
    BY <1>r, <2>1, <2>2, <2>3
<1>2. CASE SaveDocument \/ DeleteDocument
  <2>1. PICK kind \in {"insert", "replace", "delete"} :
          Write(kind) /\ (kind = "replace" => result # None /\ result.mutable)
    BY <1>2 DEF SaveDocument, DeleteDocument, CanMutateSelectedDocument, SelectedDocument
  <2>2. result' = result
    BY <2>1 DEF Write, answers
  <2>3. write'.kind = kind /\ (write'.complete <=> kind = "insert" \/ result.spec = "whole")
    BY <2>1 DEF Write
  <2> QED
    BY <2>1, <2>2, <2>3
<1>3. CASE Written
  <2>1. result' = result /\ (write' = None \/ write' = [write EXCEPT !.rerun = revision + 1])
    BY <1>3 DEF Written
  <2>2. write \in NewWrite
    BY <1>3 DEF Written, TypeOK
  <2>3. write' # None => write'.kind = write.kind /\ write'.complete = write.complete
    BY <2>1, <2>2 DEF NewWrite
  <2> QED
    BY <1>3, <2>1, <2>3 DEF Written
<1>4. CASE \/ Run
           \/ \E m \in {"find", "aggregate"} : SetMode(m)
           \/ \E f \in FindText : SetEditor(f)
           \/ RefreshCatalog \/ ListingFails \/ WriteFails
  BY <1>r, <1>4 DEF Run, SetMode, SetEditor, RefreshCatalog, ListingFails, WriteFails, answers
<1>5. CASE \/ \E c \in Collection : SelectCollection(c)
           \/ \E c \in Collection, spec \in Runnable : LoadQuery(c, spec)
           \/ Listed \/ AdminListed \/ Dropped
  BY <1>r, <1>5 DEF SelectCollection, LoadQuery, Listed, AdminListed, Dropped
<1>6. CASE \/ \E c \in Collection \ System : CreateCollection(c)
           \/ DropCollection \/ Created \/ AdminFails
  BY <1>r, <1>6 DEF CreateCollection, DropCollection, Created, AdminFails, answers
<1>7. CASE SelectDocument \/ BeginDocument
  BY <1>r, <1>7 DEF SelectDocument, BeginDocument
<1>8. CASE UNCHANGED vars
  BY <1>r, <1>8 DEF vars, answers
<1> QED
  BY <1>1, <1>2, <1>3, <1>4, <1>5, <1>6, <1>7, <1>8 DEF Next, Clicks, Arrivals

-----------------------------------------------------------------------------
(* The collection the page is at. *)

\* No query of before is the latest after a new revision.
LEMMA OlderQueries ==
    ASSUME TypeOK
    PROVE  \A q \in queries : q.rev # revision + 1
BY DEF TypeOK

\* Asked for the collection the page is at, a query is about that collection.
LEMMA LatestAsked ==
    ASSUME TypeOK, NEW n, NEW spec, Ask(n, spec)
    PROVE  \A q \in queries' : q.rev = revision' => q.ns = n
<1> DEFINE new == [rev |-> revision + 1, ns |-> n, spec |-> spec]
<1>1. queries' \subseteq queries \cup {new} /\ revision' = revision + 1
  BY DEF Ask
<1>2. new.ns = n
  OBVIOUS
<1> HIDE DEF new
<1> QED
  BY <1>1, <1>2, OlderQueries

LEMMA LatestSuperseded ==
    ASSUME TypeOK, Supersede
    PROVE  ~loading' /\ \A q \in queries' : q.rev # revision'
BY OlderQueries DEF Supersede

\* A step that moves the page asks for the collection it moves to or supersedes
\* what was asked; one that leaves it there asks for it, or ends a write.
LEMMA MovesOfAStep ==
    ASSUME TypeOK, [Next]_vars
    PROVE  \/ \E n \in Collection, spec \in Query : Ask(n, spec) /\ ns' = n
           \/ Supersede
           \/ \E q \in queries : Answered(q) \/ QueryFails(q)
           \/ Written
           \/ /\ UNCHANGED <<ns, revision, queries>>
              /\ write' = write \/ write = None \/ write.rerun = 0
<1> USE DEF answers, editor
<1>q. \A m \in {"find", "aggregate"} : QueryOf(m, find) \in Query
  BY QueryOfType DEF TypeOK
<1>m. ASSUME NEW n \in Collection, NEW m \in {"find", "aggregate"}, MoveTo(n, m)
      PROVE  \E k \in Collection, spec \in Query : Ask(k, spec) /\ ns' = k
  BY <1>q, <1>m DEF MoveTo
<1>f. ASSUME NEW first \in Collection \cup {None}, ChooseFirst(first)
      PROVE  \/ \E n \in Collection, spec \in Query : Ask(n, spec) /\ ns' = n
             \/ UNCHANGED <<ns, revision, queries>>
  <2>1. CASE first = None
    BY <1>f, <2>1 DEF ChooseFirst
  <2>2. CASE first # None
    BY <1>f, <1>m, <2>2 DEF ChooseFirst, TypeOK
  <2> QED
    BY <2>1, <2>2
<1>1. CASE Run
  BY <1>1, <1>q DEF Run, TypeOK
<1>2. ASSUME NEW c \in Collection, SelectCollection(c)
      PROVE  \E n \in Collection, spec \in Query : Ask(n, spec) /\ ns' = n
  BY <1>2, <1>m DEF SelectCollection
<1>3. CASE Listed
  <2>1. PICK first \in FirstOf(TRUE) : ChooseFirst(first)
    BY <1>3 DEF Listed
  <2>2. first \in Collection \cup {None} /\ write' = write
    BY <1>3 DEF FirstOf, Listed
  <2> QED
    BY <2>1, <2>2, <1>f
<1>4. CASE AdminListed
  <2>1. \/ admin # None /\ MoveTo(admin.ns, "find")
        \/ \E first \in Collection \cup {None} : ChooseFirst(first)
    BY <1>4 DEF AdminListed, FirstOf
  <2>2. admin # None => admin.ns \in Collection
    BY DEF TypeOK, AdminTask
  <2>3. write' = write
    BY <1>4 DEF AdminListed
  <2> QED
    BY <2>1, <2>2, <2>3, <1>f, <1>m
<1>5. CASE Dropped \/ \E c \in Collection, spec \in Runnable : LoadQuery(c, spec)
  BY <1>5 DEF Dropped, LoadQuery
<1>6. CASE SaveDocument \/ DeleteDocument
  BY <1>6 DEF SaveDocument, DeleteDocument, Write
<1>7. CASE \/ \E m \in {"find", "aggregate"} : SetMode(m)
           \/ \E f \in FindText : SetEditor(f)
           \/ RefreshCatalog \/ ListingFails \/ WriteFails
  BY <1>7 DEF SetMode, SetEditor, RefreshCatalog, ListingFails, WriteFails
<1>8. CASE \/ \E c \in Collection \ System : CreateCollection(c)
           \/ DropCollection \/ Created \/ AdminFails
  BY <1>8 DEF CreateCollection, DropCollection, Created, AdminFails
<1>9. CASE SelectDocument \/ BeginDocument
  BY <1>9 DEF SelectDocument, BeginDocument
<1>10. CASE UNCHANGED vars
  BY <1>10 DEF vars
<1> QED
  BY <1>1, <1>2, <1>3, <1>4, <1>5, <1>6, <1>7, <1>8, <1>9, <1>10 DEF Next, Clicks, Arrivals

LEMMA NextLatest ==
    ASSUME TypeOK, Revisions, LatestInv, [Next]_vars
    PROVE  LatestInv'
<1> USE DEF LatestInv
<1>1. ASSUME NEW n \in Collection, NEW spec \in Query, Ask(n, spec), ns' = n
      PROVE  LatestInv'
  BY <1>1, LatestAsked
<1>2. CASE Supersede
  BY <1>2, LatestSuperseded
<1>3. ASSUME NEW q \in queries, Answered(q) \/ QueryFails(q)
      PROVE  LatestInv'
  <2>1. queries' = queries \ {q} /\ UNCHANGED <<ns, revision>>
        /\ write' = IF Rerun(q) THEN None ELSE write
    BY <1>3 DEF Answered, QueryFails, editor
  <2>2. ASSUME NEW r \in queries', Rerun(r)
        PROVE  Rerun(r)'
    <3>1. r # q /\ r \in queries
      BY <2>1
    <3>2. ~Rerun(q)
      BY <2>2, <3>1 DEF Revisions, Rerun
    <3> QED
      BY <2>1, <2>2, <3>2 DEF Rerun
  <2> QED
    BY <2>1, <2>2
<1>4. CASE Written
  <2>1. Ask(write.ns, write.spec) /\ revision' = revision + 1 /\ write \in NewWrite
    BY <1>4 DEF Written, Ask, TypeOK
  <2>2. CASE write.spec = "invalid"
    BY <2>1, <2>2, OlderQueries DEF Ask
  <2>3. CASE write.spec # "invalid"
    <3>1. write' = [write EXCEPT !.rerun = revision + 1]
      BY <1>4, <2>3 DEF Written
    <3>2. write'.rerun = revision + 1 /\ write' \in NewWrite
      BY <2>1, <3>1 DEF NewWrite, TypeOK
    <3>3. write' # None
      BY <3>2, NullAssumption
    <3> QED
      BY <2>1, <3>2, <3>3 DEF Rerun
  <2> QED
    BY <2>2, <2>3
<1>5. CASE /\ UNCHANGED <<ns, revision, queries>>
           /\ write' = write \/ write = None \/ write.rerun = 0
  <2>1. \A q \in queries : q.rev # 0
    BY DEF TypeOK
  <2> QED
    BY <1>5, <2>1 DEF Rerun
<1> QED
  BY <1>1, <1>2, <1>3, <1>4, <1>5, MovesOfAStep

\* A catalog that moves the page is the first one.
LEMMA ChoosesFirst ==
    ASSUME NEW shown \in BOOLEAN, NEW first \in FirstOf(shown), ChooseFirst(first)
    PROVE  FirstCatalog \/ UNCHANGED <<ns, loading>>
<1>1. CASE first = None
  BY <1>1 DEF ChooseFirst, editor
<1>2. CASE first # None
  <2>1. ~initialized
    BY <1>2 DEF FirstOf
  <2> QED
    BY <1>2, <2>1 DEF ChooseFirst, FirstCatalog
<1> QED
  BY <1>1, <1>2

\* What a step does to the collection that is chosen and to what is shown.
LEMMA ResultOfAStep ==
    ASSUME TypeOK, Revisions, LatestInv, [Next]_vars, result' # None, result'.ns # ns'
    PROVE  \/ UNCHANGED <<result, ns>>
           \/ FirstCatalog
           \/ \E q \in queries \ queries' : Rerun(q)
<1> USE DEF answers, editor
<1>1. ASSUME NEW q \in queries, Answered(q) \/ QueryFails(q)
      PROVE  UNCHANGED <<result, ns>> \/ \E r \in queries \ queries' : Rerun(r)
  <2>1. UNCHANGED ns /\ q \in queries \ queries'
    BY <1>1 DEF Answered, QueryFails
  <2>2. CASE UNCHANGED result
    BY <2>1, <2>2
  <2>3. CASE q.rev = revision /\ \E empty \in BOOLEAN : Show(q, q.spec = "whole", empty)
    <3>1. result'.ns = q.ns
      BY <2>3 DEF Show
    <3>2. Rerun(q)
      BY <2>1, <2>3, <3>1 DEF LatestInv
    <3> QED
      BY <2>1, <3>2
  <2> QED
    BY <1>1, <2>2, <2>3 DEF Answered, QueryFails
<1>2. CASE Listed
  <2>1. PICK first \in FirstOf(TRUE) : ChooseFirst(first)
    BY <1>2 DEF Listed
  <2>2. UNCHANGED result
    BY <1>2 DEF Listed
  <2> QED
    BY <2>1, <2>2, ChoosesFirst
<1>3. CASE AdminListed
  <2>1. UNCHANGED result /\ \E shown \in BOOLEAN : \E first \in FirstOf(shown) : ChooseFirst(first)
    BY <1>3 DEF AdminListed
  <2> QED
    BY <2>1, ChoosesFirst
<1>4. CASE \/ \E c \in Collection : SelectCollection(c)
           \/ \E c \in Collection, spec \in Runnable : LoadQuery(c, spec)
           \/ Dropped
  BY <1>4 DEF SelectCollection, LoadQuery, Dropped
<1>5. CASE \/ Run
           \/ \E m \in {"find", "aggregate"} : SetMode(m)
           \/ \E f \in FindText : SetEditor(f)
           \/ RefreshCatalog \/ ListingFails \/ Written \/ WriteFails
  BY <1>5 DEF Run, SetMode, SetEditor, RefreshCatalog, ListingFails, Written, WriteFails
<1>6. CASE \/ \E c \in Collection \ System : CreateCollection(c)
           \/ DropCollection \/ Created \/ AdminFails
  BY <1>6 DEF CreateCollection, DropCollection, Created, AdminFails
<1>7. CASE SelectDocument \/ BeginDocument \/ SaveDocument \/ DeleteDocument
  BY <1>7 DEF SelectDocument, BeginDocument, SaveDocument, DeleteDocument, Write
<1>8. CASE UNCHANGED vars
  BY <1>8 DEF vars
<1> QED
  BY <1>1, <1>2, <1>3, <1>4, <1>5, <1>6, <1>7, <1>8 DEF Next, Clicks, Arrivals

\* What a step does behind a query that stays restored.
LEMMA RestoredOfAStep ==
    ASSUME TypeOK, Revisions, [Next]_vars, ~RestoredIsNotRun', RestoredIsNotRun
    PROVE  FirstCatalog \/ Written
<1> USE DEF RestoredIsNotRun, answers
<1>1. ASSUME NEW q \in queries, Answered(q) \/ QueryFails(q)
      PROVE  FALSE
  <2>1. restored /\ result = None /\ ~loading
    BY <1>1 DEF Answered, QueryFails
  <2>2. q.rev # revision
    BY <2>1 DEF Revisions, LoadingIsUnderWay
  <2> QED
    BY <1>1, <2>1, <2>2 DEF Answered, QueryFails
<1>2. CASE Listed
  <2>1. PICK first \in FirstOf(TRUE) : ChooseFirst(first)
    BY <1>2 DEF Listed
  <2>2. UNCHANGED <<result, restored>>
    BY <1>2 DEF Listed
  <2> QED
    BY <2>1, <2>2, ChoosesFirst
<1>3. CASE AdminListed
  <2>1. UNCHANGED <<result, restored>>
        /\ \E shown \in BOOLEAN : \E first \in FirstOf(shown) : ChooseFirst(first)
    BY <1>3 DEF AdminListed
  <2> QED
    BY <2>1, ChoosesFirst
<1>4. CASE \/ \E c \in Collection : SelectCollection(c)
           \/ \E c \in Collection, spec \in Runnable : LoadQuery(c, spec)
           \/ Dropped
  BY <1>4 DEF SelectCollection, LoadQuery, Dropped, Supersede
<1>5. CASE \/ Run
           \/ \E m \in {"find", "aggregate"} : SetMode(m)
           \/ \E f \in FindText : SetEditor(f)
           \/ RefreshCatalog \/ ListingFails \/ WriteFails
  BY <1>5 DEF Run, SetMode, SetEditor, RefreshCatalog, ListingFails, WriteFails
<1>6. CASE \/ \E c \in Collection \ System : CreateCollection(c)
           \/ DropCollection \/ Created \/ AdminFails
  BY <1>6 DEF CreateCollection, DropCollection, Created, AdminFails
<1>7. CASE SelectDocument \/ BeginDocument \/ SaveDocument \/ DeleteDocument
  BY <1>7 DEF SelectDocument, BeginDocument, SaveDocument, DeleteDocument, Write
<1>8. CASE UNCHANGED vars
  BY <1>8 DEF vars
<1> QED
  BY <1>1, <1>2, <1>3, <1>4, <1>5, <1>6, <1>7, <1>8 DEF Next, Clicks, Arrivals

-----------------------------------------------------------------------------
(* The theorems. *)

\* Every variable keeps its type: a collection, an answer or a write that is
\* not there is never looked into (the checks for null of useMongoWorkbench.ts).
THEOREM TypeCorrect == Spec => []TypeOK
<1>1. Init => TypeOK
  BY InitTypeOK
<1>2. TypeOK /\ [Next]_vars => TypeOK'
  BY NextTypeOK
<1> QED
  BY <1>1, <1>2, PTL DEF Spec

\* Whatever the user does, the page is loading exactly as long as the answer
\* of its latest request is under way (latestRequestRegistry.ts as the runs of
\* useMongoWorkbench.ts use it).
THEOREM LoadingIsRight == Spec => []LoadingIsUnderWay
<1>1. Init => Revisions
  BY DEF Init, Revisions, LoadingIsUnderWay
<1>2. TypeOK /\ Revisions /\ [Next]_vars => Revisions'
  BY NextRevisions
<1>3. Revisions => LoadingIsUnderWay
  BY DEF Revisions
<1> QED
  BY <1>1, <1>2, <1>3, TypeCorrect, PTL DEF Spec

\* Whatever the user does, a document is replaced by a whole one only (the
\* mutability that a run works out from the query it was called with).
THEOREM ReplacesWholeDocuments == Spec => []ReplacesAreComplete
<1>1. Init => Completeness
  BY DEF Init, Completeness, ReplacesAreComplete
<1>2. TypeOK /\ Completeness /\ [Next]_vars => Completeness'
  BY NextCompleteness
<1>3. Completeness => ReplacesAreComplete
  BY DEF Completeness
<1> QED
  BY <1>1, <1>2, <1>3, TypeCorrect, PTL DEF Spec

\* The three facts that the steps are judged from.
LEMMA Inductive == Spec => [](TypeOK /\ Revisions /\ LatestInv)
<1>1. Init => TypeOK /\ Revisions /\ LatestInv
  <2> SUFFICES ASSUME Init PROVE TypeOK /\ Revisions /\ LatestInv
    OBVIOUS
  <2>1. TypeOK
    BY InitTypeOK
  <2>2. Revisions /\ LatestInv
    BY DEF Init, Revisions, LoadingIsUnderWay, LatestInv
  <2> QED
    BY <2>1, <2>2
<1>2. TypeOK /\ Revisions /\ LatestInv /\ [Next]_vars => (TypeOK /\ Revisions /\ LatestInv)'
  BY NextTypeOK, NextRevisions, NextLatest
<1> QED
  BY <1>1, <1>2, PTL DEF Spec

\* Whatever the user does, documents come to stand under the name of another
\* collection only by a late first catalog or by the query that a write runs
\* again (setNamespace and the runs of useMongoWorkbench.ts).
THEOREM ResultStays == Spec => ResultStaysOfNamespace
<1>1. TypeOK /\ Revisions /\ LatestInv /\ [Next]_vars =>
        [result' # None /\ result'.ns # ns' =>
           \/ UNCHANGED <<result, ns>>
           \/ FirstCatalog
           \/ \E q \in queries \ queries' : Rerun(q)]_vars
  BY ResultOfAStep
<1> QED
  BY <1>1, Inductive, PTL DEF Spec, ResultStaysOfNamespace

\* Whatever the user does, a query that was restored is run by nothing but a
\* late first catalog or the end of a write (loadQuery of useMongoWorkbench.ts).
THEOREM RestoredStaysUnrun == Spec => RestoredIsLeftAlone
<1>1. TypeOK /\ Revisions /\ LatestInv /\ [Next]_vars =>
        [~RestoredIsNotRun' => ~RestoredIsNotRun \/ FirstCatalog \/ Written]_vars
  BY RestoredOfAStep
<1> QED
  BY <1>1, Inductive, PTL DEF Spec, RestoredIsLeftAlone
=============================================================================
