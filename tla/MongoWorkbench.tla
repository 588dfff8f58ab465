--------------------------- MODULE MongoWorkbench ---------------------------
(***************************************************************************)
(* The page of a MongoDB connection (useMongoWorkbench.ts and the          *)
(* components that call it): collections are chosen, created and dropped,  *)
(* queries run, restored from the history and their answers browsed, and   *)
(* documents inserted, replaced and deleted.  Writes to a document have no *)
(* revision: only queries and the catalog do (latestRequestRegistry.ts).   *)
(*                                                                         *)
(* One step is one event: a click or an answer, with the effect that runs  *)
(* the default query of the collection it moved to.  A handler works on    *)
(* the collection and the editor as they were at its click, also after its *)
(* awaits, so a write is a record that carries what its handler captured.  *)
(***************************************************************************)
EXTENDS Naturals

CONSTANTS
    Collection,  \* database and name
    System,      \* those the server reports as system collections
    MaxRequests, \* bound: revisions of the channel "query"
    None         \* no collection, no answer, no write

ASSUME MongoAssumption ==
    /\ System \subseteq Collection
    /\ MaxRequests \in Nat
    /\ None \notin Collection

VARIABLES
    ns,          \* namespace, None as long as its collection is ""
    mode,        \* editorSession.mode
    find,        \* what the text of the find editor asks for
    revision,    \* LatestRequestRegistry.revisions, of the channel "query"
    queries,     \* runs that wait for an answer
    result,      \* queryResult
    inspector,   \* a document of the result is selected, a new one is written
    loading,     \* loading
    write,       \* documentMutationInFlight, with what the handler captured
    admin,       \* collectionBusy, with what the handler captured
    catalog,     \* a catalog was shown
    listing,     \* who waits for the latest listing of the catalog
    initialized, \* initializedCatalog
    restored     \* history: a query was loaded and nothing was asked for since

editor == <<ns, mode, find>>
answers == <<revision, queries, result, inspector, loading>>
listings == <<catalog, listing, initialized>>
vars == <<editor, answers, write, admin, listings, restored>>

\* A whole document, some of its fields, or a text that does not parse.
FindText == {"whole", "projected", "invalid"}
Runnable == {"whole", "projected", "aggregate"}
Query == Runnable \cup {"invalid"}

NewWrite == [kind : {"insert", "replace", "delete"}, ns : Collection \cup {None}, spec : Query,
             of : Collection \cup {None}, complete : BOOLEAN, rerun : Nat]

Result == [ns : Collection, spec : Runnable, mutable : BOOLEAN, empty : BOOLEAN]

AdminTask == [op : {"create", "drop"}, ns : Collection, stage : {"write", "catalog"}]

\* null is none of the page's objects.
ASSUME NullAssumption == None \notin NewWrite \cup Result \cup AdminTask

TypeOK ==
    /\ ns \in Collection \cup {None}
    /\ mode \in {"find", "aggregate"}
    /\ find \in FindText
    /\ revision \in Nat
    /\ queries \subseteq [rev : 1..revision, ns : Collection, spec : Runnable]
    /\ result = None \/ result \in Result
    /\ inspector \in [selected : BOOLEAN, new : BOOLEAN]
    /\ ~(inspector.selected /\ inspector.new)
    /\ loading \in BOOLEAN
    /\ write = None \/ write \in NewWrite
    /\ admin = None \/ admin \in AdminTask
    /\ catalog \in BOOLEAN
    /\ listing \in {"none", "page", "admin"}
    /\ listing = "admin" => admin # None /\ admin.stage = "catalog"
    /\ initialized \in BOOLEAN
    /\ initialized => catalog
    /\ restored \in BOOLEAN

Closed == [selected |-> FALSE, new |-> FALSE]

Init ==
    /\ ns = None
    /\ mode = "find"
    /\ find = "whole"
    /\ revision = 0
    /\ queries = {}
    /\ result = None
    /\ inspector = Closed
    /\ loading = FALSE
    /\ write = None
    /\ admin = None
    /\ catalog = FALSE
    /\ listing = "page"
    /\ initialized = FALSE
    /\ restored = FALSE

-----------------------------------------------------------------------------
(* Queries. *)

QueryOf(m, f) == IF m = "find" THEN f ELSE "aggregate"

Fresh == revision < MaxRequests

\* run, called on collection n with a query: one that does not parse fails at once.
Ask(n, spec) ==
    /\ Fresh
    /\ revision' = revision + 1
    /\ loading' = (spec # "invalid")
    /\ queries' = IF spec = "invalid" THEN queries
                  ELSE queries \cup {[rev |-> revision + 1, ns |-> n, spec |-> spec]}

\* The query under way is superseded and nothing is loading.
Supersede ==
    /\ Fresh
    /\ revision' = revision + 1
    /\ loading' = FALSE
    /\ UNCHANGED queries

\* setNamespace with the effect behind it.
MoveTo(n, m) ==
    /\ ns' = n
    /\ mode' = m
    /\ find' = find
    /\ Ask(n, QueryOf(m, find))

Run ==
    /\ ns # None
    /\ ~loading
    /\ Ask(ns, QueryOf(mode, find))
    /\ restored' = FALSE
    /\ UNCHANGED <<editor, result, inspector, write, admin, listings>>

\* The write whose handler awaits this run ends with it.
Rerun(q) == write # None /\ write.rerun = q.rev

\* An answer as the page takes it: from now on its documents are shown.
Show(q, mutable, empty) ==
    /\ result' = [ns |-> q.ns, spec |-> q.spec, mutable |-> mutable, empty |-> empty]
    /\ inspector' = [selected |-> ~empty, new |-> FALSE]
    /\ loading' = FALSE

\* An answer that is taken even if a newer query was asked.
AnsweredUnchecked(q) ==
    \E empty \in BOOLEAN :
        /\ queries' = queries \ {q}
        /\ write' = IF Rerun(q) THEN None ELSE write
        /\ Show(q, q.spec = "whole", empty)
        /\ UNCHANGED <<editor, revision, admin, listings, restored>>

\* An answer whose documents can be replaced if the editor asks for whole ones by now.
AnsweredByEditor(q) ==
    \E empty \in BOOLEAN :
        /\ queries' = queries \ {q}
        /\ write' = IF Rerun(q) THEN None ELSE write
        /\ IF q.rev = revision
           THEN Show(q, QueryOf(mode, find) = "whole", empty)
           ELSE UNCHANGED <<result, inspector, loading>>
        /\ UNCHANGED <<editor, revision, admin, listings, restored>>

\* The answer and the entry it leaves in the history.  An older one changes nothing.
Answered(q) ==
    \E empty \in BOOLEAN :
        /\ queries' = queries \ {q}
        /\ write' = IF Rerun(q) THEN None ELSE write
        /\ IF q.rev = revision
           THEN Show(q, q.spec = "whole", empty)
           ELSE UNCHANGED <<result, inspector, loading>>
        /\ UNCHANGED <<editor, revision, admin, listings, restored>>

\* A failure that ends the loading of a newer query.
QueryFailsUnchecked(q) ==
    /\ queries' = queries \ {q}
    /\ write' = IF Rerun(q) THEN None ELSE write
    /\ loading' = FALSE
    /\ UNCHANGED <<editor, revision, result, inspector, admin, listings, restored>>

\* The query failed, or its entry in the history.
QueryFails(q) ==
    /\ queries' = queries \ {q}
    /\ write' = IF Rerun(q) THEN None ELSE write
    /\ loading' = (loading /\ q.rev # revision)
    /\ UNCHANGED <<editor, revision, result, inspector, admin, listings, restored>>

SetMode(m) ==
    /\ m # mode
    /\ mode' = m
    /\ UNCHANGED <<ns, find, answers, write, admin, listings, restored>>

\* The text of the editor that is shown; any pipeline is as good as another.
SetEditor(f) ==
    /\ mode = "find"
    /\ f # find
    /\ find' = f
    /\ UNCHANGED <<ns, mode, answers, write, admin, listings, restored>>

-----------------------------------------------------------------------------
(* The catalog and the collections. *)

ReadOnly == catalog /\ ns \in System

RefreshCatalog ==
    /\ listing' = "page"
    /\ UNCHANGED <<editor, answers, write, admin, catalog, initialized, restored>>

\* The first catalog that has a collection of users chooses it, whatever the
\* page is at by now.
FirstOf(shown) ==
    {None} \cup (IF shown /\ ~initialized THEN Collection \ System ELSE {})

ChooseFirst(first) ==
    /\ initialized' = (initialized \/ first # None)
    /\ IF first = None THEN UNCHANGED <<editor, revision, queries, loading>> ELSE MoveTo(first, mode)

Listed ==
    /\ listing = "page"
    /\ listing' = "none"
    /\ catalog' = TRUE
    /\ \E first \in FirstOf(TRUE) : ChooseFirst(first)
    /\ UNCHANGED <<result, inspector, write, admin, restored>>

ListingFails ==
    /\ listing = "page"
    /\ listing' = "none"
    /\ UNCHANGED <<editor, answers, write, admin, catalog, initialized, restored>>

SelectCollection(c) ==
    /\ catalog
    /\ MoveTo(c, "find")
    /\ result' = None
    /\ inspector' = Closed
    /\ restored' = FALSE
    /\ UNCHANGED <<write, admin, listings>>

\* A query that is restored while an older one stays the latest.
LoadQueryKeepingRequest(c, spec) ==
    /\ ns' = c
    /\ mode' = IF spec = "aggregate" THEN "aggregate" ELSE "find"
    /\ find' = IF spec = "aggregate" THEN find ELSE spec
    /\ loading' = FALSE
    /\ result' = None
    /\ inspector' = Closed
    /\ restored' = TRUE
    /\ UNCHANGED <<revision, queries, write, admin, listings>>

\* A query of the history or of the saved ones: it is shown and not run.
LoadQuery(c, spec) ==
    /\ ns' = c
    /\ mode' = IF spec = "aggregate" THEN "aggregate" ELSE "find"
    /\ find' = IF spec = "aggregate" THEN find ELSE spec
    /\ Supersede
    /\ result' = None
    /\ inspector' = Closed
    /\ restored' = TRUE
    /\ UNCHANGED <<write, admin, listings>>

CreateCollection(c) ==
    /\ admin = None
    /\ admin' = [op |-> "create", ns |-> c, stage |-> "write"]
    /\ UNCHANGED <<editor, answers, write, listings, restored>>

DropCollection ==
    /\ admin = None
    /\ ns # None
    /\ ~ReadOnly
    /\ admin' = [op |-> "drop", ns |-> ns, stage |-> "write"]
    /\ UNCHANGED <<editor, answers, write, listings, restored>>

Created ==
    /\ admin # None
    /\ admin.op = "create"
    /\ admin.stage = "write"
    /\ admin' = [admin EXCEPT !.stage = "catalog"]
    /\ listing' = "admin"
    /\ UNCHANGED <<editor, answers, write, catalog, initialized, restored>>

\* Whatever collection the page is at by now is left.
Dropped ==
    /\ admin # None
    /\ admin.op = "drop"
    /\ admin.stage = "write"
    /\ admin' = [admin EXCEPT !.stage = "catalog"]
    /\ listing' = "admin"
    /\ Supersede
    /\ ns' = None
    /\ result' = None
    /\ restored' = FALSE
    /\ UNCHANGED <<mode, find, inspector, write, catalog, initialized>>

AdminFails ==
    /\ admin # None
    /\ admin.stage = "write"
    /\ admin' = None
    /\ UNCHANGED <<editor, answers, write, listings, restored>>

\* The catalog is listed, or not, before the handler goes on: a created
\* collection is chosen, a catalog that is the first one chooses after a drop.
AdminListed ==
    \E shown \in BOOLEAN : \E first \in FirstOf(shown) :
        /\ admin # None
        /\ admin.stage = "catalog"
        /\ shown => listing = "admin"
        /\ admin' = None
        /\ listing' = IF listing = "admin" THEN "none" ELSE listing
        /\ catalog' = (catalog \/ shown)
        /\ IF admin.op = "create"
           THEN /\ initialized' = (initialized \/ first # None)
                /\ MoveTo(admin.ns, "find")
                /\ result' = None
                /\ restored' = FALSE
           ELSE /\ ChooseFirst(first)
                /\ UNCHANGED <<result, restored>>
        /\ UNCHANGED <<inspector, write>>

-----------------------------------------------------------------------------
(* Documents. *)

SelectedDocument == result # None /\ ~result.empty /\ inspector.selected

CanMutateSelectedDocument == ~ReadOnly /\ SelectedDocument /\ result.mutable

SelectDocument ==
    /\ result # None
    /\ ~result.empty
    /\ ~inspector.selected
    /\ inspector' = [selected |-> TRUE, new |-> FALSE]
    /\ UNCHANGED <<editor, revision, queries, result, loading, write, admin, listings, restored>>

BeginDocument ==
    /\ ns # None
    /\ ~ReadOnly
    /\ ~inspector.new
    /\ inspector' = [selected |-> FALSE, new |-> TRUE]
    /\ UNCHANGED <<editor, revision, queries, result, loading, write, admin, listings, restored>>

\* The buttons are off while a document is written or a query is loading.
Write(kind) ==
    /\ write = None
    /\ ~loading
    /\ write' = [kind |-> kind, ns |-> ns, spec |-> QueryOf(mode, find), rerun |-> 0,
                 of |-> IF kind = "insert" THEN None ELSE result.ns,
                 complete |-> kind = "insert" \/ result.spec = "whole"]
    /\ restored' = FALSE
    /\ UNCHANGED <<editor, answers, admin, listings>>

SaveDocument ==
    \/ ~ReadOnly /\ inspector.new /\ Write("insert")
    \/ CanMutateSelectedDocument /\ Write("replace")

DeleteDocument == CanMutateSelectedDocument /\ Write("delete")

\* The handler runs the query again that it captured, on the collection it
\* captured, and is busy until that run ends.
Written ==
    /\ write # None
    /\ write.rerun = 0
    /\ write.ns # None
    /\ Ask(write.ns, write.spec)
    /\ write' = IF write.spec = "invalid" THEN None ELSE [write EXCEPT !.rerun = revision + 1]
    /\ UNCHANGED <<editor, result, inspector, admin, listings, restored>>

WriteFails ==
    /\ write # None
    /\ write.rerun = 0
    /\ write' = None
    /\ UNCHANGED <<editor, answers, admin, listings, restored>>

-----------------------------------------------------------------------------
Clicks ==
    \/ Run
    \/ \E m \in {"find", "aggregate"} : SetMode(m)
    \/ \E f \in FindText : SetEditor(f)
    \/ RefreshCatalog
    \/ \E c \in Collection : SelectCollection(c)
    \/ \E c \in Collection, spec \in Runnable : LoadQuery(c, spec)
    \/ \E c \in Collection \ System : CreateCollection(c)
    \/ DropCollection
    \/ SelectDocument
    \/ BeginDocument
    \/ SaveDocument
    \/ DeleteDocument

Arrivals ==
    \/ \E q \in queries : Answered(q) \/ QueryFails(q)
    \/ Listed
    \/ ListingFails
    \/ Created
    \/ Dropped
    \/ AdminFails
    \/ AdminListed
    \/ Written
    \/ WriteFails

Next == Clicks \/ Arrivals

Spec == Init /\ [][Next]_vars

-----------------------------------------------------------------------------
(* Properties. *)

\* The page shows that it is loading exactly as long as an answer that will
\* be shown is under way: the buttons it turns off come back, and not early.
LoadingIsUnderWay == loading <=> \E q \in queries : q.rev = revision

\* The first catalog that chooses a collection; it may arrive late, and choose
\* while the page is at another collection.
FirstCatalog == ~initialized /\ initialized'

\* The documents of a collection come to stand under the name of another only
\* when the first catalog moves the page, which keeps what is shown, or with the
\* answer to the query that a write runs again: no older query, restoration,
\* creation or dropping of a collection leaves them there.
ResultStaysOfNamespace ==
    [][result' # None /\ result'.ns # ns' =>
         \/ UNCHANGED <<result, ns>>
         \/ FirstCatalog
         \/ \E q \in queries \ queries' : Rerun(q)]_vars

\* A document of which the page has only some fields, or one that a pipeline
\* made up, is never put in the place of the stored one, however the editor
\* was changed since it was read.
ReplacesAreComplete == write # None /\ write.kind = "replace" => write.complete

\* A query of the history is restored and not run until the user does, which is
\* what the tests of loadQuery say.  It does not always hold.
RestoredIsNotRun == restored => result = None /\ ~loading

\* What does run behind a restored query is the first catalog, which then
\* chooses, or the end of a write that was begun before: no query that was under
\* way, no listing and no answer of another kind.
RestoredIsLeftAlone ==
    [][~RestoredIsNotRun' => ~RestoredIsNotRun \/ FirstCatalog \/ Written]_vars

=============================================================================
