----------------------------- MODULE PagedList ------------------------------
(***************************************************************************)
(* A list that is read page by page, from the query to the screen: the     *)
(* transfers of an organization, newest first, in a view that can switch   *)
(* the organization or the status filter while requests are under way.     *)
(* Rows are numbered by (created_at, id); as created_at is the start of a  *)
(* transaction, they become visible in any order.                          *)
(***************************************************************************)
EXTENDS Naturals, Sequences, FiniteSets, FiniteSetsExt

CONSTANTS
    MaxRows,        \* the rows, numbered by age
    Tenant,         \* the organization of every row
    RowStatuses,    \* what a row's status can be, ...
    Moves,          \* ... and how it can change
    PageSize,       \* the limit every request asks for
    MaxSwitches,    \* bound on the generations of the view
    Absent          \* a row not committed yet; no cursor; no answer yet

Rows    == 1..MaxRows
Tenants == {Tenant[r] : r \in Rows}
Filters == RowStatuses \cup {"all"}

ASSUME PagedAssumption ==
    /\ MaxRows \in Nat /\ PageSize \in Nat \ {0} /\ MaxSwitches \in Nat
    /\ Moves \subseteq RowStatuses \X RowStatuses
    /\ "all" \notin RowStatuses
    /\ Absent \notin RowStatuses \cup [org: Tenants, row: Rows]

VARIABLES
    stored,      \* what the database holds: a row's status, or Absent
    scope,       \* the view's organization and filter
    generation,  \* generation.current
    requests,    \* the list requests that are not answered
    screen,      \* state: "loading", "ready" or "error"
    shown,       \* the transfers shown, with the status they came with
    cursor,      \* nextCursor, or Absent
    hasMore,
    loadingMore, \* loadingMoreRef
    steady       \* ghost: the rows in scope ever since the first page was read

pagedVars == <<stored, scope, generation, requests, screen, shown, cursor,
               hasMore, loadingMore, steady>>
listVars == <<screen, shown, cursor, hasMore, loadingMore>>

Scopes  == [org: Tenants, filter: Filters]
Cursors == [org: Tenants, row: Rows]
Listed  == [row: Rows, status: RowStatuses]
Pages   == [items: Seq(Listed), next: Cursors \cup {Absent}]

PagedTypeOK ==
    /\ stored \in [Rows -> RowStatuses \cup {Absent}]
    /\ scope \in Scopes /\ generation \in 1..(MaxSwitches + 1)
    /\ requests \subseteq [generation: 1..generation, append: BOOLEAN, scope: Scopes,
                           cursor: Cursors \cup {Absent}, page: Pages \cup {Absent}]
    /\ screen \in {"loading", "ready", "error"}
    /\ shown \in Seq(Listed) /\ cursor \in Cursors \cup {Absent}
    /\ hasMore \in BOOLEAN /\ loadingMore \in BOOLEAN
    /\ steady \subseteq Rows

InScope(r, s) ==
    /\ Tenant[r] = s.org /\ stored[r] # Absent
    /\ s.filter \in {"all", stored[r]}

Ask(append, s, after, g) ==
    [generation |-> g, append |-> append, scope |-> s, cursor |-> after, page |-> Absent]

-----------------------------------------------------------------------------
(* The database: a transfer is committed, or changes its status.           *)
Commit(r, st) ==
    /\ stored[r] = Absent
    /\ stored' = [stored EXCEPT ![r] = st]
    /\ UNCHANGED <<scope, generation, requests, steady, listVars>>

Move(r, st) ==
    /\ <<stored[r], st>> \in Moves
    /\ stored' = [stored EXCEPT ![r] = st]
    /\ steady' = IF scope.filter = "all" THEN steady ELSE steady \ {r}
    /\ UNCHANGED <<scope, generation, requests, listVars>>

(* The n-th of the numbers S, the least first.                             *)
Nth(S, n) == CHOOSE i \in S : Cardinality({j \in S : j <= i}) = n

(* The rows of a scope that follow a cursor, newest first.                 *)
Following(s, after) ==
    LET rows == {r \in Rows : InScope(r, s) /\ (after # Absent => r < after.row)}
    IN  [i \in 1..Cardinality(rows) |-> Nth(rows, Cardinality(rows) + 1 - i)]

Cut(s, found, last) ==
    [items |-> [i \in 1..Min({PageSize, Len(found)}) |->
                   [row |-> found[i], status |-> stored[found[i]]]],
     next  |-> IF Len(found) > PageSize THEN [org |-> s.org, row |-> found[last]] ELSE Absent]

(* Faulty: the cursor is the extra row, which the page does not have.      *)
ListPageSkipsOne(s, after) ==
    LET found == Following(s, after) IN Cut(s, found, PageSize + 1)

(* ListPage: one row more than asked for is read, to know if there is      *)
(* more; the cursor is the last row of the page.                           *)
ListPage(s, after) ==
    LET found == Following(s, after) IN Cut(s, found, PageSize)

(* DecodeCursor: a cursor is good for its own organization only.           *)
Accepted(q) == q.cursor # Absent => q.cursor.org = q.scope.org

Serve(q) ==
    /\ q.page = Absent /\ Accepted(q)
    /\ requests' = (requests \ {q}) \cup {[q EXCEPT !.page = ListPage(q.scope, q.cursor)]}
    /\ steady' = IF q.generation = generation /\ ~q.append
                 THEN {r \in Rows : InScope(r, q.scope)} ELSE steady
    /\ UNCHANGED <<stored, scope, generation, listVars>>

-----------------------------------------------------------------------------
(* load("", false, g): the view is emptied and the first page asked for.   *)
LoadFirst(s, g) ==
    /\ requests' = requests \cup {Ask(FALSE, s, Absent, g)}
    /\ screen' = "loading" /\ shown' = <<>> /\ cursor' = Absent /\ hasMore' = FALSE

(* Faulty: the page that was under way still counts as loading.            *)
SwitchStillLoading(s) ==
    /\ s # scope /\ generation <= MaxSwitches
    /\ scope' = s /\ generation' = generation + 1 /\ steady' = {}
    /\ LoadFirst(s, generation + 1)
    /\ UNCHANGED <<stored, loadingMore>>

(* The effect of a new organization or filter.  Its load is a microtask:   *)
(* no click and no answer comes between.                                   *)
Switch(s) ==
    /\ s # scope /\ generation <= MaxSwitches
    /\ scope' = s /\ generation' = generation + 1 /\ steady' = {}
    /\ loadingMore' = FALSE
    /\ LoadFirst(s, generation + 1)
    /\ UNCHANGED stored

Retry ==
    /\ screen = "error"
    /\ LoadFirst(scope, generation)
    /\ UNCHANGED <<stored, scope, generation, loadingMore, steady>>

LoadMore ==
    /\ screen = "ready" /\ hasMore /\ ~loadingMore /\ cursor # Absent
    /\ loadingMore' = TRUE
    /\ requests' = requests \cup {Ask(TRUE, scope, cursor, generation)}
    /\ UNCHANGED <<stored, scope, generation, screen, shown, cursor, hasMore, steady>>

(* appendUnique: the items that are not there already, in their order.     *)
Appended(old, more) ==
    LET new == {i \in DOMAIN more : \A j \in DOMAIN old : old[j].row # more[i].row}
    IN  old \o [n \in 1..Cardinality(new) |-> more[Nth(new, n)]]

Shows(q) ==
    /\ shown' = IF q.append THEN Appended(shown, q.page.items) ELSE q.page.items
    /\ cursor' = q.page.next /\ hasMore' = (q.page.next # Absent)
    /\ screen' = "ready" /\ loadingMore' = FALSE

(* Faulty: an answer is shown, whatever the view has become.               *)
ShowPageUnguarded(q) ==
    /\ q.page # Absent
    /\ requests' = requests \ {q}
    /\ Shows(q)
    /\ UNCHANGED <<stored, scope, generation, steady>>

(* An answer counts only in its own generation.                            *)
ShowPage(q) ==
    /\ q.page # Absent
    /\ requests' = requests \ {q}
    /\ IF q.generation = generation THEN Shows(q) ELSE UNCHANGED listVars
    /\ UNCHANGED <<stored, scope, generation, steady>>

(* The request is refused or fails, or its answer is lost.                 *)
Fail(q) ==
    /\ requests' = requests \ {q}
    /\ IF q.generation = generation
       THEN /\ screen' = IF q.append THEN "ready" ELSE "error"
            /\ loadingMore' = FALSE
            /\ UNCHANGED <<shown, cursor, hasMore>>
       ELSE UNCHANGED listVars
    /\ UNCHANGED <<stored, scope, generation, steady>>

-----------------------------------------------------------------------------
PagedInit ==
    /\ stored = [r \in Rows |-> Absent]
    /\ scope \in Scopes /\ generation = 1
    /\ requests = {Ask(FALSE, scope, Absent, 1)}
    /\ screen = "loading" /\ shown = <<>> /\ cursor = Absent
    /\ hasMore = FALSE /\ loadingMore = FALSE
    /\ steady = {}

PagedNext ==
    \/ \E r \in Rows, st \in RowStatuses : Commit(r, st) \/ Move(r, st)
    \/ \E s \in Scopes : Switch(s)
    \/ Retry
    \/ LoadMore
    \/ \E q \in requests : Serve(q) \/ ShowPage(q) \/ Fail(q)

PagedSpec == PagedInit /\ [][PagedNext]_pagedVars
-----------------------------------------------------------------------------
(* Whatever was asked before and is answered late: the view shows only     *)
(* transfers of its organization that came with the status asked for,      *)
(* newest first and none twice ("stale-response handling",                 *)
(* docs/deployment-plan.md:42).                                            *)
ShowsItsScope ==
    /\ \A i \in DOMAIN shown :
          Tenant[shown[i].row] = scope.org /\ scope.filter \in {"all", shown[i].status}
    /\ \A i, j \in DOMAIN shown : i < j => shown[i].row > shown[j].row

(* No gaps: a transfer that was there when the first page was read, and    *)
(* still is, is shown if the list has come as far, or has no more pages;   *)
(* commits, status changes and failed pages in between do not hide it.     *)
NothingSkipped ==
    screen = "ready" =>
        \A r \in steady :
            (cursor = Absent \/ r >= cursor.row) => \E i \in DOMAIN shown : shown[i].row = r

(* A view that waits has an unanswered request of its own generation: a    *)
(* switch or a failure never leaves it loading for good.                   *)
WaitsForAnAnswer ==
    /\ screen = "loading" => \E q \in requests : q.generation = generation /\ ~q.append
    /\ loadingMore => \E q \in requests : q.generation = generation /\ q.append
=============================================================================
