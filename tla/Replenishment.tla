--------------------------- MODULE Replenishment ---------------------------
(***************************************************************************)
(* The list of levels that are low, the most urgent first, and which other *)
(* warehouses could fill them up.  A page takes two queries, the levels    *)
(* and then their donors, and stock and policies change at any time.       *)
(*                                                                         *)
(* The levels are those of one product, one in every warehouse; those of   *)
(* other products neither give nor take.  A number is a level, and its     *)
(* place in the order of ids.  A level without a policy, of an inactive    *)
(* product or in an inactive warehouse is on neither side: it has None.    *)
(***************************************************************************)
EXTENDS Integers, Sequences, FiniteSets, SequencesExt, FiniteSetsExt

CONSTANTS
    Shelves,            \* the levels
    ShelfCode,          \* the order of their warehouses' codes
    Free,               \* what may be available of a level; below 0: oversold
    PolicyInputs,       \* policies that are asked for
    PageRows,           \* the limit every request asks for
    DonorLimit,         \* replenishmentDonorLimit
    CandidateBudget,    \* replenishmentDonorCandidateBudget
    MaxChanges,         \* bound on the changes of stock and policies
    None                \* no policy; no cursor

ASSUME ReplenishmentAssumption ==
    /\ IsFiniteSet(Shelves) /\ Shelves \subseteq Nat /\ Free \subseteq Int
    /\ ShelfCode \in [Shelves -> Nat]
    /\ \A s, t \in Shelves : ShelfCode[s] = ShelfCode[t] => s = t
    /\ PolicyInputs \subseteq [reorder: Int, target: Int] \cup {None}
    /\ PageRows \in Nat \ {0} /\ DonorLimit \in Nat /\ CandidateBudget \in Nat
    /\ MaxChanges \in Nat
    /\ None \notin [reorder: Int, target: Int] \cup ({0, 1} \X Int \X Shelves)

VARIABLES
    free,       \* effective_available
    policy,     \* reorder_point and target_stock_level
    changes,    \* how often one of them has changed
    reader,     \* between pages, between the queries of one, or at an end
    after,      \* the cursor of the next page
    found,      \* what the first query of a page gave, and the next cursor
    listed,     \* what the pages have shown
    advice,     \* the recommendations of the last page
    untouched   \* ghost: the levels that have not changed since the first page

shelfVars  == <<free, policy, changes, untouched>>
readerVars == <<reader, after, found, listed, advice>>

validReplenishmentPolicy(p) == p # None => 0 <= p.reorder /\ p.reorder <= p.target

-----------------------------------------------------------------------------
Low == {s \in Shelves : policy[s] # None /\ free[s] <= policy[s].reorder}

Urgency(s) == <<IF free[s] <= 0 THEN 0 ELSE 1, free[s], s>>

Precedes(k, l) == \E i \in 1..3 : k[i] < l[i] /\ \A j \in 1..(i - 1) : k[j] = l[j]

(* ORDER BY: in place n comes the row that n - 1 others precede.           *)
ByUrgency(rows) ==
    [n \in 1..Cardinality(rows) |->
        CHOOSE s \in rows :
            Cardinality({t \in rows : Precedes(Urgency(t), Urgency(s))}) = n - 1]

LowAfter(cursor) ==
    ByUrgency({s \in Low : cursor = None \/ Precedes(cursor, Urgency(s))})

(* Faulty: the cursor is the extra row.                                    *)
FirstRowsSkippingOne(cursor) ==
    LET hits == LowAfter(cursor)
        page  == SubSeq(hits, 1, Min({PageRows, Len(hits)}))
    IN  [rows |-> [i \in DOMAIN page |-> [shelf |-> page[i], free |-> free[page[i]],
                                          target |-> policy[page[i]].target]],
         next |-> IF Len(hits) > PageRows THEN Urgency(hits[PageRows + 1]) ELSE None]

(* The first query: one row more than asked for tells if there is more.    *)
FirstRows(cursor) ==
    LET hits == LowAfter(cursor)
        page  == SubSeq(hits, 1, Min({PageRows, Len(hits)}))
    IN  [rows |-> [i \in DOMAIN page |-> [shelf |-> page[i], free |-> free[page[i]],
                                          target |-> policy[page[i]].target]],
         next |-> IF Len(hits) > PageRows THEN Urgency(hits[PageRows]) ELSE None]

(* decodeLowStockCursor                                                    *)
Decodes(cursor) == cursor # None => cursor[2] >= 0

-----------------------------------------------------------------------------
(* The second query: of the levels elsewhere that have a policy, the first *)
(* few by warehouse are looked at.                                         *)
Preselected(t) ==
    LET others == {s \in Shelves \ {t} : policy[s] # None}
    IN  {d \in others : Cardinality({s \in others : s < d}) < CandidateBudget}

Transferable(d) == free[d] - policy[d].reorder

Qualifying(t) == {d \in Preselected(t) : Transferable(d) > 0}

(* Faulty: the donors with the most stock come first.                      *)
RankedByStock(t) ==
    SetToSortSeq(Qualifying(t), LAMBDA d, e :
        free[d] > free[e] \/ (free[d] = free[e] /\ ShelfCode[d] < ShelfCode[e]))

Ranked(t) ==
    SetToSortSeq(Qualifying(t), LAMBDA d, e :
        \/ Transferable(d) > Transferable(e)
        \/ Transferable(d) = Transferable(e) /\ ShelfCode[d] < ShelfCode[e])

(* One more than the limit is kept, which tells that some were left out.   *)
Donors(t) == SubSeq(Ranked(t), 1, Min({DonorLimit + 1, Len(Ranked(t))}))

(* One round of the loop over the donors, while something is needed.       *)
TakeFrom(plan, d) ==
    LET quantity == Min({Transferable(d), plan.unfulfilled})
    IN  IF plan.unfulfilled = 0 THEN plan
        ELSE [plan EXCEPT !.given = Append(@, [donor |-> d, quantity |-> quantity]),
                          !.unfulfilled = @ - quantity]

(* applyRecommendations, for one level.                                    *)
Recommended(row) ==
    LET donors == Donors(row.shelf)
        need   == row.target - row.free
        plan   == [shelf |-> row.shelf, need |-> need, given |-> <<>>, unfulfilled |-> need,
                   truncated |-> need > 0 /\ Len(donors) > DonorLimit]
    IN  IF need <= 0 THEN [plan EXCEPT !.unfulfilled = 0]
        ELSE FoldLeft(TakeFrom, plan, SubSeq(donors, 1, Min({DonorLimit, Len(donors)})))

-----------------------------------------------------------------------------
(* A sale, a delivery, a reservation or its end.                           *)
Change(s, n) ==
    /\ changes < MaxChanges /\ n # free[s]
    /\ free' = [free EXCEPT ![s] = n]
    /\ changes' = changes + 1 /\ untouched' = untouched \ {s}
    /\ UNCHANGED <<policy, readerVars>>

UpdateReplenishmentPolicy(s, p) ==
    /\ changes < MaxChanges /\ p # policy[s]
    /\ validReplenishmentPolicy(p)
    /\ policy' = [policy EXCEPT ![s] = p]
    /\ changes' = changes + 1 /\ untouched' = untouched \ {s}
    /\ UNCHANGED <<free, readerVars>>

(* LowStockPage of the service decodes the cursor and reads the levels.    *)
ReadItems ==
    /\ reader = "ready"
    /\ IF Decodes(after)
       THEN reader' = "items" /\ found' = FirstRows(after)
       ELSE reader' = "refused" /\ UNCHANGED found
    /\ UNCHANGED <<shelfVars, after, listed, advice>>

(* Then their donors; together they are the page.                          *)
ReadDonors ==
    /\ reader = "items"
    /\ advice' = {Recommended(found.rows[i]) : i \in DOMAIN found.rows}
    /\ listed' = listed \o found.rows
    /\ after' = found.next
    /\ reader' = IF found.next = None THEN "done" ELSE "ready"
    /\ UNCHANGED <<shelfVars, found>>

(* A query fails, or the page is lost on its way; it is asked for again.   *)
PageLost ==
    /\ reader = "items"
    /\ reader' = "ready"
    /\ UNCHANGED <<shelfVars, after, found, listed, advice>>

ReplenishmentInit ==
    /\ free \in [Shelves -> Free]
    /\ policy \in [Shelves -> {p \in PolicyInputs : validReplenishmentPolicy(p)}]
    /\ changes = 0 /\ untouched = Shelves
    /\ reader = "ready" /\ after = None /\ found = None
    /\ listed = <<>> /\ advice = {}

ReplenishmentNext ==
    \/ \E s \in Shelves : \/ \E n \in Free : Change(s, n)
                          \/ \E p \in PolicyInputs : UpdateReplenishmentPolicy(s, p)
    \/ ReadItems \/ ReadDonors \/ PageLost

ReplenishmentSpec ==
    ReplenishmentInit /\ [][ReplenishmentNext]_<<shelfVars, readerVars>>
-----------------------------------------------------------------------------
Sum(D) == MapThenSumSet(Transferable, D)

(* The recommendation is the best there is: no choice of as many donors    *)
(* among those looked at would move more, no donor falls below its reorder *)
(* point, and what is missing is said.  The code gets there by sorting     *)
(* and taking one after another, from donors read after the level.         *)
BestAdvice ==
    [][reader = "items" /\ reader' \in {"ready", "done"} /\ listed' # listed =>
       \A a \in advice' :
          LET choices == {D \in SUBSET Qualifying(a.shelf) : Cardinality(D) <= DonorLimit}
              most    == Max({Sum(D) : D \in choices})
          IN  /\ a.need - a.unfulfilled = Min({a.need, most})
              /\ a.need - a.unfulfilled =
                    FoldLeft(LAMBDA n, g : n + g.quantity, 0, a.given)
              /\ \A i \in DOMAIN a.given :
                    /\ a.given[i].quantity \in 1..Transferable(a.given[i].donor)
                    /\ \A j \in DOMAIN a.given : a.given[i].donor = a.given[j].donor => i = j
              /\ ~a.truncated => Min({a.need, most}) = Min({a.need, Sum(Qualifying(a.shelf))})
      ]_<<shelfVars, readerVars>>

(* TestLowStockPageTraversesAllRows, with changes between the pages: the   *)
(* list shows each level that is low and has not changed, once.  It may    *)
(* end early only after showing an oversold level, whose cursor            *)
(* decodeLowStockCursor does not take back.                                *)
ListsEveryLow ==
    \/ reader = "done"
    \/ reader = "refused" /\ \A i \in DOMAIN listed : listed[i].free >= 0
    => \A s \in untouched :
          Cardinality({i \in DOMAIN listed : listed[i].shelf = s}) = IF s \in Low THEN 1 ELSE 0
=============================================================================
