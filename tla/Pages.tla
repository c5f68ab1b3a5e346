------------------------------- MODULE Pages -------------------------------
(***************************************************************************)
(* Paging through a list that changes (cursor.go; List of tasks, assets,   *)
(* users and ledger entries, ListProjects): rows are ordered by a time and *)
(* then an id, newest first; a page is the first rows after the cursor,    *)
(* and the cursor of the next page names the last row shown.  A row        *)
(* appears with the time its request took, perhaps a little late; it may   *)
(* be hidden (dismissed, deleted, out of the status filter); and in the    *)
(* list of projects an edit gives it the time of the edit (touch).         *)
(***************************************************************************)
EXTENDS Integers, FiniteSets

CONSTANTS
    MaxRow,         \* bound: ids, in their order
    Limit,          \* rows on a page, after clampLimit
    MaxTime         \* bound: milliseconds

ASSUME PagesAssumption == MaxRow \in Nat /\ Limit \in Nat \ {0} /\ MaxTime \in Nat

VARIABLES
    at,         \* at[i]: the time of row i; 0: there is no such row
    hidden,     \* rows the filter leaves out
    now,        \* the clock
    walk,       \* the walk of one client: the cursor, and whether it is on its way
    shown,      \* shown[i]: how many pages have shown row i
    expected    \* history: rows the first page could have shown, neither hidden nor touched since

pagesVars == <<at, hidden, now, walk, shown, expected>>

Ids == 1 .. MaxRow

\* encodeCursor's answer for "no cursor"; decodeCursor takes anything it cannot read for it.
Start == [at |-> MaxTime + 1, id |-> 0]

PagesInit ==
    /\ at = [i \in Ids |-> 0]
    /\ hidden = {}
    /\ now = 1
    /\ walk = [pc |-> "idle", cursor |-> Start]
    /\ shown = [i \in Ids |-> 0]
    /\ expected = {}

Listed == {i \in Ids : at[i] > 0 /\ i \notin hidden}

\* ORDER BY at DESC, id DESC.
Before(i, j) == at[i] > at[j] \/ (at[i] = at[j] /\ i > j)

\* A mutant: the time alone.
AfterTime(cursor) == {i \in Listed : at[i] < cursor.at}

\* at < cursor.at OR (at = cursor.at AND id < cursor.id).
After(cursor) == {i \in Listed : at[i] < cursor.at \/ (at[i] = cursor.at /\ i < cursor.id)}

\* LIMIT limit + 1, of which pageSlice keeps limit.
Page(rows) == {i \in rows : Cardinality({j \in rows : Before(j, i)}) < Limit}

HasMore(rows) == Cardinality(rows) > Limit

LastOf(page) == CHOOSE i \in page : \A j \in page \ {i} : Before(j, i)

----------------------------------------------------------------------------

Insert(i) ==
    /\ at[i] = 0
    /\ \E t \in {now, now - 1} \ {0} : at' = [at EXCEPT ![i] = t]
    /\ UNCHANGED <<hidden, now, walk, shown, expected>>

\* Dismiss, Delete, or a status that the filter does not ask for.
Hide(i) ==
    /\ i \in Listed
    /\ hidden' = hidden \cup {i}
    /\ expected' = expected \ {i}
    /\ UNCHANGED <<at, now, walk, shown>>

\* The status comes back into the filter (a task that is queued again).
Reveal(i) ==
    /\ i \in hidden
    /\ hidden' = hidden \ {i}
    /\ UNCHANGED <<at, now, walk, shown, expected>>

\* ON UPDATE CURRENT_TIMESTAMP(3): only projects are ordered by it.
Touch(i) ==
    /\ at[i] > 0 /\ at[i] < now
    /\ at' = [at EXCEPT ![i] = now]
    /\ expected' = expected \ {i}
    /\ UNCHANGED <<hidden, now, walk, shown>>

Elapse ==
    /\ now < MaxTime
    /\ now' = now + 1
    /\ UNCHANGED <<at, hidden, walk, shown, expected>>

\* One request: the rows after the cursor, in one statement.
Fetch ==
    /\ walk.pc \in {"idle", "walking"}
    /\ LET rows == After(walk.cursor)
           page == Page(rows)
       IN  /\ shown' = [i \in Ids |-> shown[i] + IF i \in page THEN 1 ELSE 0]
           /\ walk' = IF HasMore(rows)
                      THEN [pc |-> "walking", cursor |-> [at |-> at[LastOf(page)], id |-> LastOf(page)]]
                      ELSE [pc |-> "done", cursor |-> Start]
           /\ expected' = IF walk.pc = "idle" THEN rows ELSE expected
    /\ UNCHANGED <<at, hidden, now>>

\* The client starts from the top again.
Again ==
    /\ walk.pc = "done"
    /\ walk' = [walk EXCEPT !.pc = "idle"]
    /\ shown' = [i \in Ids |-> 0]
    /\ expected' = {}
    /\ UNCHANGED <<at, hidden, now>>

PagesNext ==
    \/ \E i \in Ids : Insert(i) \/ Hide(i) \/ Reveal(i) \/ Touch(i)
    \/ Elapse \/ Fetch \/ Again

PagesSpec == PagesInit /\ [][PagesNext]_pagesVars

----------------------------------------------------------------------------
(* Properties.                                                             *)

\* A walk shows no row twice, and, when it is over, every row that was in the
\* list at its first page and was neither hidden nor touched on the way; whatever
\* is inserted, hidden or moved to the top between two pages (cursor.go).
PagesComplete ==
    /\ \A i \in Ids : shown[i] <= 1
    /\ walk.pc = "done" => \A i \in expected : shown[i] = 1
=============================================================================
