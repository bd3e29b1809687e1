------------------------------ MODULE IndexPage ------------------------------
(***************************************************************************)
(* The start page of hiveview (cmd/hiveview/assets/lib/app-index.js): a    *)
(* table of all test suite runs with four column filters, and boxes that   *)
(* group the runs by suite or by client.                                   *)
(*                                                                         *)
(* A filter is kept in five places: the URL hash (for reloads, bookmarks   *)
(* and Back), its <select>, the search of its column in the DataTable, the *)
(* object of class ColumnFilter, and the rows last drawn.  The client      *)
(* filter has no column search: it is a function that is in the list of    *)
(* custom searches of DataTables for the length of one draw.  The boxes    *)
(* make a ColumnFilterSet of their own at every click.                     *)
(*                                                                         *)
(* A value of a filter is a set of names: {} for "Show all", the clients   *)
(* of a combination, else a singleton.  Which page of the table is on the  *)
(* screen, the order of its rows and the highlighting of boxes are left    *)
(* out.  Handlers run to completion: each is one action.                   *)
(***************************************************************************)
EXTENDS Naturals, FiniteSets, Sequences, SequencesExt

CONSTANTS
  Listing,    \* the runs in listing.jsonl: records with the fields name, clients,
              \* status, days (options of the date filter whose date occurs in the
              \* text of its start time) and hits (queries its text matches)
  Menu,       \* filter -> the options tried by the user, of the fixed menus
  Queries,    \* texts typed in the search field
  Extends,    \* the pairs of texts, the empty one too, of which the second begins
              \* with the first
  Bookmarks   \* the URL hashes the page may first be opened with

NoQuery == ""
NotAnOption == {NoQuery}    \* a <select> given a value that is none of its options
ColKeys == {"daysago", "suite", "status"}
Keys == ColKeys \cup {"client"}
Groups == {"suite", "client"}
Sorts == {"name", "coverage", "time"}

\* A row that has a text has every text it begins with.
ASSUME ListingAssumption ==
  \A r \in Listing : \A e \in Extends : e[2] \in r.hits => e[1] \in r.hits \cup {NoQuery}

VARIABLES
  index,      \* "shown", or "absent": another page is in the tab
  table,      \* the DataTable: its column searches, search field and shown rows
  url,        \* the hash: value and order of the filters, "group-by", "summary-sort"
  values,     \* the _value of each filter of the page's own ColumnFilterSet
  notice,     \* is "Filters active" on the screen?
  selects,    \* filter -> value of its <select>
  boxes       \* how the boxes are grouped and sorted, and the sort they state

indexVars == <<index, table, url, values, notice, selects, boxes>>

NoFilters == [k \in Keys |-> {}]

\* The options of a filter's <select>.
Options(k) ==
  CASE k = "suite" -> {{r.name} : r \in Listing}
    [] k = "client" -> {{c} : c \in UNION {r.clients : r \in Listing}}
                         \cup {r.clients : r \in Listing}
    [] OTHER -> Menu[k]

\* The values of filters, and the URLs.
Value == (UNION {Options(k) \cup {u.value[k] : u \in Bookmarks} : k \in Keys})
           \cup {{}, NotAnOption}
Url == [value: [Keys -> Value], order: Seq(Keys), group: Groups, sort: Sorts]
ASSUME BookmarksAssumption ==
  \A u \in Bookmarks : u \in Url /\ \A k \in Keys : u.value[k] # {} => k \in ToSet(u.order)

\* Does a row satisfy a filter?  valueToRegExp; the function in ClientFilter.apply.
Matches(k, v, r) ==
  \/ v = {}
  \/ k = "suite" /\ v = {r.name}
  \/ k = "status" /\ v = {r.status}
  \/ k = "daysago" /\ v \subseteq r.days
  \/ k = "client" /\ IF Cardinality(v) = 1 THEN v \subseteq r.clients ELSE v = r.clients

-----------------------------------------------------------------------------
(* DataTables                                                               *)

\* The global and the column searches, over the rows of base.
Searched(base, cols, q) ==
  {r \in base : /\ q \in r.hits \cup {NoQuery}
                /\ \A k \in ColKeys : Matches(k, cols[k], r)}

\* draw(): the rows are sorted and searched anew.
Draw(t) == [t EXCEPT !.shown = Searched(Listing, t.cols, t.search)]

\* draw() while a custom search is set.
DrawClient_Alone(t, v) == [t EXCEPT !.shown = {r \in Listing : Matches("client", v, r)}]
DrawClient(t, v) == [Draw(t) EXCEPT !.shown = {r \in @ : Matches("client", v, r)}]

\* A text that continues the previous one is searched for in the rows shown.
TypeQuery(t, q) ==
  [t EXCEPT !.search = q,
            !.shown = Searched(IF q # NoQuery /\ <<t.search, q>> \in Extends THEN @ ELSE Listing,
                               t.cols, q)]

-----------------------------------------------------------------------------
(* The filters                                                              *)

\* URLSearchParams.delete.
Without(s, k) ==
  LET w[i \in 0..Len(s)] ==
        IF i = 0 THEN <<>> ELSE IF s[i] = k THEN w[i - 1] ELSE Append(w[i - 1], s[i])
  IN w[Len(s)]

\* storeToURL: URLSearchParams.set keeps the place of a parameter that is there.
StoreToURL(u, k, v) ==
  [u EXCEPT !.value[k] = v,
            !.order = IF v = {} THEN Without(@, k)
                      ELSE IF u.value[k] # {} THEN @ ELSE Append(@, k)]

\* apply of a filter, in the set f of filters: a record of what a handler changes.
FilterRows(t, k, v) ==
  IF k = "client" THEN DrawClient(t, v) ELSE Draw([t EXCEPT !.cols[k] = v])
Apply_NoRedraw(f, k, v) ==
  [table |-> IF v = {} THEN f.table ELSE FilterRows(f.table, k, v),
   url |-> StoreToURL(f.url, k, v),
   values |-> [f.values EXCEPT ![k] = v],
   notice |-> v # {} \/ \E j \in Keys \ {k} : f.values[j] # {}]
Apply(f, k, v) ==
  [table |-> FilterRows(f.table, k, v),
   url |-> StoreToURL(f.url, k, v),
   values |-> [f.values EXCEPT ![k] = v],
   notice |-> v # {} \/ \E j \in Keys \ {k} : f.values[j] # {}]

\* The page's ColumnFilterSet, and a new one for the same table.
OwnSet == [table |-> table, url |-> url, values |-> values, notice |-> notice]
NewSet == [OwnSet EXCEPT !.values = NoFilters]

\* What handlers do to a filter set's surroundings.
Shows(f) ==
  index = "shown" /\ index' = index /\ table' = f.table /\ url' = f.url /\ notice' = f.notice

-----------------------------------------------------------------------------
(* The handlers                                                             *)

\* The user picks an option of a filter.
ChooseOption(k, v) ==
  LET f == Apply(OwnSet, k, v)
  IN /\ v # selects[k]
     /\ Shows(f) /\ values' = f.values
     /\ selects' = [selects EXCEPT ![k] = v]
     /\ UNCHANGED boxes

\* A click that sets one filter, then another: both in a new set of filters.
FilterBoth(j, v, k, w) ==
  /\ Shows(Apply(Apply(NewSet, j, v), k, w))
  /\ selects' = [selects EXCEPT ![j] = v, ![k] = w]
  /\ UNCHANGED <<values, boxes>>

\* filterSuite: a click on the title of a box, when grouped by suite.
FilterSuite_KeepsClient(s) ==
  /\ boxes.group = "suite"
  /\ Shows(Apply(NewSet, "suite", {s}))
  /\ selects' = [selects EXCEPT !["suite"] = {s}, !["client"] = {}]
  /\ UNCHANGED <<values, boxes>>
FilterSuite(s) == boxes.group = "suite" /\ FilterBoth("suite", {s}, "client", {})

\* filterClient: the same, when grouped by client.
FilterClient(c) == boxes.group = "client" /\ FilterBoth("client", {c}, "suite", {})

\* filterSuiteAndClient: a run's box, by mouse or arrow keys, or a row's funnel button.
FilterSuiteAndClient(s, cs) ==
  /\ \/ \E r \in Listing : /\ r.name = s
                           /\ IF boxes.group = "suite" THEN cs = r.clients
                                                       ELSE \E c \in r.clients : cs = {c}
     \/ \E r \in table.shown : r.name = s /\ r.clients = cs
  /\ FilterBoth("suite", {s}, "client", cs)

\* The "Clear Filters" button or Escape: clear of the page's own set.
FilterOrder == <<"daysago", "suite", "client", "status">>
ApplyAll(f, value, order) ==
  LET g[i \in 0..Len(order)] ==
        IF i = 0 THEN f ELSE Apply(g[i - 1], order[i], value[order[i]])
  IN g[Len(order)]
Cleared_OwnActive == ApplyAll(OwnSet, NoFilters,
                              SelectSeq(FilterOrder, LAMBDA k : values[k] # {}))
Cleared == ApplyAll(OwnSet, NoFilters, FilterOrder)
Clear ==
  /\ Shows(Cleared) /\ values' = Cleared.values
  /\ selects' = NoFilters
  /\ UNCHANGED boxes

\* The search field and the column heads of the table.
Search(q) ==
  /\ q # table.search
  /\ Shows([OwnSet EXCEPT !.table = TypeQuery(table, q)]) /\ UNCHANGED <<values, selects, boxes>>
SortRows ==
  /\ Shows([OwnSet EXCEPT !.table = Draw(table)]) /\ UNCHANGED <<values, selects, boxes>>

\* sortAllClients; all boxes in a client's group have the same client, so sorting
\* them by it leaves them as they are.
Sorted(b, by) == [b EXCEPT !.stated = by,
                           !.sort = IF by = "name" /\ b.group = "client" THEN @ ELSE by]
SortBoxes(by) ==
  /\ boxes' = Sorted(boxes, by)
  /\ Shows([OwnSet EXCEPT !.url.sort = by])
  /\ UNCHANGED <<values, selects>>

\* toggleGrouping: displayGroups makes the boxes anew, sorted by name.
ToggleGrouping(g) ==
  /\ boxes' = [boxes EXCEPT !.group = g, !.sort = "name"]
  /\ Shows([OwnSet EXCEPT !.url.group = g])
  /\ UNCHANGED <<values, selects>>

-----------------------------------------------------------------------------
(* Loading the page                                                         *)

\* showFileListing and ColumnFilterSet.build: the boxes and the table are made, then
\* the filters in the URL are applied in their order there.
Loaded_NoGroup(u) ==
  LET f0 == [table |-> [cols |-> [k \in ColKeys |-> {}], search |-> NoQuery, shown |-> Listing],
             url |-> u, values |-> NoFilters, notice |-> FALSE]
      f == ApplyAll(f0, u.value, u.order)
  IN [table |-> f.table, url |-> f.url, values |-> f.values, notice |-> f.notice,
      selects |-> [k \in Keys |-> IF u.value[k] \in Options(k) \cup {{}}
                                THEN u.value[k] ELSE NotAnOption],
      boxes |-> Sorted([group |-> "suite", sort |-> "name", stated |-> "name"], u.sort)]
Loaded(u) ==
  LET f0 == [table |-> [cols |-> [k \in ColKeys |-> {}], search |-> NoQuery, shown |-> Listing],
             url |-> u, values |-> NoFilters, notice |-> FALSE]
      f == ApplyAll(f0, u.value, u.order)
  IN [table |-> f.table, url |-> f.url, values |-> f.values, notice |-> f.notice,
      selects |-> [k \in Keys |-> IF u.value[k] \in Options(k) \cup {{}}
                                THEN u.value[k] ELSE NotAnOption],
      boxes |-> Sorted([group |-> u.group, sort |-> "name", stated |-> "name"], u.sort)]

LoadIndex ==
  LET p == Loaded(url)
  IN /\ index' = "shown"
     /\ table' = p.table /\ url' = p.url /\ values' = p.values /\ notice' = p.notice
     /\ selects' = p.selects /\ boxes' = p.boxes

\* Only the URL outlives the page.
NoTable == [cols |-> [k \in ColKeys |-> {}], search |-> NoQuery, shown |-> {}]
NoBoxes == [group |-> "suite", sort |-> "name", stated |-> "name"]
LeaveIndex ==
  /\ index = "shown" /\ index' = "absent"
  /\ table' = NoTable /\ values' = NoFilters /\ notice' = FALSE
  /\ selects' = NoFilters /\ boxes' = NoBoxes
  /\ UNCHANGED url

IndexInit ==
  \E u \in Bookmarks :
    LET p == Loaded(u)
    IN /\ index = "shown"
       /\ table = p.table /\ url = p.url /\ values = p.values /\ notice = p.notice
       /\ selects = p.selects /\ boxes = p.boxes

IndexNext ==
  \/ \E k \in Keys : \E v \in Options(k) \cup {{}} : ChooseOption(k, v)
  \/ \E r \in Listing :
       \/ FilterSuite(r.name)
       \/ \E c \in r.clients :
            FilterClient(c) \/ \E cs \in {r.clients, {c}} : FilterSuiteAndClient(r.name, cs)
  \/ Clear
  \/ \E q \in Queries \cup {NoQuery} : Search(q)
  \/ SortRows
  \/ \E by \in Sorts : SortBoxes(by)
  \/ \E g \in Groups : ToggleGrouping(g)

-----------------------------------------------------------------------------
(* Properties                                                               *)

IndexTypeOK ==
  /\ index \in {"absent", "shown"}
  /\ table \in [cols: [ColKeys -> Value], search: Queries \cup {NoQuery}, shown: SUBSET Listing]
  /\ url \in Url /\ \A k \in Keys : url.value[k] # {} <=> k \in ToSet(url.order)
  /\ values \in [Keys -> Value] /\ selects \in [Keys -> Value] /\ notice \in BOOLEAN
  /\ boxes \in [group: Groups, sort: Sorts, stated: Sorts]

\* The URL and the <select>s state the same filters, whatever the order of choices,
\* clicks on boxes (with filter sets of their own), clearing and reloading: a link
\* that is passed on shows what its sender saw stated.
StatedFiltersAgree ==
  index = "shown" =>
    \A k \in Keys : url.value[k] \in Options(k) \cup {{}} => selects[k] = url.value[k]

\* The suite, date and status filters hold: a row is shown only if it satisfies what
\* the URL says of them, even though several filter sets write the column searches,
\* and it has the text searched for.
ColumnFiltersHold ==
  \A r \in table.shown :
    /\ \A k \in ColKeys : Matches(k, url.value[k], r)
    /\ table.search \in r.hits \cup {NoQuery}

\* No row is lost: one that satisfies every stated filter, client included, and the
\* search is shown.  (The search field may start from the rows of a client filter
\* that has meanwhile been taken back.)
NoMatchHidden ==
  index = "shown" =>
    \A r \in Listing :
      (\A k \in Keys : Matches(k, url.value[k], r)) /\ table.search \in r.hits \cup {NoQuery}
        => r \in table.shown

\* Clearing clears: no filter is stated any more, and only the search field limits
\* the rows, also if the filters were set by boxes.
ClearShowsAll ==
  [][Clear => /\ url'.value = NoFilters /\ url'.order = <<>> /\ ~notice'
              /\ table'.shown = {r \in Listing : table.search \in r.hits \cup {NoQuery}}]_indexVars

\* What a comment in the code says, and later draws undo.

\* "apply filters the table" (ColumnFilter): the rows shown have the stated client.
ClientFilterHolds == \A r \in table.shown : Matches("client", url.value["client"], r)
=============================================================================
