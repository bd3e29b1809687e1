------------------------------ MODULE SuitePage ------------------------------
(***************************************************************************)
(* The page of one test suite run (cmd/hiveview/assets/lib/app-suite.js):  *)
(* a DataTable of its tests.  A click on a test shows its details under    *)
(* its row and selects it: the row is highlighted and the URL hash names   *)
(* the test, so that the URL can be passed on.                             *)
(*                                                                         *)
(* The selected test is not kept anywhere but in the hash and in the class *)
(* "highlighted" of rows.  The page looks for the selected row among the   *)
(* rows in the document, which are those of the table's current page and   *)
(* search, not all rows.  The contents of details are left out (TestLog    *)
(* models how the output is read), as are the rows' other columns.         *)
(***************************************************************************)
EXTENDS Naturals, Sequences, SequencesExt

CONSTANTS
  Tests,      \* the test case IDs of the suite
  Orders,     \* the orders in which the columns can sort the tests
  Finds,      \* what the texts typed in the search field find: sets of tests
  PageLength  \* rows on a page of the table; 100 in the code

\* The first test of a test manager is test 1 (libhive/testmanager.go).
ASSUME TestsAssumption == Tests \subseteq Nat \ {0}
ASSUME PageLengthAssumption == PageLength \in Nat \ {0}

NoTest == 0

VARIABLES
  suite,        \* "absent", "loading", "shown" or "failed"
  rows,         \* the DataTable: order, found and start (rows before its page)
  open,         \* tests with details (row.child.isShown)
  highlighted,  \* tests whose row has the class "highlighted"
  hash          \* the test in the URL hash "#test-N", or NoTest

suiteVars == <<suite, rows, open, highlighted, hash>>

-----------------------------------------------------------------------------
(* DataTables                                                               *)

Displayed(r) == SelectSeq(r.order, LAMBDA t : t \in r.found)
InDocument(r) ==
  LET d == Displayed(r)
  IN SubSeq(d, r.start + 1, IF r.start + PageLength < Len(d) THEN r.start + PageLength ELSE Len(d))

\* A new order, or a new search, begins at the first page; draw(false) does not.
SetOrder(r, o) == [r EXCEPT !.order = o, !.start = 0]
SetFound(r, f) == [r EXCEPT !.found = f, !.start = 0]
PageStarts(r) == {n \in 0..Len(Displayed(r)) - 1 : n % PageLength = 0}

-----------------------------------------------------------------------------
(* Selecting tests                                                          *)

Marks == [open |-> open, highlighted |-> highlighted, hash |-> hash]

\* deselectTest
Deselected(m, t, closeDetails) ==
  [open |-> IF closeDetails THEN m.open \ {t} ELSE m.open,
   highlighted |-> m.highlighted \ {t},
   hash |-> NoTest]

\* selectTest: rows of the document that are highlighted and have details; when
\* there is none, row(undefined) is the first row of the table's order.
SelectedRow(m, r) ==
  LET s == SelectSeq(InDocument(r), LAMBDA t : t \in m.open \cap m.highlighted)
  IN Head(s \o r.order)
Selected_ClosesOther(m, r, t) ==
  LET d == Deselected(m, SelectedRow(m, r), TRUE)
  IN [d EXCEPT !.open = @ \cup {t}, !.highlighted = @ \cup {t}, !.hash = t]
Selected(m, r, t) ==
  LET d == Deselected(m, SelectedRow(m, r), FALSE)
  IN [d EXCEPT !.highlighted = @ \cup {t}, !.hash = t]

\* toggleTestDetails
Toggled_KeepsMark(m, r, t) ==
  IF t \in m.open THEN [m EXCEPT !.open = @ \ {t}]
  ELSE Selected([m EXCEPT !.open = @ \cup {t}], r, t)
Toggled(m, r, t) ==
  IF t \notin m.open THEN Selected([m EXCEPT !.open = @ \cup {t}], r, t)
  ELSE IF t \notin m.highlighted THEN Selected(m, r, t)
  ELSE Deselected(m, t, TRUE)

Becomes(m) == open' = m.open /\ highlighted' = m.highlighted /\ hash' = m.hash

-----------------------------------------------------------------------------
(* The handlers                                                             *)

NoRows == [order |-> <<>>, found |-> {}, start |-> 0]
NoMarks(t) == [open |-> {}, highlighted |-> {}, hash |-> t]

\* The page is opened, or opened anew, with a test in its URL or without one.
OpenSuitePage(t) == suite' = "loading" /\ rows' = NoRows /\ Becomes(NoMarks(t))
CloseSuitePage == suite' = "absent" /\ rows' = NoRows /\ Becomes(NoMarks(NoTest))

\* scrollToTest compares the number of the table's page with itself, and so stays on
\* the first page, where the test's row need not be.
Scrolled(m, r) == IF m.hash \in Tests THEN Toggled(m, r, m.hash) ELSE m

\* The answer to the request for the suite file: showSuiteData, then scrollToTest.
SuiteLoaded_NoScroll(o) ==
  LET r == [order |-> o, found |-> Tests, start |-> 0]
  IN /\ suite = "loading" /\ suite' = "shown"
     /\ rows' = r
     /\ UNCHANGED <<open, highlighted, hash>>
SuiteLoaded(o) ==
  LET r == [order |-> o, found |-> Tests, start |-> 0]
  IN /\ suite = "loading" /\ suite' = "shown"
     /\ rows' = r
     /\ Becomes(Scrolled(Marks, r))

\* showError: the file is gone, or no suite file.
SuiteFailed ==
  /\ suite = "loading"
  /\ suite' = "failed"
  /\ UNCHANGED <<rows, open, highlighted, hash>>

\* A click on the name of a test.
ClickTest(t) ==
  /\ suite = "shown" /\ t \in ToSet(InDocument(rows))
  /\ Becomes(Toggled(Marks, rows, t))
  /\ UNCHANGED <<suite, rows>>

\* The controls of the table.
UseTable(r) ==
  /\ suite = "shown" /\ r # rows
  /\ rows' = r
  /\ UNCHANGED <<suite, open, highlighted, hash>>

SuiteNext ==
  \/ \E o \in Orders : SuiteLoaded(o)
  \/ SuiteFailed
  \/ \E t \in Tests : ClickTest(t)
  \/ \E o \in Orders : UseTable(SetOrder(rows, o))
  \/ \E f \in Finds : UseTable(SetFound(rows, f))
  \/ \E n \in PageStarts(rows) : UseTable([rows EXCEPT !.start = n])
-----------------------------------------------------------------------------
(* Properties                                                               *)

SuiteTypeOK ==
  /\ suite \in {"absent", "loading", "shown", "failed"}
  /\ rows \in [order: Orders \cup {<<>>}, found: Finds \cup {{}, Tests}, start: Nat]
  /\ open \subseteq Tests /\ highlighted \subseteq Tests
  /\ hash \in Nat

\* A test is highlighted only with its details, and the URL never names a test that
\* is closed or not highlighted: whoever is sent the URL gets a test its sender has
\* open.  Clicks change the marks of two rows, one of which they have to find.
HashNamesSelected ==
  suite = "shown" =>
    /\ highlighted \subseteq open
    /\ hash \in Tests => hash \in open \cap highlighted

\* A click opens or closes the details of no other test, and closes a test only if
\* the test was highlighted: what the reader has open stays open.
ClickKeepsDetails ==
  [][\A t \in Tests : ClickTest(t) =>
       /\ open' \ {t} = open \ {t}
       /\ t \in open \ highlighted => t \in open' /\ hash' = t]_suiteVars

\* When the file arrives, the test the URL names is open and still named.
LinkedTestOpened ==
  [][suite = "loading" /\ suite' = "shown" /\ hash \in Tests =>
       hash' = hash /\ open' = {hash} /\ highlighted' = {hash}]_suiteVars
=============================================================================
