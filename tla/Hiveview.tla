------------------------------- MODULE Hiveview -------------------------------
(***************************************************************************)
(* The three pages of hiveview in one browser tab: the start page          *)
(* (IndexPage), the page of a suite run (SuitePage) and the log viewer     *)
(* (app-viewer.js).  A page keeps nothing but its URL when it is left:     *)
(* what the start page shows is in the hash of its URL, the selected test  *)
(* in the hash of the suite page, and the test a log belongs to in the     *)
(* "testid" of the viewer's URL, from which its "Back to test" link is     *)
(* made.  The browser's Back and Reload load a page anew from its URL.     *)
(* Every run has the same tests here, and the listing does not change.     *)
(***************************************************************************)
EXTENDS IndexPage, SuitePage

CONSTANT MaxTrail  \* bound on the pages the browser remembers
ASSUME TrailAssumption == MaxTrail \in Nat

VARIABLES
  viewed,   \* the viewer's test, or NoTest for the log of the simulator
  trail     \* the pages before this one, after the start page, with their tests

navVars == <<viewed, trail>>

AtViewer == index = "absent" /\ suite = "absent"
vars == <<indexVars, suiteVars, navVars>>

Entry == [page: {"suite", "viewer"}, test: Tests \cup {NoTest}]

-----------------------------------------------------------------------------
(* Leaving pages and following links                                        *)

\* routes.suite: the "Load" button of a row on the start page.
OpenSuite ==
  /\ table.shown # {}
  /\ LeaveIndex /\ OpenSuitePage(NoTest) /\ UNCHANGED navVars

\* routes.clientLog and testLog: a log of a test in the document, or
\* routes.simulatorLog: the log of the simulator, which has no test.
LogLinks == ToSet(InDocument(rows)) \cup {NoTest}
OpenLog(t) ==
  /\ suite = "shown" /\ t \in LogLinks
  /\ Len(trail) < MaxTrail
  /\ viewed' = t
  /\ trail' = Append(trail, [page |-> "suite", test |-> hash])
  /\ CloseSuitePage /\ UNCHANGED indexVars

\* showLinkBack: routes.testInSuite if the viewer has a test, else routes.suite.
LinkBack ==
  /\ AtViewer /\ Len(trail) < MaxTrail
  /\ viewed' = NoTest
  /\ trail' = Append(trail, [page |-> "viewer", test |-> viewed])
  /\ OpenSuitePage(viewed) /\ UNCHANGED indexVars

\* The browser's Back button.
Back ==
  \/ /\ suite # "absent" /\ trail = <<>>
     /\ LoadIndex /\ CloseSuitePage /\ UNCHANGED navVars
  \/ /\ trail # <<>>
     /\ LET e == Last(trail)
        IN IF e.page = "suite" THEN OpenSuitePage(e.test) /\ viewed' = NoTest
                               ELSE CloseSuitePage /\ viewed' = e.test
     /\ trail' = Front(trail) /\ UNCHANGED indexVars

\* The browser's Reload button.
Reload ==
  /\ UNCHANGED navVars
  /\ \/ index = "shown" /\ LoadIndex /\ UNCHANGED suiteVars
     \/ suite # "absent" /\ OpenSuitePage(hash) /\ UNCHANGED indexVars

-----------------------------------------------------------------------------

Init ==
  /\ IndexInit
  /\ suite = "absent" /\ rows = NoRows
  /\ open = {} /\ highlighted = {} /\ hash = NoTest
  /\ viewed = NoTest /\ trail = <<>>

Next ==
  \/ IndexNext /\ UNCHANGED <<suiteVars, navVars>>
  \/ SuiteNext /\ UNCHANGED <<indexVars, navVars>>
  \/ OpenSuite
  \/ \E t \in Tests \cup {NoTest} : OpenLog(t)
  \/ LinkBack
  \/ Back
  \/ Reload

Spec == Init /\ [][Next]_vars

-----------------------------------------------------------------------------
(* Properties                                                               *)

TypeOK ==
  /\ IndexTypeOK /\ SuiteTypeOK
  /\ viewed \in Tests \cup {NoTest}
  /\ trail \in BoundedSeq(Entry, MaxTrail)

\* A reload of the start page, from nothing but its URL, changes no filter, grouping
\* or sorting the reader chose; so does coming back to it, which loads the same URL.
ReloadKeepsView ==
  [][index = "shown" /\ Reload =>
       /\ selects' = selects /\ table'.cols = table.cols
       /\ boxes'.group = boxes.group /\ boxes'.stated = boxes.stated]_vars
=============================================================================
