------------------------- MODULE TestManagerProofs -------------------------
(***************************************************************************)
(* Theorems about TestManager, for every value of its constants.           *)
(***************************************************************************)
EXTENDS TestManager, TLAPS

-----------------------------------------------------------------------------
(* The inductive invariant.  Each part says what a goroutine may rely on   *)
(* between two of its critical sections.                                   *)

\* The stages a request can go to after requestTest, and those of Terminate.
ChecksTest == {"endTest", "create", "stop", "pause", "unpause", "inSuite"}
Terminating == {"suites", "tests", "endTest", "stopping", "waiting", "endSuite",
                "write", "move"}

\* What the arguments of a goroutine are worth at its stage.
Fits(x, a) ==
  /\ x = "test?" => a.next \in ChecksTest
  /\ x = "target" => a.entry = "nil"
  /\ x \in {"stopping", "waiting"} => a.test \in Tests
Control ==
  /\ at[Host] \in Terminating \cup {"idle", "terminate", "done"}
  /\ \A p \in Procs : Fits(at[p], arg[p])

\* Between CreateContainer and RegisterNode the container is known to nobody
\* else: it carries the label of the request's test and no test owns it.
Starting == {"connect", "join", "start", "version", "register"}
Private ==
  /\ \A p \in Procs :
       at[p] \in Starting =>
         LET n == arg[p].node
         IN /\ n \in Nodes
            /\ label[n] = arg[p].test
            /\ container[n] # "none"
            /\ \A t \in Tests : clientInfo[t][n] # "wait"
            /\ at[p] \in {"version", "register"} /\ arg[p].entry = "wait"
                 => container[n] \in {"running", "paused", "exited"}
  /\ \A p, q \in Procs :
       at[p] \in Starting /\ at[q] \in Starting /\ arg[p].node = arg[q].node => p = q

\* testCaseMutex is held by the goroutine that is in the middle of EndTest, or
\* between the check of StartTest and the addition of the test, and a verdict is recorded only for tests that have ended or are being ended.
Ending(p) == at[p] \in {"stopping", "waiting"}
Adding(p) == at[p] = "addTest"
CaseLock ==
  /\ \A p \in Procs : Ending(p) \/ Adding(p) <=> testCaseMutex = p
  /\ \A p \in Procs : Ending(p) => arg[p].test \in runningTestCases
  /\ \A t \in runningTestCases :
       summaryResult[t] # "none" => \E p \in Procs : Ending(p) /\ arg[p].test = t
  /\ \A t \in Tests : t > testCaseCounter => t \notin runningTestCases /\ summaryResult[t] = "none"

\* testSuiteMutex is held while a suite is being ended, and a suite's summary
\* file is there from the write to the end.
Writing(p) == at[p] \in {"write", "move"}
SuiteLock ==
  /\ at[Host] \in Terminating => testSuiteMutex = Host
  /\ \A p \in Procs :
       Writing(p) => testSuiteMutex = p /\ arg[p].suite \in runningTestSuites
  /\ \A p \in Procs : at[p] = "move" => summaryFiles[arg[p].suite] = 1
  /\ \A s \in runningTestSuites :
       summaryFiles[s] = 0 \/ \E p \in Procs : at[p] = "move" /\ arg[p].suite = s
  /\ \A s \in results : summaryFiles[s] = 1
  /\ runningTestSuites \cap results = {}
  /\ \A s \in Suites : s >= testSuiteCounter => s \notin runningTestSuites \cup results
  /\ \A s \in Suites \ (runningTestSuites \cup results) : summaryFiles[s] = 0

OwnerInv == TypeOK /\ Control /\ Private /\ EndedTestOwnsNothing /\ SingleOwner

-----------------------------------------------------------------------------
(* Type correctness                                                         *)

LEMMA StageType ==
  /\ "idle" \in Stage /\ "suite?" \in Stage /\ "test?" \in Stage /\ "startTest" \in Stage /\ "addTest" \in Stage
  /\ "endTest" \in Stage /\ "stopping" \in Stage /\ "waiting" \in Stage
  /\ "create" \in Stage /\ "connect" \in Stage /\ "join" \in Stage
  /\ "start" \in Stage
  /\ "version" \in Stage /\ "register" \in Stage
  /\ "stop" \in Stage /\ "pause" \in Stage /\ "unpause" \in Stage
  /\ "inSuite" \in Stage /\ "getNode" \in Stage /\ "target" \in Stage
  /\ "context" \in Stage /\ "endSuite" \in Stage /\ "write" \in Stage
  /\ "move" \in Stage /\ "terminate" \in Stage /\ "suites" \in Stage
  /\ "tests" \in Stage /\ "done" \in Stage
  BY DEF Stage

\* What the fields of a request's arguments are, and how they may be changed.
LEMMA ArgsType ==
  /\ \A s \in Suites, t, u \in Tests \cup {NoTest}, n \in Nodes \cup {NoNode}, op \in Stage :
       Request(s, t, n, u, op) \in Args
  /\ NoArgs \in Args
  /\ \A a \in Args : /\ a.suite \in Suites /\ a.test \in Tests \cup {NoTest}
                     /\ a.node \in Nodes \cup {NoNode} /\ a.other \in Tests \cup {NoTest}
                     /\ a.entry \in Entry /\ a.next \in Stage
  /\ \A a \in Args, t \in Tests : [a EXCEPT !.test = t] \in Args
  /\ \A a \in Args, n \in Nodes \cup {NoNode} : [a EXCEPT !.node = n] \in Args
  /\ \A a \in Args, e \in Entry : [a EXCEPT !.entry = e] \in Args
<1>1. \A s \in Suites, t, u \in Tests \cup {NoTest}, n \in Nodes \cup {NoNode}, op \in Stage :
        Request(s, t, n, u, op) \in Args
  BY DEF Args, Request, Entry
<1>2. 0 \in Suites
  BY ManagerAssumption DEF Suites
<1>3. NoArgs \in Args
  BY <1>1, <1>2, StageType DEF NoArgs
<1> QED
  BY <1>1, <1>3 DEF Args

LEMMA ArgsFields ==
  /\ \A a \in Args : \A n : /\ [a EXCEPT !.node = n].node = n
                        /\ [a EXCEPT !.node = n].test = a.test
                        /\ [a EXCEPT !.node = n].entry = a.entry
  /\ \A a \in Args : \A e : /\ [a EXCEPT !.entry = e].entry = e
                        /\ [a EXCEPT !.entry = e].node = a.node
                        /\ [a EXCEPT !.entry = e].test = a.test
  /\ NoArgs.entry = "absent"
  BY DEF Args, NoArgs, Request

\* Setting one entry of a test's ClientInfo, or one of Terminate's two sets.
LEMMA EntryType ==
  ASSUME TypeOK, NEW t, NEW n, NEW e \in Entry, SetEntry(t, n, e)
  PROVE  clientInfo' \in [Tests -> [Nodes -> Entry]]
<1>1. CASE t \in Tests
  BY <1>1 DEF TypeOK, SetEntry
<1>2. CASE t \notin Tests
  BY <1>2 DEF TypeOK, SetEntry
<1> QED
  BY <1>1, <1>2

LEMMA TodoType ==
  ASSUME TypeOK
  PROVE  /\ \A S \in SUBSET Suites :
              [todo EXCEPT !.suites = S] \in [suites: SUBSET Suites, tests: SUBSET Tests]
         /\ \A T \in SUBSET Tests :
              [todo EXCEPT !.tests = T] \in [suites: SUBSET Suites, tests: SUBSET Tests]
         /\ todo.suites \in SUBSET Suites /\ todo.tests \in SUBSET Tests
  BY DEF TypeOK

LEMMA TypeInit == Init => TypeOK
<1> SUFFICES ASSUME Init PROVE TypeOK
  OBVIOUS
<1>1. ControlType
  BY StageType, ArgsType DEF Init, ControlType
<1> QED
  BY <1>1, ManagerAssumption
  DEF Init, TypeOK, Procs, Suites, Tests, NoTest, Entry, ContainerState, Verdict

\* Moving a goroutine keeps at and arg well typed.
LEMMA GotoType ==
  ASSUME ControlType, NEW p
  PROVE  /\ \A x \in Stage : Goto(p, x) /\ UNCHANGED arg => ControlType'
         /\ \A x \in Stage, a \in Args : GotoWith(p, x, a) => ControlType'
         /\ Reply(p) => ControlType'
         /\ UNCHANGED <<at, arg>> => ControlType'
  BY StageType, ArgsType DEF ControlType, Goto, GotoWith, Reply

LEMMA TypeNext == TypeOK /\ [Next]_vars => TypeOK'
<1> SUFFICES ASSUME TypeOK, [Next]_vars PROVE TypeOK'
  OBVIOUS
<1>0. ControlType
  BY DEF TypeOK
<1> USE DEF locks, suiteVars, testVars, clientVars, hostVars
<1>1. ASSUME NEW p \in Handlers, StartTestSuite(p) PROVE TypeOK'
  <2>1. ControlType'
    BY <1>0, <1>1, GotoType DEF StartTestSuite
  <2> QED
    BY <1>1, <2>1, ManagerAssumption DEF StartTestSuite, TypeOK, Suites
<1>11. ASSUME NEW p \in Handlers, Arrive(p) \/ Refuse(p) PROVE TypeOK'
  <2>1. ControlType'
    BY <1>0, <1>11, GotoType, StageType DEF Arrive, Refuse
  <2> QED
    BY <1>11, <2>1 DEF Arrive, Refuse, TypeOK
<1>2. ASSUME NEW p \in Handlers, Receive(p) PROVE TypeOK'
  <2>1. PICK x \in Stage, a \in Args : GotoWith(p, x, a)
    <3>1. \A s \in runningTestSuites : s \in Suites /\ Nameable(s) \subseteq Tests
      BY ManagerAssumption DEF TypeOK, Nameable, Tests
    <3>2. NoTest \in Tests \cup {NoTest} /\ NoNode \in Nodes \cup {NoNode}
          /\ Tests \subseteq Tests \cup {NoTest} /\ KnownNodes \subseteq Nodes \cup {NoNode}
      BY DEF KnownNodes
    <3> QED
      BY <1>2, <3>1, <3>2, StageType, ArgsType DEF Receive
  <2>2. ControlType'
    BY <1>0, <2>1, GotoType
  <2> QED
    BY <1>2, <2>2 DEF Receive, TypeOK
<1>3. ASSUME NEW p \in Procs, Step(p) PROVE TypeOK'
  <2>0. arg[p] \in Args
    BY <1>0 DEF ControlType
  <2>1. CASE RequestTest(p)
    <3>1. ControlType'
      BY <1>0, <2>0, <2>1, GotoType, StageType, ArgsType DEF RequestTest
    <3> QED
      BY <2>0, <2>1, <3>1, ArgsType DEF RequestTest, TypeOK
  <2>2. CASE StartTest(p)
    <3>1. ControlType'
      BY <1>0, <2>0, <2>2, GotoType, StageType, ArgsType DEF StartTest
    <3> QED
      BY <2>2, <3>1 DEF StartTest, TypeOK
  <2>21. CASE AddTest(p)
    <3>1. ControlType'
      BY <1>0, <2>21, GotoType DEF AddTest
    <3> QED
      <4>1. CASE testCaseCounter < MaxTests
        <5>1. NextTestID \in Tests /\ NextTestID \in 0 .. MaxTests
          BY <4>1, ManagerAssumption DEF TypeOK, NextTestID, Tests
        <5>2. todo' \in [suites: SUBSET Suites, tests: SUBSET Tests]
          BY <2>21, <4>1, <5>1, TodoType DEF AddTest, TypeOK
        <5>3. testCases' \in [Suites -> SUBSET Tests] /\ runningTestCases' \in SUBSET Tests
          BY <2>21, <4>1, <5>1 DEF AddTest, TypeOK
        <5>4. testCaseCounter' \in 0 .. MaxTests /\ testCaseMutex' = None
          BY <2>21, <4>1, <5>1 DEF AddTest
        <5> QED
          BY <2>21, <3>1, <5>2, <5>3, <5>4 DEF AddTest, TypeOK
      <4>2. CASE ~(testCaseCounter < MaxTests)
        BY <2>21, <3>1, <4>2 DEF AddTest, TypeOK
      <4> QED
        BY <4>1, <4>2
  <2>3. CASE EndTest(p)
    <3>1. ControlType'
      BY <1>0, <2>0, <2>3, GotoType, StageType, ArgsType DEF EndTest
    <3> QED
      BY <2>0, <2>3, <3>1, ArgsType DEF EndTest, Verdicts, Verdict, TypeOK
  <2>4. CASE StopNext(p)
    <3>1. ControlType'
      BY <1>0, <2>0, <2>4, GotoType, StageType, ArgsType DEF StopNext, Unstopped
    <3> QED
      <4>1. clientInfo' \in [Tests -> [Nodes -> Entry]]
        <5> "nil" \in Entry
          BY DEF Entry
        <5> QED
          BY <2>4, EntryType DEF StopNext, TypeOK
      <4>2. container' \in [Nodes -> ContainerState]
        BY <2>4 DEF StopNext, ContainerState, TypeOK
      <4> QED
        BY <2>4, <3>1, <4>1, <4>2 DEF StopNext, TypeOK
  <2>5. CASE WaitReturns(p)
    <3>1. ControlType'
      BY <1>0, <2>0, <2>5, GotoType, StageType, ArgsType DEF WaitReturns
    <3> QED
      BY <2>5, <3>1, EntryType DEF WaitReturns, Entry, TypeOK
  <2>6. CASE EndTestDone(p)
    <3>1. ControlType'
      BY <1>0, <2>0, <2>6, GotoType, StageType, ArgsType DEF EndTestDone
    <3> QED
      BY <2>0, <2>6, <3>1, ArgsType DEF EndTestDone, TypeOK
  <2>7. CASE CreateContainer(p)
    <3>1. ControlType'
      BY <1>0, <2>0, <2>7, GotoType, StageType, ArgsType DEF CreateContainer
    <3> QED
      BY <2>0, <2>7, <3>1, ArgsType DEF CreateContainer, ContainerState, TypeOK
  <2>8. CASE ConnectNetworks(p)
    <3>1. ControlType'
      BY <1>0, <2>0, <2>8, GotoType, StageType, ArgsType DEF ConnectNetworks
    <3> QED
      BY <2>0, <2>8, <3>1, ArgsType DEF ConnectNetworks, TypeOK
  <2>22. CASE JoinNetwork(p)
    <3>1. ControlType'
      BY <1>0, <2>0, <2>22, GotoType, StageType, ArgsType DEF JoinNetwork
    <3> QED
      BY <2>0, <2>22, <3>1, ArgsType DEF JoinNetwork, TypeOK
  <2>9. CASE StartContainer(p)
    <3>1. ControlType'
      BY <1>0, <2>0, <2>9, GotoType, StageType, ArgsType DEF StartContainer, Entry
    <3> QED
      BY <2>0, <2>9, <3>1, ArgsType DEF StartContainer, ContainerState, Entry, TypeOK
  <2>10. CASE AddClientVersion(p)
    <3>1. ControlType'
      BY <1>0, <2>0, <2>10, GotoType, StageType, ArgsType DEF AddClientVersion
    <3> QED
      BY <2>0, <2>10, <3>1, ArgsType DEF AddClientVersion, TypeOK
  <2>11. CASE RegisterNode(p)
    <3>1. ControlType'
      BY <1>0, <2>0, <2>11, GotoType, StageType, ArgsType DEF RegisterNode
    <3> QED
      BY <2>0, <2>11, <3>1, ArgsType, EntryType DEF RegisterNode, TypeOK
  <2>12. CASE StopNode(p)
    <3>1. ControlType'
      BY <1>0, <2>0, <2>12, GotoType, StageType, ArgsType DEF StopNode
    <3> QED
      <4>1. clientInfo' \in [Tests -> [Nodes -> Entry]]
        <5> "nil" \in Entry
          BY DEF Entry
        <5> QED
          BY <2>12, EntryType DEF StopNode, TypeOK
      <4>2. container' \in [Nodes -> ContainerState]
        BY <2>12 DEF StopNode, ContainerState, TypeOK
      <4> QED
        BY <2>12, <3>1, <4>1, <4>2 DEF StopNode, TypeOK
  <2>13. CASE PauseNode(p)
    <3>1. ControlType'
      BY <1>0, <2>0, <2>13, GotoType, StageType, ArgsType DEF PauseNode
    <3> QED
      BY <2>0, <2>13, <3>1, ArgsType DEF PauseNode, ContainerState, TypeOK
  <2>14. CASE IsTestInSuite(p)
    <3>1. ControlType'
      BY <1>0, <2>0, <2>14, GotoType, StageType, ArgsType DEF IsTestInSuite
    <3> QED
      BY <2>0, <2>14, <3>1, ArgsType DEF IsTestInSuite, TypeOK
  <2>15. CASE GetNodeInfo(p)
    <3>1. ControlType'
      BY <1>0, <2>0, <2>15, GotoType, StageType, ArgsType DEF GetNodeInfo, SharedEntry, Entry
    <3> QED
      BY <2>0, <2>15, <3>1, ArgsType DEF GetNodeInfo, SharedEntry, Entry, TypeOK
  <2>16. CASE RegisterTarget(p)
    <3>1. ControlType'
      BY <1>0, <2>0, <2>16, GotoType, StageType, ArgsType DEF RegisterTarget
    <3> QED
      <4>1. clientInfo' \in [Tests -> [Nodes -> Entry]]
        BY <2>0, <2>16, ArgsType, EntryType DEF RegisterTarget, TypeOK
      <4> QED
        BY <2>16, <3>1, <4>1 DEF RegisterTarget, TypeOK
  <2>17. CASE SetMultiTestContext(p)
    <3>1. ControlType'
      BY <1>0, <2>0, <2>17, GotoType, StageType, ArgsType DEF SetMultiTestContext
    <3> QED
      BY <2>0, <2>17, <3>1, ArgsType DEF SetMultiTestContext, TypeOK
  <2>18. CASE DoEndSuite(p)
    <3>1. ControlType'
      BY <1>0, <2>0, <2>18, GotoType, StageType, ArgsType DEF DoEndSuite, EndSuiteReturns
    <3> QED
      BY <2>0, <2>18, <3>1, ArgsType DEF DoEndSuite, EndSuiteReturns, TypeOK
  <2>19. CASE WriteSuiteFile(p)
    <3>1. ControlType'
      BY <1>0, <2>0, <2>19, GotoType, StageType, ArgsType DEF WriteSuiteFile, EndSuiteReturns
    <3> QED
      <4>1. summaryFiles' \in [Suites -> Nat]
        BY <2>0, <2>19, ArgsType DEF WriteSuiteFile, TypeOK
      <4>2. testSuiteMutex' \in Procs \cup {None}
        BY <2>19 DEF WriteSuiteFile, EndSuiteReturns, TypeOK
      <4> QED
        BY <2>19, <3>1, <4>1, <4>2 DEF WriteSuiteFile, TypeOK
  <2>20. CASE MoveToResults(p)
    <3>1. ControlType'
      BY <1>0, <2>0, <2>20, GotoType, StageType, ArgsType DEF MoveToResults, EndSuiteReturns
    <3> QED
      BY <2>0, <2>20, <3>1, ArgsType DEF MoveToResults, EndSuiteReturns, TypeOK
  <2> QED
    BY <1>3, <2>1, <2>2, <2>3, <2>4, <2>5, <2>6, <2>7, <2>8, <2>9, <2>10,
       <2>11, <2>12, <2>13, <2>14, <2>15, <2>16, <2>17, <2>18, <2>19, <2>20, <2>21, <2>22
    DEF Step
<1>4. Host \in Procs /\ arg[Host] \in Args /\ NoTest \in Tests \cup {NoTest}
      /\ NoNode \in Nodes \cup {NoNode}
  BY <1>0 DEF Procs, ControlType
<1>5. CASE Shutdown
  <2>1. ControlType'
    BY <1>0, <1>5, GotoType, StageType, ArgsType, <1>4 DEF Shutdown, TypeOK
  <2> QED
    BY <1>5, <2>1 DEF Shutdown, TypeOK
<1>6. CASE TerminateBegin
  <2>1. ControlType'
    BY <1>0, <1>6, GotoType, StageType, ArgsType, <1>4 DEF TerminateBegin, TypeOK
  <2> QED
    BY <1>4, <1>6, <2>1, TodoType DEF TerminateBegin, TypeOK
<1>7. CASE TerminateSuite
  <2>1. ControlType'
    BY <1>0, <1>7, GotoType, StageType, ArgsType, <1>4 DEF TerminateSuite, TypeOK
  <2> QED
    BY <1>7, <2>1 DEF TerminateSuite, TypeOK
<1>8. CASE TerminateTest
  <2>1. ControlType'
    BY <1>0, <1>8, GotoType, StageType, ArgsType, <1>4 DEF TerminateTest, TypeOK
  <2> QED
    <3>1. todo' \in [suites: SUBSET Suites, tests: SUBSET Tests]
      <4>1. CASE UNCHANGED todo
        BY <4>1 DEF TypeOK
      <4>2. ASSUME NEW t \in todo.tests, todo' = [todo EXCEPT !.tests = @ \ {t}]
            PROVE  todo' \in [suites: SUBSET Suites, tests: SUBSET Tests]
        BY <4>2, TodoType DEF TypeOK
      <4> QED
        BY <1>8, <4>1, <4>2 DEF TerminateTest
    <3> QED
      BY <1>8, <2>1, <3>1 DEF TerminateTest, TypeOK
<1>9. ASSUME NEW n \in Nodes, ContainerExits(n) PROVE TypeOK'
  BY <1>0, <1>9, GotoType DEF ContainerExits, TypeOK, ContainerState
<1>10. CASE UNCHANGED vars
  BY <1>0, <1>10, GotoType DEF vars, TypeOK
<1> QED
  BY <1>1, <1>2, <1>3, <1>5, <1>6, <1>7, <1>8, <1>9, <1>10, <1>11
  DEF Next, Serve, Terminate, Finished

\* Every variable of the manager keeps its type.
THEOREM TypeCorrect == Spec => []TypeOK
  BY TypeInit, TypeNext, PTL DEF Spec

-----------------------------------------------------------------------------
(* Ownership of the clients                                                 *)

\* The control part of the invariant, for one goroutine that moves.
LEMMA ControlStep ==
  ASSUME TypeOK, Control, NEW p \in Procs, NEW x \in Stage,
         at' = [at EXCEPT ![p] = x],
         \A q \in Procs \ {p} : arg'[q] = arg[q],
         Fits(x, arg'[p]),
         p = Host => x \in Terminating \cup {"idle", "terminate", "done"}
  PROVE  Control'
<1>1. \A q \in Procs : Fits(at'[q], arg'[q])
  BY DEF TypeOK, ControlType, Control
<1>2. at'[Host] \in Terminating \cup {"idle", "terminate", "done"}
  BY DEF TypeOK, ControlType, Control, Procs
<1>3. \A q \in Procs : Fits(at[q], arg[q])'
  BY <1>1 DEF Fits, Tests
<1> QED
  BY <1>2, <1>3 DEF Control, Terminating

\* The states of a container that has been started and not been removed.
Started == {"running", "paused", "exited"}

\* A step that makes no test an owner, lets a test end only if it owns nothing,
\* removes no container, and whose goroutine begins no start of a client.
LEMMA QuietStep ==
  ASSUME OwnerInv, TypeOK', Control', NEW p \in Procs, NEW x \in Stage,
         at' = [at EXCEPT ![p] = x],
         \A q \in Procs \ {p} : arg'[q] = arg[q],
         x \in Starting => /\ at[p] \in Starting /\ arg'[p] = arg[p]
                           /\ x \in {"version", "register"} => at[p] \in {"version", "register"},
         \A t \in Tests, n \in Nodes : clientInfo'[t][n] = "wait" => clientInfo[t][n] = "wait",
         label' = label,
         \A n \in Nodes : container'[n] = container[n]
                          \/ (container[n] \in Started /\ container'[n] \in Started),
         \A t \in runningTestCases \ runningTestCases', n \in Nodes : clientInfo[t][n] # "wait"
  PROVE  OwnerInv'
<1> USE DEF OwnerInv
<1>1. \A q \in Procs : at'[q] \in Starting =>
        /\ at[q] \in Starting /\ arg'[q] = arg[q]
        /\ at'[q] \in {"version", "register"} => at[q] \in {"version", "register"}
  BY DEF TypeOK, ControlType
<1>2. Private'
  BY <1>1 DEF Private, Started
<1>3. EndedTestOwnsNothing'
  <2> SUFFICES ASSUME NEW t \in Tests \ runningTestCases', NEW n \in Nodes
               PROVE  clientInfo'[t][n] # "wait"
    BY DEF EndedTestOwnsNothing
  <2>1. clientInfo[t][n] # "wait"
    BY DEF EndedTestOwnsNothing
  <2> QED
    BY <2>1
<1>4. SingleOwner'
  BY DEF SingleOwner, Started
<1> QED
  BY <1>2, <1>3, <1>4

\* A step that changes the client of node n only, which no other goroutine is
\* starting.
LEMMA ClientStep ==
  ASSUME OwnerInv, TypeOK', Control', NEW p \in Procs, NEW x \in Stage, NEW n \in Nodes,
         at' = [at EXCEPT ![p] = x],
         \A q \in Procs \ {p} : arg'[q] = arg[q],
         \A m \in Nodes \ {n} : /\ container'[m] = container[m] /\ label'[m] = label[m]
                                /\ \A t \in Tests : clientInfo'[t][m] = clientInfo[t][m],
         \A q \in Procs \ {p} : at[q] \in Starting => arg[q].node # n,
         x \in Starting =>
           /\ arg'[p].node = n /\ label'[n] = arg'[p].test /\ container'[n] # "none"
           /\ \A t \in Tests : clientInfo'[t][n] # "wait"
           /\ x \in {"version", "register"} /\ arg'[p].entry = "wait" => container'[n] \in Started,
         \A t \in Tests : clientInfo'[t][n] = "wait" =>
           t \in runningTestCases /\ label'[n] = t /\ container'[n] \in Started,
         runningTestCases' = runningTestCases
  PROVE  OwnerInv'
<1> USE DEF OwnerInv
<1>1. \A q \in Procs \ {p} : at'[q] = at[q] /\ arg'[q] = arg[q]
  BY DEF TypeOK, ControlType
<1>2. at'[p] = x
  BY DEF TypeOK, ControlType
<1>3. Private'
  <2>1. \A q \in Procs : at'[q] \in Starting =>
          /\ arg'[q].node \in Nodes
          /\ label'[arg'[q].node] = arg'[q].test
          /\ container'[arg'[q].node] # "none"
          /\ \A t \in Tests : clientInfo'[t][arg'[q].node] # "wait"
          /\ at'[q] \in {"version", "register"} /\ arg'[q].entry = "wait"
               => container'[arg'[q].node] \in Started
    BY <1>1, <1>2 DEF Private, Started
  <2>2. \A q, r \in Procs :
          at'[q] \in Starting /\ at'[r] \in Starting /\ arg'[q].node = arg'[r].node => q = r
    BY <1>1, <1>2 DEF Private
  <2> QED
    BY <2>1, <2>2 DEF Private, Started
<1>4. EndedTestOwnsNothing'
  BY DEF EndedTestOwnsNothing
<1>5. SingleOwner'
  BY DEF SingleOwner, Started
<1> QED
  BY <1>3, <1>4, <1>5

LEMMA OwnerInit == Init => OwnerInv
<1> SUFFICES ASSUME Init PROVE OwnerInv
  OBVIOUS
<1>1. Control /\ Private
  BY DEF Init, Control, Fits, Private, Starting, Procs
<1>2. EndedTestOwnsNothing /\ SingleOwner
  BY DEF Init, EndedTestOwnsNothing, SingleOwner
<1> QED
  BY <1>1, <1>2, TypeInit DEF OwnerInv

\* The steps of a handler, or of Terminate, that leave the clients alone.
LEMMA OwnerQuiet ==
  ASSUME OwnerInv, TypeOK', NEW p \in Procs,
         \/ RequestTest(p) \/ StartTest(p) \/ AddTest(p) \/ EndTest(p)
         \/ IsTestInSuite(p) \/ GetNodeInfo(p) \/ SetMultiTestContext(p)
         \/ DoEndSuite(p) \/ WriteSuiteFile(p) \/ MoveToResults(p)
  PROVE  OwnerInv'
<1> USE DEF OwnerInv, locks, suiteVars, testVars, hostVars
<1>1. PICK x \in Stage \ Starting :
        /\ at' = [at EXCEPT ![p] = x]
        /\ \A q \in Procs \ {p} : arg'[q] = arg[q]
        /\ Fits(x, arg'[p])
        /\ p = Host => x \in Terminating \cup {"idle", "terminate", "done"}
  <2>1. CASE RequestTest(p)
    BY <2>1, StageType, ArgsType
    DEF RequestTest, Goto, GotoWith, Reply, Control, Fits, ChecksTest, Starting, Terminating,
        TypeOK, ControlType
  <2>2. CASE StartTest(p) \/ AddTest(p)
    BY <2>2, StageType, ArgsType
    DEF StartTest, AddTest, Goto, GotoWith, Reply, Control, Fits, ChecksTest, Starting, Terminating,
        TypeOK, ControlType
  <2>3. CASE EndTest(p)
    BY <2>3, StageType, ArgsType
    DEF EndTest, MayEndTest, Goto, GotoWith, Reply, Control, Fits, ChecksTest, Starting, Terminating,
        TypeOK, ControlType
  <2>4. CASE IsTestInSuite(p)
    BY <2>4, StageType, ArgsType
    DEF IsTestInSuite, Goto, GotoWith, Reply, Control, Fits, ChecksTest, Starting, Terminating,
        TypeOK, ControlType
  <2>5. CASE GetNodeInfo(p)
    <3>1. arg[p] \in Args /\ "nil" \in Entry /\ p # Host
      BY <2>5 DEF GetNodeInfo, TypeOK, ControlType, Control, Terminating, Entry
    <3>2. CASE GotoWith(p, "target", [arg[p] EXCEPT !.entry = "nil"])
      <4>1. [arg[p] EXCEPT !.entry = "nil"].entry = "nil"
        BY <3>1, ArgsFields
      <4>2. arg'[p].entry = "nil"
        BY <3>2, <4>1 DEF GotoWith, TypeOK, ControlType
      <4> QED
        BY <3>1, <3>2, <4>2, StageType DEF GotoWith, Fits, Starting, TypeOK, ControlType
    <3>3. CASE Reply(p)
      BY <3>1, <3>3, StageType DEF Reply, GotoWith, Fits, Starting, TypeOK, ControlType
    <3> QED
      BY <2>5, <3>2, <3>3 DEF GetNodeInfo, SharedEntry
  <2>6. CASE SetMultiTestContext(p)
    BY <2>6, StageType, ArgsType
    DEF SetMultiTestContext, Goto, GotoWith, Reply, Control, Fits, ChecksTest, Starting, Terminating,
        TypeOK, ControlType
  <2>7. CASE DoEndSuite(p)
    BY <2>7, StageType, ArgsType
    DEF DoEndSuite, EndSuiteReturns, Goto, GotoWith, Reply, Control, Fits, ChecksTest, Starting, Terminating,
        TypeOK, ControlType
  <2>8. CASE WriteSuiteFile(p)
    BY <2>8, StageType, ArgsType
    DEF WriteSuiteFile, EndSuiteReturns, Goto, GotoWith, Reply, Control, Fits, ChecksTest, Starting, Terminating,
        TypeOK, ControlType
  <2>9. CASE MoveToResults(p)
    BY <2>9, StageType, ArgsType
    DEF MoveToResults, EndSuiteReturns, Goto, GotoWith, Reply, Control, Fits, ChecksTest, Starting, Terminating,
        TypeOK, ControlType
  <2> QED
    BY <2>1, <2>2, <2>3, <2>4, <2>5, <2>6, <2>7, <2>8, <2>9
<1>2. Control'
  BY <1>1, ControlStep
<1>3. UNCHANGED clientVars /\ runningTestCases \subseteq runningTestCases'
  BY DEF RequestTest, StartTest, AddTest, EndTest, IsTestInSuite, GetNodeInfo, SetMultiTestContext,
         DoEndSuite, WriteSuiteFile, MoveToResults
<1> QED
  BY <1>1, <1>2, <1>3, QuietStep DEF clientVars

\* EndTest's calls of the backend, and its end.
LEMMA OwnerEndTest ==
  ASSUME OwnerInv, TypeOK', NEW p \in Procs,
         StopNext(p) \/ WaitReturns(p) \/ EndTestDone(p)
  PROVE  OwnerInv'
<1> USE DEF OwnerInv, locks, suiteVars, testVars, hostVars
<1> DEFINE t == arg[p].test
<1>0. at[p] \in {"stopping", "waiting"} /\ arg[p] \in Args /\ t \in Tests
  BY DEF StopNext, WaitReturns, EndTestDone, Control, Fits, TypeOK, ControlType
<1>1. ASSUME NEW n \in Unstopped(t), SetEntry(t, n, "nil"), UNCHANGED <<at, arg>>,
             container' = [container EXCEPT ![n] = "gone"],
             UNCHANGED <<label, runningTestCases>>
      PROVE  OwnerInv'
  <2>1. n \in Nodes /\ clientInfo[t][n] = "wait" /\ label[n] = t
    BY <1>0, <1>1 DEF Unstopped, SingleOwner
  <2>2. \A u \in Tests : clientInfo'[u][n] # "wait"
    <3>1. clientInfo'[t][n] = "nil"
      BY <1>0, <1>1, <2>1 DEF SetEntry, TypeOK
    <3>2. \A u \in Tests \ {t} : clientInfo'[u][n] = clientInfo[u][n]
      BY <1>0, <1>1, <2>1 DEF SetEntry, TypeOK
    <3> QED
      BY <2>1, <3>1, <3>2 DEF SingleOwner
  <2>3. \A q \in Procs : at[q] \in Starting => arg[q].node # n
    BY <1>0, <2>1 DEF Private
  <2>4. \A m \in Nodes \ {n} : /\ container'[m] = container[m] /\ label'[m] = label[m]
                               /\ \A u \in Tests : clientInfo'[u][m] = clientInfo[u][m]
    BY <1>0, <1>1, <2>1 DEF SetEntry, TypeOK
  <2>5. PICK x \in Stage \ Starting : at' = [at EXCEPT ![p] = x]
    BY <1>0, <1>1, StageType DEF TypeOK, ControlType, Starting
  <2>6. Control'
    BY <1>0, <1>1 DEF Control, Fits, Tests, Terminating
  <2>7. /\ \A q \in Procs \ {p} : arg'[q] = arg[q]
        /\ runningTestCases' = runningTestCases /\ n \in Nodes /\ x \in Stage
        /\ x \notin Starting /\ \A q \in Procs \ {p} : at[q] \in Starting => arg[q].node # n
        /\ \A u \in Tests : clientInfo'[u][n] = "wait" =>
             u \in runningTestCases /\ label'[n] = u /\ container'[n] \in Started
    BY <1>1, <2>1, <2>2, <2>3
  <2> HIDE DEF OwnerInv, t
  <2> QED
    BY <2>4, <2>5, <2>6, <2>7, ClientStep
<1>2. ASSUME NEW n \in Nodes, GotoWith(p, "waiting", [arg[p] EXCEPT !.node = n]),
             UNCHANGED <<clientVars, runningTestCases>>
      PROVE  OwnerInv'
  <2>1. [arg[p] EXCEPT !.node = n].test = t
    BY <1>0, ArgsFields
  <2>2. arg'[p].test = t
    BY <1>2, <2>1 DEF GotoWith, TypeOK, ControlType
  <2>3. Control'
    BY <1>0, <1>2, <2>2, ControlStep, StageType
    DEF GotoWith, Fits, Control, Terminating, TypeOK, ControlType
  <2> QED
    BY <1>2, <2>3, QuietStep, StageType DEF GotoWith, Starting, clientVars, TypeOK, ControlType
<1>3. CASE StopNext(p)
  BY <1>1, <1>2, <1>3 DEF StopNext, clientVars, Unstopped
<1>4. CASE WaitReturns(p)
  <2> DEFINE n == arg[p].node
  <2>1. [arg[p] EXCEPT !.node = NoNode].test = t
    BY <1>0, ArgsFields
  <2>2. arg'[p].test = t
    BY <1>4, <2>1 DEF WaitReturns, GotoWith, TypeOK, ControlType
  <2>3. Control'
    BY <1>0, <1>4, <2>2, ControlStep, StageType
    DEF WaitReturns, GotoWith, Fits, Control, Terminating, TypeOK, ControlType
  <2>4. \A u \in Tests, m \in Nodes : clientInfo'[u][m] = "wait" => clientInfo[u][m] = "wait"
    BY <1>0, <1>4 DEF WaitReturns, SetEntry, TypeOK
  <2> QED
    BY <1>4, <2>3, <2>4, QuietStep, StageType
    DEF WaitReturns, GotoWith, Starting, TypeOK, ControlType
<1>5. CASE EndTestDone(p)
  <2>1. \A n \in Nodes : clientInfo[t][n] # "wait"
    BY <1>5 DEF EndTestDone, Unstopped
  <2>2. PICK x \in {"tests", "idle"} :
          /\ at' = [at EXCEPT ![p] = x]
          /\ \A q \in Procs \ {p} : arg'[q] = arg[q]
          /\ p = Host => x = "tests"
    BY <1>5 DEF EndTestDone, Goto, Reply, GotoWith, TypeOK, ControlType
  <2>3. Control'
    BY <2>2, ControlStep, StageType DEF Fits, Terminating
  <2> QED
    BY <1>5, <2>1, <2>2, <2>3, QuietStep, StageType DEF EndTestDone, Starting, clientVars
<1> QED
  BY <1>3, <1>4, <1>5

\* The steps of startClient.
LEMMA OwnerStart ==
  ASSUME OwnerInv, TypeOK', NEW p \in Procs,
         \/ CreateContainer(p) \/ ConnectNetworks(p) \/ JoinNetwork(p) \/ StartContainer(p)
         \/ AddClientVersion(p) \/ RegisterNode(p)
  PROVE  OwnerInv'
<1> USE DEF OwnerInv, locks, suiteVars, testVars, hostVars
<1>0. at[p] \in Stage /\ arg[p] \in Args /\ p # Host
  BY DEF CreateContainer, ConnectNetworks, JoinNetwork, StartContainer, AddClientVersion, RegisterNode,
         Control, Terminating, TypeOK, ControlType
<1>1. PICK x \in Stage :
        /\ at' = [at EXCEPT ![p] = x]
        /\ \A q \in Procs \ {p} : arg'[q] = arg[q]
        /\ x \in Starting \cup {"idle"}
  BY StageType
  DEF CreateContainer, ConnectNetworks, JoinNetwork, StartContainer, AddClientVersion, RegisterNode,
      Goto, GotoWith, Reply, Starting, TypeOK, ControlType
<1>2. Control'
  BY <1>0, <1>1, ControlStep DEF Fits, Starting
<1>3. CASE Reply(p) /\ UNCHANGED <<clientVars, runningTestCases>>
  BY <1>0, <1>1, <1>2, <1>3, QuietStep, StageType
  DEF Reply, GotoWith, Starting, clientVars, TypeOK, ControlType
<1>4. CASE /\ Goto(p, at'[p]) /\ UNCHANGED arg /\ UNCHANGED clientVars
           /\ runningTestCases' = runningTestCases
           /\ at[p] \in Starting
           /\ at'[p] \in {"connect", "join", "start"} \/ (at'[p] = "register" /\ at[p] = "version")
  BY <1>0, <1>1, <1>2, <1>4, QuietStep DEF Goto, Starting, clientVars, TypeOK, ControlType
<1>5. CASE CreateContainer(p)
  <2>1. ASSUME NEW n \in Nodes, container[n] = "none",
               container' = [container EXCEPT ![n] = "created"],
               label' = [label EXCEPT ![n] = arg[p].test],
               GotoWith(p, "connect", [arg[p] EXCEPT !.node = n]),
               at[p] = "create", UNCHANGED <<clientInfo, runningTestCases>>
        PROVE  OwnerInv'
    <3>1. /\ arg'[p].node = n /\ arg'[p].test = arg[p].test /\ x = "connect"
      BY <1>0, <1>1, <2>1, ArgsFields DEF GotoWith, TypeOK, ControlType
    <3>2. \A t \in Tests : clientInfo'[t][n] # "wait"
      BY <2>1 DEF SingleOwner
    <3>3. \A m \in Nodes \ {n} : /\ container'[m] = container[m] /\ label'[m] = label[m]
                                 /\ \A t \in Tests : clientInfo'[t][m] = clientInfo[t][m]
      BY <2>1 DEF TypeOK
    <3>4. \A q \in Procs \ {p} : at[q] \in Starting => arg[q].node # n
      BY <2>1 DEF Private
    <3>5. /\ label'[n] = arg'[p].test /\ container'[n] # "none"
          /\ runningTestCases' = runningTestCases
      BY <2>1, <3>1 DEF TypeOK
    <3>6. \A t \in Tests : clientInfo'[t][n] = "wait" =>
            t \in runningTestCases /\ label'[n] = t /\ container'[n] \in Started
      BY <3>2
    <3>7. x \in Starting =>
            /\ arg'[p].node = n /\ label'[n] = arg'[p].test /\ container'[n] # "none"
            /\ \A t \in Tests : clientInfo'[t][n] # "wait"
            /\ x \in {"version", "register"} /\ arg'[p].entry = "wait" => container'[n] \in Started
      BY <3>1, <3>2, <3>5
    <3>8. /\ at' = [at EXCEPT ![p] = x]
          /\ \A q \in Procs \ {p} : arg'[q] = arg[q]
          /\ runningTestCases' = runningTestCases
      BY <1>1, <3>5
    <3> HIDE DEF OwnerInv
    <3> QED
      BY <1>2, <3>3, <3>4, <3>6, <3>7, <3>8, ClientStep
  <2> QED
    BY <1>3, <1>5, <2>1 DEF CreateContainer, clientVars
<1>6. CASE ConnectNetworks(p) \/ JoinNetwork(p)
  <2>1. CASE Reply(p)
    BY <1>3, <1>6, <2>1 DEF ConnectNetworks, JoinNetwork, clientVars
  <2>2. ASSUME NEW y \in {"connect", "join", "start"}, Goto(p, y), UNCHANGED arg PROVE OwnerInv'
    <3>1. at'[p] = y
      BY <2>2 DEF Goto, TypeOK, ControlType
    <3>2. Goto(p, at'[p])
      BY <2>2, <3>1
    <3>3. UNCHANGED clientVars /\ runningTestCases' = runningTestCases /\ at[p] \in Starting
      BY <1>6 DEF ConnectNetworks, JoinNetwork, Starting
    <3> QED
      BY <1>4, <2>2, <3>1, <3>2, <3>3
  <2> QED
    BY <1>6, <2>1, <2>2 DEF ConnectNetworks, JoinNetwork
<1>7. CASE StartContainer(p)
  <2> DEFINE n == arg[p].node
  <2>1. ASSUME NEW state \in {"gone", "stray", "running"}, NEW e \in {"absent", "nil", "wait"},
               e = "wait" => state = "running",
               container' = [container EXCEPT ![n] = state],
               x \in {"version", "idle"},
               x = "version" => arg'[p] = [arg[p] EXCEPT !.entry = e],
               at[p] = "start", UNCHANGED <<clientInfo, label, runningTestCases>>
        PROVE  OwnerInv'
    <3>1. /\ n \in Nodes /\ label[n] = arg[p].test
          /\ \A t \in Tests : clientInfo'[t][n] # "wait"
      BY <2>1 DEF Private, Starting
    <3>2. \A m \in Nodes \ {n} : /\ container'[m] = container[m] /\ label'[m] = label[m]
                                 /\ \A t \in Tests : clientInfo'[t][m] = clientInfo[t][m]
      BY <2>1 DEF TypeOK
    <3>3. \A q \in Procs \ {p} : at[q] \in Starting => arg[q].node # n
      BY <2>1 DEF Private, Starting
    <3>4. x = "version" => arg'[p].node = n /\ arg'[p].test = arg[p].test /\ arg'[p].entry = e
      <4>1. /\ [arg[p] EXCEPT !.entry = e].entry = e
            /\ [arg[p] EXCEPT !.entry = e].node = n
            /\ [arg[p] EXCEPT !.entry = e].test = arg[p].test
        BY <1>0, ArgsFields
      <4> QED
        BY <2>1, <4>1
    <3>5. /\ x \in Starting => x = "version"
          /\ label'[n] = arg[p].test /\ container'[n] # "none"
          /\ e = "wait" => container'[n] \in Started
          /\ runningTestCases' = runningTestCases
      BY <2>1, <3>1 DEF TypeOK, Starting, Started
    <3> HIDE DEF OwnerInv, n
    <3> QED
      BY <1>1, <1>2, <3>1, <3>2, <3>3, <3>4, <3>5, ClientStep
  <2>2. at'[p] = x
    BY <1>1 DEF TypeOK, ControlType
  <2>3. ASSUME NEW state \in {"gone", "stray"}, Reply(p),
               container' = [container EXCEPT ![n] = state]
        PROVE  OwnerInv'
    BY <1>7, <2>1, <2>2, <2>3 DEF StartContainer, Reply, GotoWith, TypeOK, ControlType
  <2>4. ASSUME NEW state \in {"gone", "stray"},
               GotoWith(p, "version", [arg[p] EXCEPT !.entry = "nil"]),
               container' = [container EXCEPT ![n] = state]
        PROVE  OwnerInv'
    BY <1>7, <2>1, <2>2, <2>4 DEF StartContainer, GotoWith, TypeOK, ControlType
  <2>5. CASE GotoWith(p, "version", [arg[p] EXCEPT !.entry = "wait"])
             /\ container' = [container EXCEPT ![n] = "running"]
    BY <1>7, <2>1, <2>2, <2>5 DEF StartContainer, GotoWith, TypeOK, ControlType
  <2> QED
    BY <1>7, <2>3, <2>4, <2>5 DEF StartContainer
<1>8. CASE AddClientVersion(p)
  BY <1>0, <1>4, <1>8 DEF AddClientVersion, Goto, Starting, clientVars, TypeOK, ControlType
<1>9. CASE RegisterNode(p)
  <2> DEFINE n == arg[p].node
             t == arg[p].test
  <2>1. CASE MayRegister(t)
    <3>1. /\ n \in Nodes /\ label[n] = t /\ t \in Tests /\ t \in runningTestCases
          /\ \A u \in Tests : clientInfo[u][n] # "wait"
          /\ arg[p].entry = "wait" => container[n] \in Started
      BY <1>9, <2>1 DEF RegisterNode, Private, Starting, Started, MayRegister, TypeOK
    <3>2. clientInfo'[t][n] = arg[p].entry
          /\ \A u \in Tests, m \in Nodes : u # t \/ m # n => clientInfo'[u][m] = clientInfo[u][m]
      BY <1>9, <2>1, <3>1 DEF RegisterNode, SetEntry, TypeOK
    <3>3. \A q \in Procs \ {p} : at[q] \in Starting => arg[q].node # n
      BY <1>9 DEF RegisterNode, Private, Starting
    <3>4. x = "idle" /\ "idle" \notin Starting
      BY <1>1, <1>9 DEF RegisterNode, Reply, GotoWith, Starting, TypeOK, ControlType
    <3>5. /\ container' = container /\ label' = label /\ runningTestCases' = runningTestCases
      BY <1>9 DEF RegisterNode
    <3>6. \A u \in Tests : clientInfo'[u][n] = "wait" =>
            u \in runningTestCases /\ label'[n] = u /\ container'[n] \in Started
      BY <3>1, <3>2, <3>5
    <3>7. \A m \in Nodes \ {n} : /\ container'[m] = container[m] /\ label'[m] = label[m]
                                 /\ \A u \in Tests : clientInfo'[u][m] = clientInfo[u][m]
      BY <3>2, <3>5
    <3> HIDE DEF OwnerInv, n, t
    <3> QED
      BY <1>1, <1>2, <3>1, <3>3, <3>4, <3>5, <3>6, <3>7, ClientStep
  <2>2. CASE ~MayRegister(t)
    BY <1>3, <1>9, <2>2 DEF RegisterNode, clientVars
  <2> QED
    BY <2>1, <2>2
<1> QED
  BY <1>5, <1>6, <1>7, <1>8, <1>9

\* Stopping, pausing and sharing a client.
LEMMA OwnerClient ==
  ASSUME OwnerInv, TypeOK', NEW p \in Procs,
         StopNode(p) \/ PauseNode(p) \/ RegisterTarget(p)
  PROVE  OwnerInv'
<1> USE DEF OwnerInv, locks, suiteVars, testVars, hostVars
<1> DEFINE t == arg[p].test
           n == arg[p].node
<1>0. at[p] \in Stage /\ arg[p] \in Args /\ p # Host
  BY DEF StopNode, PauseNode, RegisterTarget, Control, Terminating, TypeOK, ControlType
<1>1. PICK x \in {"idle", "context"} :
        /\ at' = [at EXCEPT ![p] = x]
        /\ \A q \in Procs \ {p} : arg'[q] = arg[q]
  BY DEF StopNode, PauseNode, RegisterTarget, Goto, GotoWith, Reply, TypeOK, ControlType
<1>2. Control' /\ x \in Stage /\ x \notin Starting
  BY <1>0, <1>1, ControlStep, StageType DEF Fits, Starting
<1>3. CASE StopNode(p)
  <2>1. CASE HasNode(t, n) /\ clientInfo[t][n] = "wait" /\ SetEntry(t, n, "nil")
             /\ container' = [container EXCEPT ![n] = "gone"]
    <3>1. t \in Tests /\ label' = label /\ runningTestCases' = runningTestCases
      BY <1>3, <2>1 DEF StopNode, HasNode, TypeOK
    <3>2. CASE n \in Nodes
      <4>1. \A q \in Procs : at[q] \in Starting => arg[q].node # n
        BY <2>1, <3>1 DEF Private
      <4>2. label[n] = t
        BY <2>1, <3>1, <3>2 DEF SingleOwner
      <4>3. \A u \in Tests : clientInfo'[u][n] # "wait"
        <5>1. clientInfo'[t][n] = "nil"
              /\ \A u \in Tests \ {t} : clientInfo'[u][n] = clientInfo[u][n]
          BY <2>1, <3>1, <3>2 DEF SetEntry, TypeOK
        <5> QED
          BY <3>2, <4>2, <5>1 DEF SingleOwner
      <4>4. \A m \in Nodes \ {n} : /\ container'[m] = container[m] /\ label'[m] = label[m]
                                   /\ \A u \in Tests : clientInfo'[u][m] = clientInfo[u][m]
        BY <2>1, <3>1, <3>2 DEF SetEntry, TypeOK
      <4> HIDE DEF OwnerInv, n, t
      <4> QED
        BY <1>1, <1>2, <3>1, <3>2, <4>1, <4>3, <4>4, ClientStep
    <3>3. CASE n \notin Nodes
      <4>1. /\ \A u \in Tests, m \in Nodes : clientInfo'[u][m] = clientInfo[u][m]
            /\ \A m \in Nodes : container'[m] = container[m]
        BY <2>1, <3>1, <3>3 DEF SetEntry, TypeOK
      <4> HIDE DEF OwnerInv, n, t
      <4> QED
        BY <1>1, <1>2, <3>1, <4>1, QuietStep
    <3> QED
      BY <3>2, <3>3
  <2>2. CASE UNCHANGED <<container, clientInfo>>
    BY <1>1, <1>2, <1>3, <2>2, QuietStep DEF StopNode
  <2> QED
    BY <1>3, <2>1, <2>2 DEF StopNode
<1>4. CASE PauseNode(p)
  <2>1. \A m \in Nodes : container'[m] = container[m]
                          \/ (container[m] \in Started /\ container'[m] \in Started)
    BY <1>4 DEF PauseNode, Started, TypeOK
  <2> QED
    BY <1>1, <1>2, <1>4, <2>1, QuietStep DEF PauseNode
<1>5. CASE RegisterTarget(p)
  <2>1. \A u \in Tests, m \in Nodes : clientInfo'[u][m] = "wait" => clientInfo[u][m] = "wait"
    BY <1>5 DEF RegisterTarget, SetEntry, Control, Fits, TypeOK
  <2> QED
    BY <1>1, <1>2, <1>5, <2>1, QuietStep DEF RegisterTarget
<1> QED
  BY <1>3, <1>4, <1>5

\* Terminate, and the arrival of requests.
LEMMA OwnerOther ==
  ASSUME OwnerInv, TypeOK',
         \/ \E p \in Handlers : Arrive(p) \/ Serve(p)
         \/ Shutdown \/ Terminate
  PROVE  OwnerInv'
<1> USE DEF OwnerInv, locks, suiteVars, testVars, hostVars
<1>1. PICK p \in Procs, x \in Stage \ Starting :
        /\ at' = [at EXCEPT ![p] = x]
        /\ \A q \in Procs \ {p} : arg'[q] = arg[q]
        /\ Fits(x, arg'[p])
        /\ p = Host => x \in Terminating \cup {"idle", "terminate", "done"}
  <2>1. ASSUME NEW p \in Handlers, Receive(p)
        PROVE  \E x \in Stage \ Starting :
                 /\ at' = [at EXCEPT ![p] = x]
                 /\ \A q \in Procs \ {p} : arg'[q] = arg[q]
                 /\ Fits(x, arg'[p])
    <3>1. \A s, t, n, u, op : Request(s, t, n, u, op).next = op
      BY DEF Request
    <3>2. PICK op \in {"startTest", "endSuite", "test?"} :
            \E a : GotoWith(p, op, a) /\ (op = "test?" => a.next \in ChecksTest)
      BY <2>1, <3>1 DEF Receive, ChecksTest
    <3>3. PICK a : GotoWith(p, op, a) /\ (op = "test?" => a.next \in ChecksTest)
      BY <3>2, Zenon
    <3>4. /\ at' = [at EXCEPT ![p] = op] /\ arg'[p] = a
          /\ \A q \in Procs \ {p} : arg'[q] = arg[q]
      BY <3>3 DEF GotoWith, Procs, TypeOK, ControlType
    <3>5. Fits(op, arg'[p]) /\ op \in Stage \ Starting
      BY <3>3, <3>4, StageType DEF Fits, Starting
    <3> QED
      BY <3>4, <3>5
  <2>2. Host \in Procs /\ \A p \in Handlers : p \in Procs /\ p # Host
    BY ManagerAssumption DEF Procs
  <2>7. ASSUME NEW p \in Handlers, Arrive(p) \/ Refuse(p) \/ StartTestSuite(p)
        PROVE  \E x \in Stage \ Starting :
                 /\ at' = [at EXCEPT ![p] = x]
                 /\ \A q \in Procs \ {p} : arg'[q] = arg[q]
                 /\ Fits(x, arg'[p])
    <3>1. PICK x \in {"suite?", "idle"} : at' = [at EXCEPT ![p] = x]
      BY <2>7 DEF Arrive, Refuse, StartTestSuite, Goto, GotoWith, Reply
    <3>2. \A q \in Procs \ {p} : arg'[q] = arg[q]
      BY <2>2, <2>7 DEF Arrive, Refuse, StartTestSuite, GotoWith, Reply, TypeOK, ControlType
    <3>3. Fits(x, arg'[p]) /\ x \in Stage \ Starting
      BY StageType DEF Fits, Starting
    <3> QED
      BY <3>1, <3>2, <3>3
  <2>3. CASE Shutdown
    BY <2>2, <2>3, StageType
    DEF Shutdown, Goto, Fits, Starting, Terminating, Control, TypeOK, ControlType
  <2>4. CASE TerminateBegin
    BY <2>2, <2>4, StageType
    DEF TerminateBegin, Goto, Fits, Starting, Terminating, Control, TypeOK, ControlType
  <2>5. CASE TerminateSuite
    BY <2>2, <2>5, StageType
    DEF TerminateSuite, GotoWith, Fits, Starting, Terminating, Control, TypeOK, ControlType
  <2>6. CASE TerminateTest
    <3>1. CASE UNCHANGED <<at, arg>>
      <4>1. at[Host] = "tests" /\ at' = at /\ arg' = arg
        BY <2>6, <3>1 DEF TerminateTest
      <4>2. at' = [at EXCEPT ![Host] = "tests"]
        BY <2>2, <4>1 DEF TypeOK, ControlType
      <4>3. Fits("tests", arg'[Host]) /\ "tests" \in Stage \ Starting /\ "tests" \in Terminating
        BY StageType DEF Fits, Starting, Terminating
      <4> QED
        BY <2>2, <4>1, <4>2, <4>3
    <3>2. CASE GotoWith(Host, "endTest", arg'[Host])
      BY <2>2, <3>2, StageType DEF GotoWith, Fits, Starting, Terminating, TypeOK, ControlType
    <3>3. CASE Goto(Host, "endSuite") /\ UNCHANGED arg
      BY <2>2, <3>3, StageType DEF Goto, Fits, Starting, Terminating, TypeOK, ControlType
    <3>4. ASSUME NEW a, GotoWith(Host, "endTest", a) PROVE GotoWith(Host, "endTest", arg'[Host])
      BY <2>2, <3>4 DEF GotoWith, TypeOK, ControlType
    <3> QED
      BY <2>6, <3>1, <3>2, <3>3, <3>4 DEF TerminateTest
  <2> QED
    BY <2>1, <2>2, <2>3, <2>4, <2>5, <2>6, <2>7 DEF Serve, Terminate
<1>2. Control'
  BY <1>1, ControlStep
<1>3. UNCHANGED clientVars /\ runningTestCases' = runningTestCases
  BY DEF Arrive, Serve, Refuse, StartTestSuite, Receive, Shutdown, Terminate, TerminateBegin,
         TerminateSuite, TerminateTest
<1> QED
  BY <1>1, <1>2, <1>3, QuietStep DEF clientVars

LEMMA OwnerNext == OwnerInv /\ [Next]_vars => OwnerInv'
<1> SUFFICES ASSUME OwnerInv, [Next]_vars PROVE OwnerInv'
  OBVIOUS
<1>0. TypeOK'
  BY TypeNext DEF OwnerInv
<1>1. ASSUME UNCHANGED <<at, arg, label, clientInfo, runningTestCases>>,
             \A n \in Nodes : container'[n] = container[n]
                              \/ (container[n] \in Started /\ container'[n] \in Started)
      PROVE  OwnerInv'
  <2>1. Control'
    BY <1>1 DEF OwnerInv, Control, Fits, Terminating, ChecksTest, Tests
  <2>2. Private'
    BY <1>1 DEF OwnerInv, Private, Started
  <2>3. EndedTestOwnsNothing' /\ SingleOwner'
    BY <1>1 DEF OwnerInv, EndedTestOwnsNothing, SingleOwner, Started
  <2> QED
    BY <1>0, <2>1, <2>2, <2>3 DEF OwnerInv
<1>3. ASSUME NEW p \in Handlers, Arrive(p) \/ Serve(p) PROVE OwnerInv'
  BY <1>0, <1>3, OwnerOther
<1>4. ASSUME NEW p \in Procs, Step(p) PROVE OwnerInv'
  BY <1>0, <1>4, OwnerQuiet, OwnerEndTest, OwnerStart, OwnerClient DEF Step
<1>5. CASE Shutdown \/ Terminate
  BY <1>0, <1>5, OwnerOther
<1>6. ASSUME NEW n \in Nodes, ContainerExits(n) PROVE OwnerInv'
  <2>1. \A m \in Nodes : container'[m] = container[m]
                          \/ (container[m] \in Started /\ container'[m] \in Started)
    BY <1>6 DEF ContainerExits, Started, OwnerInv, TypeOK
  <2> QED
    BY <1>1, <1>6, <2>1 DEF ContainerExits, testVars
<1>7. CASE UNCHANGED vars
  BY <1>1, <1>7 DEF vars, testVars, clientVars
<1> QED
  BY <1>3, <1>4, <1>5, <1>6, <1>7 DEF Next, Finished

\* However the requests interleave, a test case that has ended owns no client.
THEOREM EndedTestsOwnNothing == Spec => []EndedTestOwnsNothing
<1>1. OwnerInv => EndedTestOwnsNothing
  BY DEF OwnerInv
<1> QED
  BY OwnerInit, OwnerNext, <1>1, PTL DEF Spec

\* A client that some test will stop is stopped by no other test, and its
\* container has not been removed.
THEOREM ClientsHaveOneOwner == Spec => []SingleOwner
<1>1. OwnerInv => SingleOwner
  BY DEF OwnerInv
<1> QED
  BY OwnerInit, OwnerNext, <1>1, PTL DEF Spec

-----------------------------------------------------------------------------
(* Verdicts                                                                 *)

LEMMA CaseInit == Init => CaseLock
  BY ManagerAssumption DEF Init, CaseLock, Ending, Adding, Procs

\* A step that takes and releases no testCaseMutex.
LEMMA CaseQuiet ==
  ASSUME CaseLock,
         \A q \in Procs : Ending(q)' <=> Ending(q),
         \A q \in Procs : Adding(q)' <=> Adding(q),
         \A q \in Procs : Ending(q) => arg'[q].test = arg[q].test,
         UNCHANGED <<testCaseMutex, summaryResult, runningTestCases, testCaseCounter>>
  PROVE  CaseLock'
  BY DEF CaseLock, Tests

\* The steps of a goroutine that holds testCaseMutex neither before nor after.
LEMMA OtherMoves ==
  ASSUME OwnerInv, NEW p \in Procs,
         \/ RequestTest(p) \/ CreateContainer(p) \/ ConnectNetworks(p) \/ JoinNetwork(p) \/ StartContainer(p)
         \/ AddClientVersion(p) \/ RegisterNode(p) \/ StopNode(p) \/ PauseNode(p)
         \/ IsTestInSuite(p) \/ GetNodeInfo(p) \/ RegisterTarget(p) \/ SetMultiTestContext(p)
         \/ DoEndSuite(p) \/ WriteSuiteFile(p) \/ MoveToResults(p)
  PROVE  \E x \in Stage \ {"stopping", "waiting", "addTest"} :
           /\ at' = [at EXCEPT ![p] = x]
           /\ \A q \in Procs \ {p} : arg'[q] = arg[q]
<1> USE DEF OwnerInv
<1>1. CASE RequestTest(p)
  BY <1>1, StageType
  DEF RequestTest, Goto, GotoWith, Reply, Control, Fits, ChecksTest, TypeOK, ControlType
<1>2. CASE CreateContainer(p) \/ ConnectNetworks(p) \/ JoinNetwork(p) \/ StartContainer(p)
  BY <1>2, StageType
  DEF CreateContainer, ConnectNetworks, JoinNetwork, StartContainer, Goto, GotoWith, Reply, TypeOK, ControlType
<1>3. CASE AddClientVersion(p) \/ RegisterNode(p) \/ StopNode(p) \/ PauseNode(p)
  BY <1>3, StageType
  DEF AddClientVersion, RegisterNode, StopNode, PauseNode, Goto, GotoWith, Reply, TypeOK, ControlType
<1>4. CASE IsTestInSuite(p) \/ GetNodeInfo(p) \/ RegisterTarget(p) \/ SetMultiTestContext(p)
  BY <1>4, StageType
  DEF IsTestInSuite, GetNodeInfo, RegisterTarget, SetMultiTestContext,
      Goto, GotoWith, Reply, TypeOK, ControlType
<1>5. CASE DoEndSuite(p) \/ WriteSuiteFile(p) \/ MoveToResults(p)
  BY <1>5, StageType
  DEF DoEndSuite, WriteSuiteFile, MoveToResults, EndSuiteReturns,
      Goto, GotoWith, Reply, TypeOK, ControlType
<1> QED
  BY <1>1, <1>2, <1>3, <1>4, <1>5

\* What they leave as it is.
LEMMA CaseOther ==
  ASSUME OwnerInv, NEW p \in Procs,
         \/ RequestTest(p) \/ CreateContainer(p) \/ ConnectNetworks(p) \/ JoinNetwork(p) \/ StartContainer(p)
         \/ AddClientVersion(p) \/ RegisterNode(p) \/ StopNode(p) \/ PauseNode(p)
         \/ IsTestInSuite(p) \/ GetNodeInfo(p) \/ RegisterTarget(p) \/ SetMultiTestContext(p)
         \/ DoEndSuite(p) \/ WriteSuiteFile(p) \/ MoveToResults(p)
  PROVE  /\ \A q \in Procs : Ending(q)' <=> Ending(q)
         /\ \A q \in Procs : Adding(q)' <=> Adding(q)
         /\ \A q \in Procs : Ending(q) => arg'[q].test = arg[q].test
         /\ UNCHANGED <<testCaseMutex, summaryResult, runningTestCases, testCaseCounter>>
<1> USE DEF locks, testVars, OwnerInv
<1>1. PICK x \in Stage \ {"stopping", "waiting", "addTest"} :
        /\ at' = [at EXCEPT ![p] = x]
        /\ \A q \in Procs \ {p} : arg'[q] = arg[q]
  BY OtherMoves
<1>2. ~Ending(p) /\ ~Adding(p)
  BY DEF Ending, Adding, RequestTest, CreateContainer, ConnectNetworks, JoinNetwork, StartContainer,
         AddClientVersion, RegisterNode, StopNode, PauseNode, IsTestInSuite, GetNodeInfo,
         RegisterTarget, SetMultiTestContext, DoEndSuite, WriteSuiteFile, MoveToResults
<1>3. \A q \in Procs : (Ending(q)' <=> Ending(q)) /\ (Adding(q)' <=> Adding(q))
  BY <1>1, <1>2 DEF Ending, Adding, TypeOK, ControlType
<1>4. UNCHANGED <<testCaseMutex, summaryResult, runningTestCases, testCaseCounter>>
  BY DEF RequestTest, CreateContainer, ConnectNetworks, JoinNetwork, StartContainer, EndSuiteReturns,
         AddClientVersion, RegisterNode, StopNode, PauseNode, IsTestInSuite, GetNodeInfo,
         RegisterTarget, SetMultiTestContext, DoEndSuite, WriteSuiteFile, MoveToResults
<1> QED
  BY <1>1, <1>2, <1>3, <1>4

\* EndTest and StartTest, each from its check to its end.
LEMMA CaseEndTest ==
  ASSUME OwnerInv, CaseLock, NEW p \in Procs,
         \/ EndTest(p) \/ StopNext(p) \/ WaitReturns(p) \/ EndTestDone(p)
         \/ StartTest(p) \/ AddTest(p)
  PROVE  CaseLock'
<1> USE DEF OwnerInv, locks, testVars
<1> DEFINE t == arg[p].test
<1>0. arg[p] \in Args /\ None \notin Procs
  BY ManagerAssumption DEF TypeOK, ControlType, Procs
<1>1. CASE EndTest(p)
  <2>0. \A q \in Procs : ~Ending(q) /\ ~Adding(q)
    BY <1>0, <1>1 DEF EndTest, CaseMutexFree, CaseLock
  <2>1. CASE MayEndTest(arg[p].suite, t)
    <3>1. /\ t \in runningTestCases /\ arg' = arg /\ testCaseMutex' = p
          /\ at' = [at EXCEPT ![p] = "stopping"]
          /\ \A u \in Tests \ {t} : summaryResult'[u] = summaryResult[u]
          /\ UNCHANGED <<runningTestCases, testCaseCounter>>
      BY <1>1, <2>1 DEF EndTest, MayEndTest, Goto, TypeOK
    <3>2. \A q \in Procs : (Ending(q)' <=> q = p) /\ ~Adding(q)'
      BY <2>0, <3>1 DEF Ending, Adding, TypeOK, ControlType
    <3> QED
      BY <2>0, <3>1, <3>2 DEF CaseLock, TypeOK, Tests
  <2>2. CASE ~MayEndTest(arg[p].suite, t)
    <3>1. \E x \in {"done", "idle"} : at' = [at EXCEPT ![p] = x]
      BY <1>1, <2>2 DEF EndTest, GotoWith, Reply
    <3>2. \A q \in Procs : ~Ending(q)' /\ ~Adding(q)'
      BY <2>0, <3>1 DEF Ending, Adding, TypeOK, ControlType
    <3> QED
      BY <1>1, <2>0, <2>2, <3>2, CaseQuiet DEF EndTest
  <2> QED
    BY <2>1, <2>2
<1>2. CASE StopNext(p) \/ WaitReturns(p)
  <2>1. \A n : [arg[p] EXCEPT !.node = n].test = t
    BY <1>0, ArgsFields
  <2>2. Ending(p) /\ Ending(p)' /\ ~Adding(p) /\ ~Adding(p)'
    BY <1>2 DEF Ending, Adding, StopNext, WaitReturns, GotoWith, TypeOK, ControlType
  <2>3. arg'[p].test = t
    <3>1. arg' = arg \/ \E n : arg' = [arg EXCEPT ![p] = [arg[p] EXCEPT !.node = n]]
      <4>1. CASE StopNext(p)
        BY <4>1 DEF StopNext, GotoWith
      <4>2. CASE WaitReturns(p)
        BY <4>2 DEF WaitReturns, GotoWith
      <4> QED
        BY <1>2, <4>1, <4>2
    <3>2. arg'[p] = arg[p] \/ \E n : arg'[p] = [arg[p] EXCEPT !.node = n]
      BY <3>1 DEF TypeOK, ControlType
    <3> QED
      BY <2>1, <3>2
  <2>4. \A q \in Procs \ {p} : at'[q] = at[q] /\ arg'[q] = arg[q]
    BY <1>2 DEF StopNext, WaitReturns, GotoWith, TypeOK, ControlType
  <2>5. UNCHANGED <<testCaseMutex, summaryResult, runningTestCases, testCaseCounter>>
    BY <1>2 DEF StopNext, WaitReturns
  <2> QED
    BY <2>2, <2>3, <2>4, <2>5, CaseQuiet DEF Ending, Adding
<1>3. CASE EndTestDone(p)
  <2>1. Ending(p) /\ testCaseMutex = p /\ \A q \in Procs \ {p} : ~Ending(q) /\ ~Adding(q)
    BY <1>3 DEF EndTestDone, Ending, CaseLock
  <2>2. \E x \in {"tests", "idle"} : at' = [at EXCEPT ![p] = x]
    BY <1>3 DEF EndTestDone, Goto, GotoWith, Reply
  <2>3. \A q \in Procs : ~Ending(q)' /\ ~Adding(q)'
    BY <2>1, <2>2 DEF Ending, Adding, TypeOK, ControlType
  <2>4. /\ testCaseMutex' = None /\ runningTestCases' = runningTestCases \ {t}
        /\ UNCHANGED <<summaryResult, testCaseCounter>>
    BY <1>3 DEF EndTestDone
  <2>5. \A u \in runningTestCases' : summaryResult[u] = "none"
    BY <2>1, <2>4 DEF CaseLock
  <2> QED
    BY <1>0, <2>3, <2>4, <2>5 DEF CaseLock, Tests
<1>4. CASE StartTest(p)
  <2>0. \A q \in Procs : ~Ending(q) /\ ~Adding(q)
    BY <1>0, <1>4 DEF StartTest, CaseMutexFree, CaseLock
  <2>1. UNCHANGED <<summaryResult, runningTestCases, testCaseCounter>>
    BY <1>4 DEF StartTest
  <2>2. CASE arg[p].suite \in runningTestSuites
    <3>1. at' = [at EXCEPT ![p] = "addTest"] /\ testCaseMutex' = p
      BY <1>4, <2>2 DEF StartTest, Goto
    <3>2. \A q \in Procs : ~Ending(q)' /\ (Adding(q)' <=> q = p)
      BY <2>0, <3>1 DEF Ending, Adding, TypeOK, ControlType
    <3> QED
      BY <2>0, <2>1, <3>1, <3>2 DEF CaseLock, Tests
  <2>3. CASE arg[p].suite \notin runningTestSuites
    <3>1. at' = [at EXCEPT ![p] = "idle"] /\ UNCHANGED testCaseMutex
      BY <1>4, <2>3 DEF StartTest, GotoWith, Reply
    <3>2. \A q \in Procs : ~Ending(q)' /\ ~Adding(q)'
      BY <2>0, <3>1 DEF Ending, Adding, TypeOK, ControlType
    <3> QED
      BY <2>0, <2>1, <3>1, <3>2, CaseQuiet
  <2> QED
    BY <2>2, <2>3
<1>5. CASE AddTest(p)
  <2>0. Adding(p) /\ \A q \in Procs : ~Ending(q) /\ (q # p => ~Adding(q))
    BY <1>5 DEF AddTest, Adding, Ending, CaseLock
  <2>1. at' = [at EXCEPT ![p] = "idle"] /\ testCaseMutex' = None
    BY <1>5 DEF AddTest, GotoWith, Reply
  <2>2. \A q \in Procs : ~Ending(q)' /\ ~Adding(q)'
    BY <2>0, <2>1 DEF Ending, Adding, TypeOK, ControlType
  <2>3. CASE testCaseCounter < MaxTests
    <3>1. /\ testCaseCounter' = testCaseCounter + 1
          /\ runningTestCases' = runningTestCases \cup {testCaseCounter + 1}
          /\ UNCHANGED summaryResult
      BY <1>5, <2>3, ManagerAssumption DEF AddTest, NextTestID, TypeOK
    <3>2. testCaseCounter \in Nat /\ testCaseCounter + 1 \in Tests
      BY <2>3, ManagerAssumption DEF TypeOK, Tests
    <3>3. \A u \in runningTestCases' : summaryResult[u] = "none"
      BY <2>0, <3>1, <3>2 DEF CaseLock
    <3>4. \A u \in Tests : u > testCaseCounter' =>
            u > testCaseCounter /\ u # testCaseCounter + 1
      BY <3>1, <3>2 DEF Tests
    <3>5. \A u \in Tests : u > testCaseCounter' =>
            u \notin runningTestCases' /\ summaryResult[u] = "none"
      BY <3>1, <3>4 DEF CaseLock
    <3> QED
      BY <1>0, <2>1, <2>2, <3>1, <3>3, <3>5 DEF CaseLock, Tests
  <2>4. CASE ~(testCaseCounter < MaxTests)
    <3>1. UNCHANGED <<summaryResult, runningTestCases, testCaseCounter>>
      BY <1>5, <2>4 DEF AddTest
    <3> QED
      BY <1>0, <2>0, <2>1, <2>2, <3>1 DEF CaseLock, Tests
  <2> QED
    BY <2>3, <2>4
<1> QED
  BY <1>1, <1>2, <1>3, <1>4, <1>5

LEMMA CaseNext == OwnerInv /\ CaseLock /\ [Next]_vars => CaseLock'
<1> SUFFICES ASSUME OwnerInv, CaseLock, [Next]_vars PROVE CaseLock'
  OBVIOUS
<1> USE DEF locks, testVars
<1>0. TypeOK /\ ControlType /\ Host \in Procs
  BY DEF OwnerInv, TypeOK, Procs
<1>1. ASSUME UNCHANGED <<at, arg, testCaseMutex, summaryResult, runningTestCases, testCaseCounter>>
      PROVE  CaseLock'
  BY <1>1, CaseQuiet DEF Ending, Adding
<1>3. ASSUME NEW p \in Procs, NEW x \in Stage \ {"stopping", "waiting", "addTest"},
             ~Ending(p), ~Adding(p), at' = [at EXCEPT ![p] = x], \A q \in Procs \ {p} : arg'[q] = arg[q],
             UNCHANGED <<testCaseMutex, summaryResult, runningTestCases, testCaseCounter>>
      PROVE  CaseLock'
  <2>1. \A q \in Procs : (Ending(q)' <=> Ending(q)) /\ (Adding(q)' <=> Adding(q))
    BY <1>0, <1>3 DEF Ending, Adding, ControlType
  <2> QED
    BY <1>3, <2>1, CaseQuiet
<1>2. ASSUME NEW p \in Handlers, Arrive(p) \/ Refuse(p) \/ StartTestSuite(p) PROVE CaseLock'
  <2>1. p \in Procs /\ ~Ending(p) /\ ~Adding(p)
    BY <1>2 DEF Arrive, Refuse, StartTestSuite, Ending, Adding, Procs
  <2>2. \E x \in {"suite?", "idle"} : at' = [at EXCEPT ![p] = x]
    BY <1>2 DEF Arrive, Refuse, StartTestSuite, Goto, GotoWith, Reply
  <2>3. /\ \A q \in Procs \ {p} : arg'[q] = arg[q]
        /\ UNCHANGED <<testCaseMutex, summaryResult, runningTestCases, testCaseCounter>>
    BY <1>0, <1>2 DEF Arrive, Refuse, StartTestSuite, GotoWith, Reply, ControlType
  <2> QED
    BY <1>3, <2>1, <2>2, <2>3, StageType
<1>4. ASSUME NEW p \in Handlers, Receive(p) PROVE CaseLock'
  <2>1. p \in Procs /\ ~Ending(p) /\ ~Adding(p)
    BY <1>4 DEF Receive, Ending, Adding, Procs
  <2>2. \E x \in {"startTest", "endSuite", "test?"} : \E a : GotoWith(p, x, a)
    BY <1>4 DEF Receive
  <2>3. PICK x \in {"startTest", "endSuite", "test?"} : \E a : GotoWith(p, x, a)
    BY <2>2, Zenon
  <2>4. at' = [at EXCEPT ![p] = x] /\ \A q \in Procs \ {p} : arg'[q] = arg[q]
    BY <1>0, <2>1, <2>3 DEF GotoWith, ControlType
  <2>5. UNCHANGED <<testCaseMutex, summaryResult, runningTestCases, testCaseCounter>>
    BY <1>4 DEF Receive
  <2> QED
    BY <1>3, <2>1, <2>4, <2>5, StageType
<1>5. ASSUME NEW p \in Procs, Step(p) PROVE CaseLock'
  <2>1. CASE \/ EndTest(p) \/ StopNext(p) \/ WaitReturns(p) \/ EndTestDone(p)
             \/ StartTest(p) \/ AddTest(p)
    BY <2>1, CaseEndTest
  <2>2. CASE ~(\/ EndTest(p) \/ StopNext(p) \/ WaitReturns(p) \/ EndTestDone(p)
               \/ StartTest(p) \/ AddTest(p))
    BY <1>5, <2>2, CaseOther, CaseQuiet DEF Step
  <2> QED
    BY <2>1, <2>2
<1>6. CASE Shutdown \/ TerminateBegin \/ TerminateSuite
  <2>1. \E x \in {"terminate", "suites", "tests", "done"} : at' = [at EXCEPT ![Host] = x]
    BY <1>6 DEF Shutdown, TerminateBegin, TerminateSuite, Goto, GotoWith
  <2>2. /\ \A q \in Procs \ {Host} : arg'[q] = arg[q]
        /\ ~Ending(Host) /\ ~Adding(Host)
        /\ UNCHANGED <<testCaseMutex, summaryResult, runningTestCases, testCaseCounter>>
    BY <1>0, <1>6
    DEF Shutdown, TerminateBegin, TerminateSuite, Goto, GotoWith, Ending, Adding, ControlType
  <2> QED
    BY <1>0, <1>3, <2>1, <2>2, StageType
<1>7. CASE TerminateTest
  <2>1. UNCHANGED at \/ \E x \in {"endTest", "endSuite"} : at' = [at EXCEPT ![Host] = x]
    BY <1>7 DEF TerminateTest, Goto, GotoWith
  <2>2. /\ \A q \in Procs \ {Host} : arg'[q] = arg[q]
        /\ ~Ending(Host) /\ ~Adding(Host) /\ at[Host] = "tests"
        /\ UNCHANGED <<testCaseMutex, summaryResult, runningTestCases, testCaseCounter>>
    BY <1>0, <1>7 DEF TerminateTest, Goto, GotoWith, Ending, Adding, ControlType
  <2>3. \E x \in {"tests", "endTest", "endSuite"} : at' = [at EXCEPT ![Host] = x]
    BY <1>0, <2>1, <2>2 DEF ControlType
  <2> QED
    BY <1>0, <1>3, <2>2, <2>3, StageType
<1>8. ASSUME NEW n \in Nodes, ContainerExits(n) PROVE CaseLock'
  BY <1>1, <1>8 DEF ContainerExits
<1>9. CASE UNCHANGED vars
  BY <1>1, <1>9 DEF vars
<1> QED
  BY <1>2, <1>4, <1>5, <1>6, <1>7, <1>8, <1>9 DEF Next, Serve, Terminate, Finished

\* Only the check of EndTest leads to a new verdict, for a test that has none.
LEMMA VerdictStep ==
  OwnerInv /\ CaseLock /\ [Next]_vars =>
    \A t \in Tests : summaryResult[t] # "none" => summaryResult'[t] = summaryResult[t]
<1> SUFFICES ASSUME OwnerInv, CaseLock, [Next]_vars
             PROVE  \A t \in Tests : summaryResult[t] # "none" => summaryResult'[t] = summaryResult[t]
  OBVIOUS
<1> USE DEF testVars
<1>1. ASSUME NEW p \in Procs, EndTest(p)
      PROVE  \A t \in Tests : summaryResult[t] # "none" => summaryResult'[t] = summaryResult[t]
  <2>1. CASE MayEndTest(arg[p].suite, arg[p].test)
    <3>1. \A q \in Procs : ~Ending(q)
      BY <1>1, ManagerAssumption DEF EndTest, CaseMutexFree, CaseLock, Procs
    <3>2. summaryResult[arg[p].test] = "none"
      BY <2>1, <3>1 DEF MayEndTest, CaseLock
    <3> QED
      BY <1>1, <2>1, <3>2 DEF EndTest, OwnerInv, TypeOK
  <2>2. CASE ~MayEndTest(arg[p].suite, arg[p].test)
    BY <1>1, <2>2 DEF EndTest
  <2> QED
    BY <2>1, <2>2
<1>2. ASSUME NEW p \in Procs, Step(p), ~EndTest(p)
      PROVE  UNCHANGED summaryResult
  <2>1. CASE StopNext(p) \/ WaitReturns(p) \/ EndTestDone(p) \/ StartTest(p) \/ AddTest(p)
    BY <2>1 DEF StopNext, WaitReturns, EndTestDone, StartTest, AddTest
  <2>2. CASE ~(\/ StopNext(p) \/ WaitReturns(p) \/ EndTestDone(p)
               \/ StartTest(p) \/ AddTest(p))
    BY <1>2, <2>2, CaseOther DEF Step
  <2> QED
    BY <2>1, <2>2
<1>3. ASSUME \/ \E p \in Handlers : Arrive(p) \/ Serve(p)
             \/ Shutdown \/ Terminate
             \/ \E n \in Nodes : ContainerExits(n)
             \/ UNCHANGED vars
      PROVE  UNCHANGED summaryResult
  BY <1>3 DEF Arrive, Serve, Refuse, StartTestSuite, Receive, Shutdown, Terminate, TerminateBegin, TerminateSuite,
              TerminateTest, ContainerExits, vars
<1> QED
  BY <1>1, <1>2, <1>3 DEF Next, Finished

\* The first verdict of a test stands, whoever else ends the test at the same time.
THEOREM VerdictsStand == Spec => FirstVerdictStands
<1>1. OwnerInv /\ CaseLock /\ [Next]_vars =>
        [\A t \in Tests : summaryResult[t] # "none" => summaryResult'[t] = summaryResult[t]]_vars
  BY VerdictStep
<1> QED
  BY OwnerInit, OwnerNext, CaseInit, CaseNext, <1>1, PTL DEF Spec, FirstVerdictStands
-----------------------------------------------------------------------------
(* Summaries                                                                *)

LEMMA SuiteInit == Init => SuiteLock
  BY ManagerAssumption DEF Init, SuiteLock, Writing, Terminating, Procs

\* A step that leaves the suites as they are; a goroutine that moves a suite, or
\* is about to write it after the step, does not take part in it.
LEMMA SuiteQuiet ==
  ASSUME SuiteLock,
         \A q \in Procs : at[q] = "move" => at'[q] = at[q] /\ arg'[q] = arg[q],
         \A q \in Procs : Writing(q)' => /\ at'[q] = at[q] /\ arg'[q] = arg[q]
                                        /\ testSuiteMutex' = testSuiteMutex,
         at'[Host] \in Terminating => testSuiteMutex' = Host,
         UNCHANGED <<runningTestSuites, results, summaryFiles, testSuiteCounter>>
  PROVE  SuiteLock'
<1>1. \A q \in Procs : Writing(q)' => testSuiteMutex' = q /\ arg'[q].suite \in runningTestSuites
  BY DEF SuiteLock, Writing
<1>2. \A q \in Procs : at'[q] = "move" => summaryFiles[arg'[q].suite] = 1
  BY DEF SuiteLock, Writing
<1>3. \A s \in runningTestSuites :
        summaryFiles[s] = 0 \/ \E q \in Procs : at'[q] = "move" /\ arg'[q].suite = s
  BY DEF SuiteLock
<1> QED
  BY <1>1, <1>2, <1>3 DEF SuiteLock, Terminating, Suites

\* A step of goroutine p, which is not writing before or after.
LEMMA SuiteOther ==
  ASSUME TypeOK, SuiteLock, NEW p \in Procs, NEW x \in Stage \ {"write", "move"},
         ~Writing(p), at' = [at EXCEPT ![p] = x],
         \A q \in Procs \ {p} : arg'[q] = arg[q],
         p = Host => at[Host] \in Terminating \/ x \notin Terminating,
         UNCHANGED <<testSuiteMutex, runningTestSuites, results, summaryFiles, testSuiteCounter>>
  PROVE  SuiteLock'
<1>1. \A q \in Procs \ {p} : at'[q] = at[q]
  BY DEF TypeOK, ControlType
<1>2. at'[p] = x
  BY DEF TypeOK, ControlType
<1>3. \A q \in Procs : at[q] = "move" => at'[q] = at[q] /\ arg'[q] = arg[q]
  BY <1>1 DEF Writing
<1>4. \A q \in Procs : Writing(q)' => at'[q] = at[q] /\ arg'[q] = arg[q]
  BY <1>1, <1>2 DEF Writing
<1>5. at'[Host] \in Terminating => testSuiteMutex = Host
  BY <1>1, <1>2 DEF SuiteLock, Procs
<1> QED
  BY <1>3, <1>4, <1>5, SuiteQuiet

\* The steps of requests about tests and clients, and of EndTest, have no part in
\* the life of a suite.
LEMMA SuiteMoves ==
  ASSUME OwnerInv, NEW p \in Procs,
         \/ RequestTest(p) \/ StartTest(p) \/ AddTest(p)
         \/ StopNext(p) \/ WaitReturns(p) \/ EndTestDone(p)
         \/ CreateContainer(p) \/ ConnectNetworks(p) \/ JoinNetwork(p) \/ StartContainer(p)
         \/ AddClientVersion(p) \/ RegisterNode(p) \/ StopNode(p) \/ PauseNode(p)
         \/ IsTestInSuite(p) \/ GetNodeInfo(p) \/ RegisterTarget(p) \/ SetMultiTestContext(p)
  PROVE  /\ \E x \in Stage \ {"write", "move"} :
              /\ at' = [at EXCEPT ![p] = x]
              /\ \A q \in Procs \ {p} : arg'[q] = arg[q]
         /\ at[p] \notin {"write", "move", "idle", "terminate", "done"}
         /\ UNCHANGED <<testSuiteMutex, runningTestSuites, results, summaryFiles, testSuiteCounter>>
<1> USE DEF locks, suiteVars, OwnerInv
<1>1. \E x \in Stage \ {"write", "move"} :
        /\ at' = [at EXCEPT ![p] = x]
        /\ \A q \in Procs \ {p} : arg'[q] = arg[q]
  <2>1. CASE RequestTest(p) \/ StartTest(p) \/ AddTest(p)
    BY <2>1, StageType
    DEF RequestTest, StartTest, AddTest, Goto, GotoWith, Reply, Control, Fits, ChecksTest, TypeOK, ControlType
  <2>2. CASE StopNext(p)
    <3>1. CASE UNCHANGED <<at, arg>>
      <4>1. at[p] = "stopping" /\ at' = [at EXCEPT ![p] = "stopping"]
        BY <2>2, <3>1 DEF StopNext, TypeOK, ControlType
      <4> QED
        BY <3>1, <4>1, StageType
    <3>2. ASSUME NEW a, GotoWith(p, "waiting", a) PROVE at' = [at EXCEPT ![p] = "waiting"]
      BY <3>2 DEF GotoWith
    <3>3. \A q \in Procs \ {p} : arg'[q] = arg[q]
      BY <2>2 DEF StopNext, GotoWith, TypeOK, ControlType
    <3> QED
      BY <2>2, <3>1, <3>2, <3>3, StageType DEF StopNext
  <2>3. CASE WaitReturns(p) \/ EndTestDone(p)
    BY <2>3, StageType
    DEF WaitReturns, EndTestDone, Goto, GotoWith, Reply, TypeOK, ControlType
  <2>4. CASE CreateContainer(p) \/ ConnectNetworks(p) \/ JoinNetwork(p) \/ StartContainer(p)
    BY <2>4, StageType
    DEF CreateContainer, ConnectNetworks, JoinNetwork, StartContainer, Goto, GotoWith, Reply, TypeOK, ControlType
  <2>5. CASE AddClientVersion(p) \/ RegisterNode(p) \/ StopNode(p) \/ PauseNode(p)
    BY <2>5, StageType
    DEF AddClientVersion, RegisterNode, StopNode, PauseNode, Goto, GotoWith, Reply, TypeOK, ControlType
  <2>6. CASE IsTestInSuite(p) \/ GetNodeInfo(p) \/ RegisterTarget(p) \/ SetMultiTestContext(p)
    BY <2>6, StageType
    DEF IsTestInSuite, GetNodeInfo, RegisterTarget, SetMultiTestContext,
        Goto, GotoWith, Reply, TypeOK, ControlType
  <2> QED
    BY <2>1, <2>2, <2>3, <2>4, <2>5, <2>6
<1>2. at[p] \notin {"write", "move", "idle", "terminate", "done"}
  BY DEF RequestTest, StartTest, AddTest, StopNext, WaitReturns, EndTestDone,
         CreateContainer, ConnectNetworks, JoinNetwork, StartContainer,
         AddClientVersion, RegisterNode, StopNode, PauseNode, IsTestInSuite, GetNodeInfo,
         RegisterTarget, SetMultiTestContext
<1>3. UNCHANGED <<testSuiteMutex, runningTestSuites, results, summaryFiles, testSuiteCounter>>
  BY DEF RequestTest, StartTest, AddTest, StopNext, WaitReturns, EndTestDone,
         CreateContainer, ConnectNetworks, JoinNetwork, StartContainer,
         AddClientVersion, RegisterNode, StopNode, PauseNode, IsTestInSuite, GetNodeInfo,
         RegisterTarget, SetMultiTestContext
<1> QED
  BY <1>1, <1>2, <1>3

LEMMA SuiteStep ==
  ASSUME OwnerInv, SuiteLock, NEW p \in Procs,
         \/ RequestTest(p) \/ StartTest(p) \/ AddTest(p)
         \/ StopNext(p) \/ WaitReturns(p) \/ EndTestDone(p)
         \/ CreateContainer(p) \/ ConnectNetworks(p) \/ JoinNetwork(p) \/ StartContainer(p)
         \/ AddClientVersion(p) \/ RegisterNode(p) \/ StopNode(p) \/ PauseNode(p)
         \/ IsTestInSuite(p) \/ GetNodeInfo(p) \/ RegisterTarget(p) \/ SetMultiTestContext(p)
  PROVE  SuiteLock'
<1>1. PICK x \in Stage \ {"write", "move"} :
        /\ at' = [at EXCEPT ![p] = x]
        /\ \A q \in Procs \ {p} : arg'[q] = arg[q]
  BY SuiteMoves
<1>2. /\ at[p] \notin {"write", "move", "idle", "terminate", "done"}
      /\ UNCHANGED <<testSuiteMutex, runningTestSuites, results, summaryFiles, testSuiteCounter>>
  BY SuiteMoves
<1>3. ~Writing(p) /\ (p = Host => at[Host] \in Terminating)
  BY <1>2 DEF Writing, Control, OwnerInv
<1> QED
  BY <1>1, <1>2, <1>3, SuiteOther DEF OwnerInv

\* Ending a suite, and EndTest, whose error makes Terminate return.
LEMMA SuiteEnd ==
  ASSUME OwnerInv, SuiteLock, NEW p \in Procs,
         EndTest(p) \/ DoEndSuite(p) \/ WriteSuiteFile(p) \/ MoveToResults(p)
  PROVE  SuiteLock'
<1> USE DEF locks, suiteVars, OwnerInv
<1> DEFINE s == arg[p].suite
<1>0. s \in Suites /\ Host \in Procs /\ None \notin Procs
  BY ArgsType, ManagerAssumption DEF TypeOK, ControlType, Procs
<1>1. at[p] \in {"endTest", "endSuite", "write", "move"}
      /\ (p = Host => testSuiteMutex = p)
  BY DEF EndTest, DoEndSuite, WriteSuiteFile, MoveToResults, SuiteLock, Terminating
<1>2. CASE EndTest(p)
  <2>1. CASE MayEndTest(s, arg[p].test)
    <3>1. /\ at' = [at EXCEPT ![p] = "stopping"] /\ arg' = arg /\ ~Writing(p)
          /\ p = Host => at[Host] \in Terminating
          /\ UNCHANGED <<testSuiteMutex, runningTestSuites, results, summaryFiles, testSuiteCounter>>
      BY <1>2, <2>1 DEF EndTest, Goto, Writing, Terminating
    <3> QED
      BY <3>1, SuiteOther, StageType
  <2>2. CASE ~MayEndTest(s, arg[p].test) /\ p # Host
    <3>1. /\ at' = [at EXCEPT ![p] = "idle"] /\ ~Writing(p)
          /\ \A q \in Procs \ {p} : arg'[q] = arg[q]
          /\ UNCHANGED <<testSuiteMutex, runningTestSuites, results, summaryFiles, testSuiteCounter>>
      BY <1>2, <2>2 DEF EndTest, GotoWith, Reply, Writing, TypeOK, ControlType
    <3> QED
      BY <2>2, <3>1, SuiteOther, StageType
  <2>3. CASE ~MayEndTest(s, arg[p].test) /\ p = Host
    <3>1. /\ at' = [at EXCEPT ![p] = "done"] /\ at[p] = "endTest"
          /\ UNCHANGED <<runningTestSuites, results, summaryFiles, testSuiteCounter>>
      BY <1>2, <2>3 DEF EndTest, GotoWith
    <3>2. \A q \in Procs : ~Writing(q)
      BY <1>1, <2>3, <3>1 DEF SuiteLock, Writing
    <3>3. \A q \in Procs : ~Writing(q)'
      BY <3>1, <3>2 DEF Writing, TypeOK, ControlType
    <3>4. at'[Host] \notin Terminating
      BY <1>0, <2>3, <3>1 DEF Terminating, TypeOK, ControlType
    <3>5. \A q \in Procs : at[q] # "move"
      BY <3>2 DEF Writing
    <3> QED
      BY <3>1, <3>3, <3>4, <3>5, SuiteQuiet
  <2> QED
    BY <2>1, <2>2, <2>3
<1>3. ASSUME EndSuiteReturns(p), Writing(p) \/ at[p] = "endSuite",
             p # Host => testSuiteMutex \in {None, p}
      PROVE  /\ \A q \in Procs : ~Writing(q)'
             /\ \A q \in Procs \ {p} : ~Writing(q)
             /\ at'[Host] \in Terminating => testSuiteMutex' = Host
  <2>1. PICK x \in {"suites", "idle"} : at' = [at EXCEPT ![p] = x]
    BY <1>3 DEF EndSuiteReturns, Goto, GotoWith, Reply
  <2>2. \A q \in Procs \ {p} : ~Writing(q)
    BY <1>0, <1>1, <1>3 DEF SuiteLock
  <2>3. \A q \in Procs : ~Writing(q)'
    BY <2>1, <2>2 DEF Writing, TypeOK, ControlType
  <2>4. CASE p = Host
    BY <1>1, <1>3, <2>2, <2>3, <2>4 DEF EndSuiteReturns
  <2>5. CASE p # Host
    <3>1. at[Host] \notin Terminating
      BY <1>0, <1>3, <2>5 DEF SuiteLock
    <3>2. at'[Host] = at[Host]
      BY <1>0, <2>1, <2>5 DEF TypeOK, ControlType
    <3> QED
      BY <2>2, <2>3, <3>1, <3>2
  <2> QED
    BY <2>4, <2>5
<1>4. CASE DoEndSuite(p)
  <2>0. /\ at[p] = "endSuite" /\ (p # Host => testSuiteMutex = None)
        /\ UNCHANGED <<runningTestSuites, results, summaryFiles, testSuiteCounter>>
    BY <1>4 DEF DoEndSuite, SuiteMutexFree
  <2>1. \A q \in Procs : ~Writing(q)
    BY <1>0, <1>1, <2>0 DEF SuiteLock, Writing
  <2>2. CASE MayEndSuite(s)
    <3>1. /\ testSuiteMutex' = p /\ at' = [at EXCEPT ![p] = "write"] /\ arg' = arg
          /\ s \in runningTestSuites
      BY <1>4, <2>2 DEF DoEndSuite, MayEndSuite, Goto
    <3>2. \A q \in Procs : Writing(q)' => q = p
      BY <2>1, <3>1 DEF Writing, TypeOK, ControlType
    <3>3. at'[Host] \in Terminating => p = Host
      BY <1>0, <2>0, <3>1 DEF SuiteLock, TypeOK, ControlType
    <3>4. \A q \in Procs : at[q] # "move" /\ at'[q] # "move"
      BY <2>1, <3>1 DEF Writing, TypeOK, ControlType
    <3> QED
      BY <2>0, <3>1, <3>2, <3>3, <3>4 DEF SuiteLock, Terminating, Suites
  <2>3. CASE EndSuiteReturns(p)
    BY <1>3, <2>0, <2>1, <2>3, SuiteQuiet DEF Writing
  <2> QED
    BY <1>4, <2>2, <2>3 DEF DoEndSuite
<1>5. CASE WriteSuiteFile(p) \/ MoveToResults(p)
  <2>1. Writing(p) /\ testSuiteMutex = p /\ s \in runningTestSuites
    BY <1>5 DEF WriteSuiteFile, MoveToResults, Writing, SuiteLock
  <2>2. \A q \in Procs \ {p} : ~Writing(q)
    BY <2>1 DEF SuiteLock
  <2>3. CASE WriteSuiteFile(p) /\ Goto(p, "move") /\ UNCHANGED <<testSuiteMutex, arg>>
             /\ summaryFiles' = [summaryFiles EXCEPT ![s] = @ + 1]
    <3>1. summaryFiles[s] = 0 /\ summaryFiles'[s] = 1
          /\ \A r \in Suites \ {s} : summaryFiles'[r] = summaryFiles[r]
      <4>1. \A q \in Procs : at[q] # "move"
        BY <2>2, <2>3 DEF WriteSuiteFile, Writing
      <4> QED
        BY <1>0, <2>1, <2>3, <4>1 DEF SuiteLock, TypeOK
    <3>2. at[p] = "write" /\ at'[p] = "move" /\ \A q \in Procs \ {p} : at'[q] = at[q]
      BY <2>3 DEF WriteSuiteFile, Goto, TypeOK, ControlType
    <3>3. UNCHANGED <<runningTestSuites, results, testSuiteCounter, testSuiteMutex, arg>>
      BY <2>3 DEF WriteSuiteFile
    <3>4. at'[Host] \in Terminating => testSuiteMutex = Host
      BY <1>0, <1>1, <3>2 DEF SuiteLock, Terminating
    <3>5. \A q \in Procs : at'[q] \in {"write", "move"} => q = p
      BY <2>2, <3>2 DEF Writing
    <3>6. \A r \in runningTestSuites :
            summaryFiles'[r] = 0 \/ \E q \in Procs : at'[q] = "move" /\ arg[q].suite = r
      BY <2>2, <3>1, <3>2 DEF SuiteLock, Writing, TypeOK
    <3>7. \A r \in results : summaryFiles'[r] = 1
      BY <2>1, <3>1 DEF SuiteLock, TypeOK
    <3>8. \A r \in Suites \ (runningTestSuites \cup results) : summaryFiles'[r] = 0
      BY <2>1, <3>1 DEF SuiteLock
    <3> QED
      BY <2>1, <3>1, <3>3, <3>4, <3>5, <3>6, <3>7, <3>8 DEF SuiteLock, Writing, Terminating, Suites
  <2>4. CASE WriteSuiteFile(p) /\ EndSuiteReturns(p) /\ UNCHANGED summaryFiles
    <3>1. at[p] = "write" /\ UNCHANGED <<runningTestSuites, results, testSuiteCounter>>
      BY <2>4 DEF WriteSuiteFile
    <3>2. \A q \in Procs : at[q] # "move"
      BY <2>2, <3>1 DEF Writing
    <3> QED
      BY <1>3, <2>1, <2>4, <3>1, <3>2, SuiteQuiet
  <2>5. CASE MoveToResults(p)
    <3>1. /\ EndSuiteReturns(p) /\ at[p] = "move" /\ summaryFiles[s] = 1
          /\ runningTestSuites' = runningTestSuites \ {s} /\ results' = results \cup {s}
          /\ UNCHANGED <<summaryFiles, testSuiteCounter>>
      BY <2>5 DEF MoveToResults, SuiteLock
    <3>2. /\ \A q \in Procs : ~Writing(q)'
          /\ at'[Host] \in Terminating => testSuiteMutex' = Host
      BY <1>3, <2>1, <3>1
    <3>3. \A r \in runningTestSuites \ {s} : summaryFiles[r] = 0
      BY <2>2 DEF SuiteLock, Writing
    <3>4. \A q \in Procs : at'[q] # "move"
      BY <3>2 DEF Writing
    <3>5. s < testSuiteCounter
      BY <1>0, <2>1 DEF SuiteLock, TypeOK, Suites
    <3>6. \A r \in Suites : r >= testSuiteCounter => r # s
      BY <1>0, <3>5 DEF TypeOK, Suites
    <3> QED
      BY <3>1, <3>2, <3>3, <3>4, <3>6 DEF SuiteLock, Terminating, Suites
  <2> QED
    BY <1>5, <2>3, <2>4, <2>5 DEF WriteSuiteFile
<1> QED
  BY <1>2, <1>4, <1>5

LEMMA SuiteNext == OwnerInv /\ SuiteLock /\ [Next]_vars => SuiteLock'
<1> SUFFICES ASSUME OwnerInv, SuiteLock, [Next]_vars PROVE SuiteLock'
  OBVIOUS
<1> USE DEF locks, suiteVars
<1>0. TypeOK /\ Host \in Procs /\ None \notin Procs /\ Handlers \subseteq Procs /\ Host \notin Handlers
  BY ManagerAssumption DEF OwnerInv, Procs
<1>1. ASSUME UNCHANGED <<at, arg, testSuiteMutex, runningTestSuites, results, summaryFiles, testSuiteCounter>>
      PROVE  SuiteLock'
  BY <1>1, SuiteQuiet DEF SuiteLock
<1>2. ASSUME NEW p \in Handlers, StartTestSuite(p) PROVE SuiteLock'
  <2>1. /\ runningTestSuites' = runningTestSuites \cup {testSuiteCounter}
        /\ testSuiteCounter' = testSuiteCounter + 1 /\ testSuiteMutex = None
        /\ UNCHANGED <<testSuiteMutex, results, summaryFiles>>
        /\ testSuiteCounter \in Suites /\ testSuiteCounter \in Nat
    BY <1>0, <1>2, ManagerAssumption DEF StartTestSuite, SuiteMutexFree, TypeOK, Suites
  <2>2. summaryFiles[testSuiteCounter] = 0 /\ testSuiteCounter \notin results
    BY <2>1 DEF SuiteLock
  <2>3. \A r \in Suites : r >= testSuiteCounter + 1 => r >= testSuiteCounter /\ r # testSuiteCounter
    BY <2>1 DEF Suites
  <2>4. (\A q \in Procs : ~Writing(q)) /\ at[Host] \notin Terminating
    BY <1>0, <2>1 DEF SuiteLock
  <2>5. \A q \in Procs : at[q] \notin {"write", "move"}
    BY <2>4 DEF Writing
  <2>6. \A q \in Procs : at'[q] = at[q] \/ at'[q] = "idle"
    BY <1>0, <1>2 DEF StartTestSuite, Reply, GotoWith, TypeOK, ControlType
  <2>7. /\ \A q \in Procs : at'[q] \notin {"write", "move"}
        /\ at'[Host] \notin Terminating
    BY <1>0, <2>4, <2>5, <2>6 DEF Terminating
  <2>8. /\ \A s \in runningTestSuites' : summaryFiles[s] = 0
        /\ \A s \in Suites : s >= testSuiteCounter' => s \notin runningTestSuites' \cup results
        /\ \A s \in Suites \ (runningTestSuites' \cup results) : summaryFiles[s] = 0
        /\ runningTestSuites' \cap results = {}
        /\ \A s \in results : summaryFiles[s] = 1
    BY <2>1, <2>2, <2>3, <2>5 DEF SuiteLock, Suites
  <2> QED
    BY <2>1, <2>7, <2>8 DEF SuiteLock, Writing, Terminating
<1>11. ASSUME NEW p \in Handlers, Arrive(p) \/ Refuse(p) PROVE SuiteLock'
  <2>1. p \in Procs /\ p # Host /\ ~Writing(p)
    BY <1>0, <1>11 DEF Arrive, Refuse, Writing
  <2>2. \E x \in {"suite?", "idle"} : at' = [at EXCEPT ![p] = x]
    BY <1>11 DEF Arrive, Refuse, Goto, GotoWith, Reply
  <2>3. /\ \A q \in Procs \ {p} : arg'[q] = arg[q]
        /\ UNCHANGED <<testSuiteMutex, runningTestSuites, results, summaryFiles, testSuiteCounter>>
    BY <1>0, <1>11 DEF Arrive, Refuse, GotoWith, Reply, TypeOK, ControlType
  <2> QED
    BY <1>0, <2>1, <2>2, <2>3, SuiteOther, StageType
<1>3. ASSUME NEW p \in Handlers, Receive(p) PROVE SuiteLock'
  <2>1. p \in Procs /\ p # Host /\ ~Writing(p)
    BY <1>0, <1>3 DEF Receive, Writing
  <2>2. \E x \in {"startTest", "endSuite", "test?"} : \E a : GotoWith(p, x, a)
    BY <1>3 DEF Receive
  <2>3. PICK x \in {"startTest", "endSuite", "test?"} : \E a : GotoWith(p, x, a)
    BY <2>2, Zenon
  <2>4. at' = [at EXCEPT ![p] = x] /\ \A q \in Procs \ {p} : arg'[q] = arg[q]
    BY <1>0, <2>1, <2>3 DEF GotoWith, TypeOK, ControlType
  <2>5. UNCHANGED <<testSuiteMutex, runningTestSuites, results, summaryFiles, testSuiteCounter>>
    BY <1>3 DEF Receive
  <2> QED
    BY <1>0, <2>1, <2>4, <2>5, SuiteOther, StageType
<1>4. ASSUME NEW p \in Procs, Step(p) PROVE SuiteLock'
  <2>1. CASE EndTest(p) \/ DoEndSuite(p) \/ WriteSuiteFile(p) \/ MoveToResults(p)
    BY <2>1, SuiteEnd
  <2>2. CASE ~(EndTest(p) \/ DoEndSuite(p) \/ WriteSuiteFile(p) \/ MoveToResults(p))
    BY <1>4, <2>2, SuiteStep DEF Step
  <2> QED
    BY <2>1, <2>2
<1>5. CASE Shutdown
  <2>1. /\ at' = [at EXCEPT ![Host] = "terminate"] /\ arg' = arg /\ ~Writing(Host)
        /\ UNCHANGED <<testSuiteMutex, runningTestSuites, results, summaryFiles, testSuiteCounter>>
    BY <1>5 DEF Shutdown, Goto, Writing
  <2> QED
    BY <1>0, <2>1, SuiteOther, StageType DEF Terminating
<1>6. CASE TerminateBegin \/ (TerminateSuite /\ testSuiteMutex' = None)
  <2>0. /\ \E x \in {"suites", "done"} : at' = [at EXCEPT ![Host] = x]
        /\ UNCHANGED <<runningTestSuites, results, summaryFiles, testSuiteCounter>>
        /\ at[Host] \in {"terminate", "suites"}
        /\ testSuiteMutex \in {None, Host}
        /\ at'[Host] \in Terminating => testSuiteMutex' = Host
    <3>1. CASE TerminateBegin
      BY <3>1 DEF TerminateBegin, Goto, SuiteMutexFree
    <3>2. CASE TerminateSuite /\ testSuiteMutex' = None
      <4>1. testSuiteMutex = Host
        BY <3>2 DEF TerminateSuite, SuiteLock, Terminating
      <4> QED
        BY <1>0, <3>2, <4>1 DEF TerminateSuite, GotoWith, Terminating, TypeOK, ControlType
    <3> QED
      BY <1>6, <3>1, <3>2
  <2>1. \A q \in Procs : ~Writing(q)
    BY <1>0, <2>0 DEF SuiteLock, Writing
  <2>2. \A q \in Procs : ~Writing(q)' /\ at[q] # "move"
    BY <1>0, <2>0, <2>1 DEF Writing, TypeOK, ControlType
  <2> QED
    BY <2>0, <2>2, SuiteQuiet
<1>7. CASE TerminateTest \/ (TerminateSuite /\ UNCHANGED testSuiteMutex)
  <2>1. /\ ~Writing(Host) /\ at[Host] \in Terminating
        /\ UNCHANGED <<testSuiteMutex, runningTestSuites, results, summaryFiles, testSuiteCounter>>
    BY <1>7 DEF TerminateTest, TerminateSuite, Writing, Terminating
  <2>2. \A q \in Procs \ {Host} : arg'[q] = arg[q]
    BY <1>0, <1>7 DEF TerminateTest, TerminateSuite, Goto, GotoWith, TypeOK, ControlType
  <2>3. \E x \in {"tests", "done", "endTest", "endSuite"} : at' = [at EXCEPT ![Host] = x]
    <3>1. CASE UNCHANGED at /\ at[Host] = "tests"
      BY <1>0, <3>1 DEF TypeOK, ControlType
    <3> QED
      BY <1>7, <3>1 DEF TerminateTest, TerminateSuite, Goto, GotoWith
  <2> QED
    BY <1>0, <2>1, <2>2, <2>3, SuiteOther, StageType
<1>8. ASSUME NEW n \in Nodes, ContainerExits(n) PROVE SuiteLock'
  BY <1>1, <1>8 DEF ContainerExits
<1>9. CASE UNCHANGED vars
  BY <1>1, <1>9 DEF vars
<1>10. TerminateSuite => testSuiteMutex' = None \/ UNCHANGED testSuiteMutex
  BY DEF TerminateSuite
<1> QED
  BY <1>2, <1>3, <1>4, <1>5, <1>6, <1>7, <1>8, <1>9, <1>10, <1>11
  DEF Next, Serve, Terminate, Finished

\* A suite is running or ended, and has exactly one summary when it has ended.
THEOREM SummariesAreSingle == Spec => []OneSummary
<1>1. TypeOK /\ SuiteLock => OneSummary
  <2> SUFFICES ASSUME TypeOK, SuiteLock PROVE OneSummary
    OBVIOUS
  <2>1. \A s \in Suites : summaryFiles[s] \in {0, 1}
    BY DEF SuiteLock
  <2> QED
    BY <2>1 DEF OneSummary, SuiteLock
<1> QED
  BY OwnerInit, OwnerNext, SuiteInit, SuiteNext, <1>1, PTL DEF Spec, OwnerInv
\* What has ended stays ended: a test's ID is never given to another.
LEMMA EndedStep ==
  TypeOK /\ [Next]_vars =>
    /\ results \subseteq results'
    /\ \A t \in 1 .. testCaseCounter : t \notin runningTestCases => t \notin runningTestCases'
<1> SUFFICES ASSUME TypeOK, [Next]_vars
             PROVE  /\ results \subseteq results'
                    /\ \A t \in 1 .. testCaseCounter :
                         t \notin runningTestCases => t \notin runningTestCases'
  OBVIOUS
<1> USE DEF locks, suiteVars, testVars
<1>1. ASSUME NEW p \in Procs, AddTest(p)
      PROVE  /\ UNCHANGED results
             /\ \A t \in 1 .. testCaseCounter :
                  t \notin runningTestCases => t \notin runningTestCases'
  BY <1>1 DEF AddTest, NextTestID, TypeOK
<1>2. ASSUME NEW p \in Procs, Step(p), ~AddTest(p)
      PROVE  results \subseteq results' /\ runningTestCases' \subseteq runningTestCases
  BY <1>2 DEF Step, RequestTest, StartTest, EndTest, StopNext, WaitReturns, EndTestDone, CreateContainer,
              ConnectNetworks, JoinNetwork, StartContainer, AddClientVersion, RegisterNode, StopNode,
              PauseNode, IsTestInSuite, GetNodeInfo, RegisterTarget, SetMultiTestContext,
              DoEndSuite, WriteSuiteFile, MoveToResults
<1>3. ASSUME \/ \E p \in Handlers : Arrive(p) \/ Serve(p)
             \/ Shutdown \/ Terminate
             \/ \E n \in Nodes : ContainerExits(n)
             \/ UNCHANGED vars
      PROVE  UNCHANGED <<results, runningTestCases>>
  BY <1>3 DEF Arrive, Serve, Refuse, StartTestSuite, Receive, Shutdown, Terminate, TerminateBegin, TerminateSuite,
              TerminateTest, ContainerExits, vars
<1> QED
  BY <1>1, <1>2, <1>3 DEF Next, Finished

\* A suite or test that has ended never runs again, in any interleaving.
THEOREM NothingRestarts == Spec => EndedStaysEnded
<1>1. TypeOK /\ [Next]_vars =>
        [/\ results \subseteq results'
         /\ \A t \in 1 .. testCaseCounter :
              t \notin runningTestCases => t \notin runningTestCases']_vars
  BY EndedStep
<1> QED
  BY TypeInit, TypeNext, <1>1, PTL DEF Spec, EndedStaysEnded

-----------------------------------------------------------------------------
(* Deadlock                                                                 *)

\* Who has testSuiteMutex: a handler only while it writes and moves a suite, Host
\* all through Terminate.  (SuiteLock says that those have the mutex.)
Holds(p) == IF p = Host THEN at[p] \in Terminating ELSE Writing(p)
SuiteHolder == \A p \in Procs : testSuiteMutex = p => Holds(p)

LEMMA HolderInit == Init => SuiteHolder
  BY ManagerAssumption DEF Init, SuiteHolder, Procs

\* A goroutine moves, and takes, keeps or gives up testSuiteMutex.
LEMMA HolderMoves ==
  ASSUME TypeOK, SuiteHolder, NEW p \in Procs, NEW x \in Stage,
         at' = [at EXCEPT ![p] = x],
         testSuiteMutex' \in {testSuiteMutex, p, None},
         testSuiteMutex' = p =>
           IF p = Host THEN x \in Terminating ELSE x \in {"write", "move"}
  PROVE  SuiteHolder'
<1>1. at'[p] = x /\ \A q \in Procs \ {p} : at'[q] = at[q]
  BY DEF TypeOK, ControlType
<1>2. None \notin Procs
  BY ManagerAssumption DEF Procs
<1>3. ASSUME NEW q \in Procs, testSuiteMutex' = q PROVE Holds(q)'
  <2>1. CASE q = p
    BY <1>1, <1>3, <2>1 DEF Holds, Writing, Terminating
  <2>2. CASE q # p
    <3>1. testSuiteMutex = q /\ at'[q] = at[q]
      BY <1>1, <1>2, <1>3, <2>2
    <3> QED  BY <3>1 DEF SuiteHolder, Holds, Writing, Terminating
  <2> QED  BY <2>1, <2>2
<1> QED  BY <1>3 DEF SuiteHolder

\* A step of a goroutine that serves a request, or of Terminate.
LEMMA HolderStep ==
  ASSUME OwnerInv, SuiteLock, SuiteHolder, NEW p \in Procs, Step(p)
  PROVE  SuiteHolder'
<1> USE DEF OwnerInv, locks
<1>0. Host \in Procs /\ (p # Host => p \in Handlers)
  BY DEF Procs
<1>1. CASE EndTest(p)
  <2>1. CASE MayEndTest(arg[p].suite, arg[p].test)
    <3>1. at' = [at EXCEPT ![p] = "stopping"] /\ UNCHANGED testSuiteMutex /\ at[p] = "endTest"
      BY <1>1, <2>1 DEF EndTest, Goto
    <3>2. p # Host => testSuiteMutex' # p
      BY <3>1 DEF SuiteHolder, Holds, Writing
    <3> QED  BY <3>1, <3>2, StageType, HolderMoves DEF Terminating
  <2>2. CASE ~MayEndTest(arg[p].suite, arg[p].test)
    <3>1. /\ \E x \in {"idle", "done"} : at' = [at EXCEPT ![p] = x]
          /\ at[p] = "endTest"
          /\ IF p = Host THEN testSuiteMutex' = None ELSE UNCHANGED testSuiteMutex
      BY <1>1, <2>2 DEF EndTest, GotoWith, Reply
    <3>2. testSuiteMutex' # p /\ testSuiteMutex' \in {testSuiteMutex, p, None}
      BY <3>1, ManagerAssumption DEF SuiteHolder, Holds, Writing, Procs
    <3> QED  BY <3>1, <3>2, StageType, HolderMoves
  <2> QED  BY <2>1, <2>2
<1>2. CASE DoEndSuite(p) \/ WriteSuiteFile(p) \/ MoveToResults(p)
  <2>1. p = Host => testSuiteMutex = Host
    BY <1>2 DEF DoEndSuite, WriteSuiteFile, MoveToResults, SuiteLock, Terminating
  <2>2. CASE EndSuiteReturns(p)
    <3>1. CASE p = Host
      BY <2>1, <2>2, <3>1, StageType, HolderMoves DEF EndSuiteReturns, Goto, Terminating
    <3>2. CASE p # Host
      <4>1. at' = [at EXCEPT ![p] = "idle"] /\ testSuiteMutex' = None /\ None # p
        BY <2>2, <3>2, ManagerAssumption DEF EndSuiteReturns, Reply, GotoWith, Procs
      <4> QED  BY <4>1, StageType, HolderMoves
    <3> QED  BY <3>1, <3>2
  <2>3. CASE ~EndSuiteReturns(p)
    <3>1. /\ \E x \in {"write", "move"} : at' = [at EXCEPT ![p] = x]
          /\ testSuiteMutex' \in {testSuiteMutex, p}
      BY <1>2, <2>3 DEF DoEndSuite, WriteSuiteFile, MoveToResults, Goto
    <3> QED  BY <3>1, StageType, HolderMoves DEF Terminating
  <2> QED  BY <2>2, <2>3
<1>3. CASE p = Host /\ (StopNext(p) \/ WaitReturns(p) \/ EndTestDone(p))
  <2>1. /\ \E x \in {"stopping", "waiting", "tests"} : at' = [at EXCEPT ![p] = x]
        /\ UNCHANGED testSuiteMutex
    <3>1. CASE StopNext(p) /\ UNCHANGED at
      <4>1. at' = [at EXCEPT ![p] = "stopping"]
        BY <3>1 DEF StopNext, TypeOK, ControlType
      <4> QED  BY <3>1, <4>1 DEF StopNext
    <3>2. CASE StopNext(p) /\ ~UNCHANGED at
      BY <3>2 DEF StopNext, GotoWith
    <3>3. CASE WaitReturns(p) \/ EndTestDone(p)
      BY <1>3, <3>3 DEF WaitReturns, EndTestDone, Goto, GotoWith
    <3> QED  BY <1>3, <3>1, <3>2, <3>3
  <2> QED  BY <1>3, <2>1, StageType, HolderMoves DEF Terminating
<1>4. CASE p = Host /\ ~(\/ EndTest(p) \/ DoEndSuite(p) \/ WriteSuiteFile(p) \/ MoveToResults(p)
                        \/ StopNext(p) \/ WaitReturns(p) \/ EndTestDone(p))
  \* Terminate makes no other step.
  BY <1>4
  DEF Control, Terminating, Step, RequestTest, StartTest, AddTest, CreateContainer,
      ConnectNetworks, JoinNetwork, StartContainer, AddClientVersion, RegisterNode, StopNode, PauseNode,
      IsTestInSuite, GetNodeInfo, RegisterTarget, SetMultiTestContext
<1>5. CASE p # Host /\ ~(EndTest(p) \/ DoEndSuite(p) \/ WriteSuiteFile(p) \/ MoveToResults(p))
  <2>1. PICK x \in Stage \ {"write", "move"} : at' = [at EXCEPT ![p] = x]
    BY <1>5, SuiteMoves DEF Step
  <2>2. at[p] \notin {"write", "move"} /\ UNCHANGED testSuiteMutex
    BY <1>5, SuiteMoves DEF Step
  <2>3. testSuiteMutex' # p
    BY <1>5, <2>2 DEF SuiteHolder, Holds, Writing
  <2> QED  BY <2>1, <2>2, <2>3, HolderMoves
<1> QED  BY <1>1, <1>2, <1>3, <1>4, <1>5

LEMMA HolderNext == OwnerInv /\ SuiteLock /\ SuiteHolder /\ [Next]_vars => SuiteHolder'
<1> SUFFICES ASSUME OwnerInv, SuiteLock, SuiteHolder, [Next]_vars PROVE SuiteHolder'
  OBVIOUS
<1> USE DEF locks
<1>0. TypeOK /\ Host \in Procs /\ None \notin Procs /\ Handlers \subseteq Procs /\ Host \notin Handlers
  BY ManagerAssumption DEF OwnerInv, Procs
<1>1. ASSUME UNCHANGED <<at, testSuiteMutex>> PROVE SuiteHolder'
  BY <1>1 DEF SuiteHolder, Holds, Writing, Terminating
<1>2. ASSUME NEW p \in Handlers, Arrive(p) \/ Refuse(p) \/ StartTestSuite(p) PROVE SuiteHolder'
  <2>1. \E x \in {"suite?", "idle"} : at' = [at EXCEPT ![p] = x]
    BY <1>2 DEF Arrive, Refuse, StartTestSuite, Goto, GotoWith, Reply
  <2>2. UNCHANGED testSuiteMutex /\ testSuiteMutex # p
    BY <1>0, <1>2 DEF Arrive, Refuse, StartTestSuite, SuiteHolder, Holds, Writing
  <2> QED  BY <1>0, <2>1, <2>2, StageType, HolderMoves
<1>3. ASSUME NEW p \in Handlers, Receive(p) PROVE SuiteHolder'
  <2>1. \E x \in {"startTest", "endSuite", "test?"} : at' = [at EXCEPT ![p] = x]
    BY <1>3 DEF Receive, GotoWith
  <2>2. UNCHANGED testSuiteMutex /\ testSuiteMutex # p
    BY <1>0, <1>3 DEF Receive, SuiteMutexFree
  <2> QED  BY <1>0, <2>1, <2>2, StageType, HolderMoves
<1>4. ASSUME NEW p \in Procs, Step(p) PROVE SuiteHolder'
  BY <1>4, HolderStep
<1>5. CASE Shutdown
  <2>1. at' = [at EXCEPT ![Host] = "terminate"] /\ UNCHANGED testSuiteMutex
    BY <1>5 DEF Shutdown, Goto
  <2>2. testSuiteMutex # Host
    BY <1>0, <1>5 DEF Shutdown, SuiteHolder, Holds, Terminating
  <2> QED  BY <1>0, <2>1, <2>2, StageType, HolderMoves
<1>6. CASE TerminateBegin
  BY <1>0, <1>6, StageType, HolderMoves DEF TerminateBegin, Goto, Terminating
<1>7. CASE TerminateSuite
  <2>1. \/ at' = [at EXCEPT ![Host] = "tests"] /\ UNCHANGED testSuiteMutex
        \/ at' = [at EXCEPT ![Host] = "done"] /\ testSuiteMutex' = None
    BY <1>7 DEF TerminateSuite, GotoWith
  <2> QED  BY <1>0, <2>1, StageType, HolderMoves DEF Terminating
<1>8. CASE TerminateTest
  <2>1. UNCHANGED testSuiteMutex
    BY <1>8 DEF TerminateTest
  <2>2. UNCHANGED at \/ \E x \in {"endTest", "endSuite"} : at' = [at EXCEPT ![Host] = x]
    BY <1>8 DEF TerminateTest, Goto, GotoWith
  <2> QED  BY <1>0, <1>1, <2>1, <2>2, StageType, HolderMoves DEF Terminating
<1>9. ASSUME NEW n \in Nodes, ContainerExits(n) PROVE SuiteHolder'
  BY <1>1, <1>9 DEF ContainerExits
<1>10. CASE UNCHANGED vars
  BY <1>1, <1>10 DEF vars
<1> QED
  BY <1>2, <1>3, <1>4, <1>5, <1>6, <1>7, <1>8, <1>9, <1>10
  DEF Next, Serve, Terminate, Finished

\* Whoever has testCaseMutex waits for nothing; if nobody has it, whoever has
\* testSuiteMutex does not wait either, unless it is for a reader of networkMutex; and
\* if that is free too, one that waits for the readers of it lets a reader go first,
\* which waits for nothing.
LEMMA SomeoneGoesOn ==
  ASSUME OwnerInv, CaseLock, SuiteHolder, SuiteLock
  PROVE  OnlyInversionDeadlocks
<1> USE DEF OwnerInv
<1> SUFFICES ASSUME NEW p \in Procs, Busy(p), ~Inverted
             PROVE  \E q \in Procs : Busy(q) /\ ~Waits(q)
  BY DEF OnlyInversionDeadlocks
<1>0. \A q \in Procs : at[q] = "move" => NetworkReaders = {}
  BY DEF Inverted, NetworkReaders
<1>1. CASE ~CaseMutexFree
  <2>1. PICK h \in Procs : testCaseMutex = h
    BY <1>1 DEF CaseMutexFree, TypeOK
  <2>2. at[h] \in {"stopping", "waiting", "addTest"}
    BY <2>1 DEF CaseLock, Ending, Adding
  <2>3. Busy(h) /\ ~Waits(h)
    BY <2>2 DEF Busy, Waits
  <2> QED  BY <2>3
<1>2. CASE CaseMutexFree /\ ~SuiteMutexFree
  <2>1. PICK h \in Procs : testSuiteMutex = h
    BY <1>2 DEF SuiteMutexFree, TypeOK
  <2>2. IF h = Host THEN at[h] \in Terminating ELSE at[h] \in {"write", "move"}
    BY <2>1 DEF SuiteHolder, Holds, Writing
  <2>3. Busy(h) /\ ~Waits(h)
    BY <1>0, <1>2, <2>2 DEF Busy, Waits, Terminating
  <2> QED  BY <2>3
<1>3. CASE CaseMutexFree /\ SuiteMutexFree /\ \E q \in Procs : at[q] = "inSuite"
  <2>1. PICK q \in Procs : at[q] = "inSuite"
    BY <1>3
  <2>2. Busy(q) /\ ~Waits(q)
    BY <1>3, <2>1 DEF Busy, Waits
  <2> QED  BY <2>2
<1>4. CASE CaseMutexFree /\ SuiteMutexFree /\ \A q \in Procs : at[q] # "inSuite"
  <2>1. \A q \in Procs : at[q] # "move"
    BY <1>4, ManagerAssumption DEF SuiteLock, Writing, SuiteMutexFree, Procs
  <2>2. ~Waits(p)
    BY <1>4, <2>1 DEF Waits
  <2> QED  BY <2>2
<1> QED  BY <1>1, <1>2, <1>3, <1>4

\* Requests and Terminate never all wait for each other's mutexes, but for an inversion:
\* Terminate keeps testSuiteMutex, and IsTestInSuite a read lock of it, while they take
\* testCaseMutex, and no goroutine takes the two in the other order; only ConnectContainer
\* takes testSuiteMutex under another mutex.
THEOREM RequestsGoOn == Spec => []OnlyInversionDeadlocks
<1>1. Spec => []OwnerInv
  BY OwnerInit, OwnerNext, PTL DEF Spec
<1>2. Spec => [](CaseLock /\ SuiteLock /\ SuiteHolder)
  <2>1. OwnerInv /\ (CaseLock /\ SuiteLock /\ SuiteHolder) /\ [Next]_vars
          => (CaseLock /\ SuiteLock /\ SuiteHolder)'
    BY CaseNext, SuiteNext, HolderNext
  <2>2. Init => CaseLock /\ SuiteLock /\ SuiteHolder
    BY CaseInit, SuiteInit, HolderInit
  <2> QED  BY <1>1, <2>1, <2>2, PTL DEF Spec
<1> QED
  BY <1>1, <1>2, SomeoneGoesOn, PTL
=============================================================================
