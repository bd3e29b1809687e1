---------------------------- MODULE ClientProofs ----------------------------
(***************************************************************************)
(* What TestManager's tests and suites know of their clients, for every    *)
(* value of the constants: a running test owns the client started for it,  *)
(* and a running suite knows the versions of its clients.                  *)
(***************************************************************************)
EXTENDS LedgerProofs

\* A request that has named test case t of its suite and may still register a node.
AsksShare(p) == \/ at[p] \in {"inSuite", "getNode", "target"}
                \/ at[p] = "test?" /\ arg[p].next = "inSuite"
Registering == Starting \cup {"test?", "create", "inSuite", "getNode", "target"}

\* What the manager and the backend agree on: only tests that have been started
\* are named in requests, labels and ClientInfo, only containers that have been
\* created are registered or shared, and the entry startClient is about to register
\* has a wait function when the container is up.
KnownRequest(p) ==
  /\ arg[p].test <= testCaseCounter
  /\ at[p] \in {"connect", "join", "start"} => ~Up(arg[p].node)
  /\ at[p] \in {"version", "register"} =>
       arg[p].entry # "absent" /\ (Up(arg[p].node) => arg[p].entry = "wait")
  /\ AsksShare(p) => arg[p].node \in Nodes /\ container[arg[p].node] # "none"
  /\ at[p] = "waiting" => arg[p].node \in Nodes /\ clientInfo[arg[p].test][arg[p].node] # "absent"
Known ==
  /\ \A t \in Tests, n \in Nodes :
       clientInfo[t][n] # "absent" => t <= testCaseCounter /\ container[n] # "none"
  /\ \A n \in Nodes : label[n] <= testCaseCounter
  /\ \A p \in Procs : KnownRequest(p)
KnownInv == LedgerInv /\ Known

\* A request to share a client names the test that started it, and another one.
SharesOwn(p) ==
  AsksShare(p) => label[arg[p].node] = arg[p].test /\ arg[p].other # arg[p].test
OwnedInv == KnownInv /\ (\A p \in Procs : SharesOwn(p)) /\ RunningClientOwned

\* A request names a test of its suite, and what it is about to register is the
\* client whose version it has added, or one that a test of the suite lists already.
NamesMember(p) ==
  /\ at[p] \in Registering =>
       arg[p].suite < testSuiteCounter /\ arg[p].test \in testCases[arg[p].suite]
  /\ at[p] \in {"getNode", "target"} => arg[p].other \in testCases[arg[p].suite]
  /\ at[p] = "register" /\ arg[p].suite \in runningTestSuites => clientVersions[arg[p].suite]
  /\ at[p] = "target" => clientInfo[arg[p].test][arg[p].node] # "absent"
\* The test cases of a suite: numbers handed out already, each to one suite.
Members ==
  /\ \A s \in Suites : testCases[s] \subseteq 1 .. testCaseCounter
  /\ \A s \in Suites : s >= testSuiteCounter => testCases[s] = {}
  /\ \A s, r \in Suites : testCases[s] \cap testCases[r] # {} => s = r
VersionInv == KnownInv /\ (\A p \in Procs : NamesMember(p)) /\ Members /\ VersionKnown

-----------------------------------------------------------------------------
(* What no step takes back                                                  *)

LEMMA Types ==
  ASSUME LedgerInv
  PROVE  /\ TypeOK /\ ControlType /\ Host \in Procs /\ Handlers \subseteq Procs
         /\ \A p \in Handlers : p # Host
         /\ testCaseCounter \in Nat /\ testSuiteCounter \in Nat
         /\ \A p \in Procs : arg[p] \in Args /\ arg[p].test \in Nat /\ arg[p].suite \in Suites
  BY ManagerAssumption, ArgsType
  DEF LedgerInv, OwnerInv, TypeOK, ControlType, Procs, Tests, NoTest

\* Suites and tests are only added; a suite that starts has the next number.
LEMMA SuitesGrow ==
  ASSUME LedgerInv, [Next]_vars
  PROVE  /\ testCaseCounter <= testCaseCounter' /\ testSuiteCounter <= testSuiteCounter'
         /\ \A s \in Suites : testCases[s] \subseteq testCases'[s]
         /\ \A s \in Suites : clientVersions[s] => clientVersions'[s]
         /\ \A s \in runningTestSuites' : s \in runningTestSuites \/ s = testSuiteCounter
<1> USE DEF locks, suiteVars, testVars
<1>0. TypeOK /\ testCaseCounter \in Nat /\ testSuiteCounter \in Nat
  BY Types
<1>1. ASSUME NEW p \in Procs, Step(p), ~AddTest(p), ~AddClientVersion(p), ~MoveToResults(p)
      PROVE  UNCHANGED <<testCaseCounter, testSuiteCounter, testCases, clientVersions,
                         runningTestSuites>>
  BY <1>1
  DEF Step, RequestTest, StartTest, EndTest, StopNext, WaitReturns, EndTestDone,
      CreateContainer, ConnectNetworks, JoinNetwork, StartContainer, RegisterNode,
      StopNode, PauseNode, IsTestInSuite, GetNodeInfo, RegisterTarget, SetMultiTestContext,
      DoEndSuite, WriteSuiteFile
<1>2. CASE \E p \in Procs : AddTest(p)
  BY <1>0, <1>2 DEF AddTest, NextTestID, TypeOK
<1>3. CASE \E p \in Procs : AddClientVersion(p)
  BY <1>0, <1>3 DEF AddClientVersion, TypeOK
<1>4. CASE \E p \in Procs : MoveToResults(p)
  BY <1>0, <1>4 DEF MoveToResults
<1>5. CASE \E p \in Handlers : StartTestSuite(p)
  BY <1>0, <1>5 DEF StartTestSuite
<1>6. CASE \/ \E p \in Handlers : Arrive(p) \/ Receive(p) \/ Refuse(p)
           \/ Shutdown \/ Terminate \/ (\E n \in Nodes : ContainerExits(n)) \/ UNCHANGED vars
  BY <1>0, <1>6
  DEF Arrive, Receive, Refuse, Shutdown, Terminate, TerminateBegin, TerminateSuite,
      TerminateTest, ContainerExits, vars
<1> QED
  BY <1>0, <1>1, <1>2, <1>3, <1>4, <1>5, <1>6 DEF Next, Serve, Finished

\* A test that starts has the next number.
LEMMA TestsStart ==
  ASSUME LedgerInv, [Next]_vars
  PROVE  /\ \A t \in runningTestCases' : t \in runningTestCases \/ t = testCaseCounter + 1
         /\ \A s \in Suites : \A t \in testCases'[s] : t \in testCases[s] \/ t = testCaseCounter + 1
<1> USE DEF testVars
<1>1. ASSUME NEW p \in Procs, AddTest(p)
      PROVE  /\ runningTestCases' \subseteq runningTestCases \cup {testCaseCounter + 1}
             /\ \A s \in Suites : testCases'[s] \subseteq testCases[s] \cup {testCaseCounter + 1}
  <2>1. CASE testCaseCounter < MaxTests
    <3>1. /\ runningTestCases' = runningTestCases \cup {testCaseCounter + 1}
          /\ testCases' = [testCases EXCEPT ![arg[p].suite] = @ \cup {testCaseCounter + 1}]
      BY <1>1, <2>1 DEF AddTest, NextTestID
    <3>2. testCases \in [Suites -> SUBSET Tests]
      BY Types DEF TypeOK
    <3> QED
      BY <3>1, <3>2
  <2>2. CASE ~(testCaseCounter < MaxTests)
    <3>1. UNCHANGED <<runningTestCases, testCases>>
      BY <1>1, <2>2 DEF AddTest
    <3> QED
      BY <3>1
  <2> QED
    BY <2>1, <2>2
<1>2. ASSUME NEW p \in Procs, Step(p), ~AddTest(p)
      PROVE  runningTestCases' \subseteq runningTestCases /\ testCases' = testCases
  BY <1>2
  DEF Step, RequestTest, StartTest, EndTest, StopNext, WaitReturns,
      EndTestDone, CreateContainer, ConnectNetworks, JoinNetwork, StartContainer, AddClientVersion,
      RegisterNode, StopNode, PauseNode, IsTestInSuite, GetNodeInfo, RegisterTarget,
      SetMultiTestContext, DoEndSuite, WriteSuiteFile, MoveToResults
<1>3. ASSUME \A p \in Procs : ~Step(p)
      PROVE  runningTestCases' = runningTestCases /\ testCases' = testCases
  BY <1>3
  DEF Next, Arrive, Serve, Refuse, StartTestSuite, Receive, Shutdown, Terminate, TerminateBegin, TerminateSuite,
      TerminateTest, ContainerExits, Finished, vars
<1> QED
  BY <1>1, <1>2, <1>3

\* The steps that change no client.
LEMMA ClientsStay ==
  ASSUME LedgerInv, [Next]_vars,
         \A p \in Procs :
           ~(\/ StopNext(p) \/ WaitReturns(p) \/ CreateContainer(p) \/ StartContainer(p)
             \/ RegisterNode(p) \/ StopNode(p) \/ PauseNode(p) \/ RegisterTarget(p)),
         \A n \in Nodes : ~ContainerExits(n)
  PROVE  UNCHANGED clientVars
<1> USE DEF clientVars
<1>1. ASSUME NEW p \in Procs, Step(p) PROVE UNCHANGED clientVars
  BY <1>1
  DEF Step, RequestTest, StartTest, AddTest, EndTest, EndTestDone, ConnectNetworks, JoinNetwork,
      AddClientVersion, IsTestInSuite, GetNodeInfo, SetMultiTestContext,
      DoEndSuite, WriteSuiteFile, MoveToResults
<1> QED
  BY <1>1
  DEF Next, Arrive, Serve, Refuse, StartTestSuite, Receive, Shutdown, Terminate, TerminateBegin, TerminateSuite,
      TerminateTest, Finished, vars

\* A container that was created keeps its label, a node that was registered stays
\* registered, and containers come up in StartContainer only.
LEMMA ClientsGrow ==
  ASSUME KnownInv, [Next]_vars
  PROVE  /\ \A n \in Nodes : container[n] # "none" => container'[n] # "none" /\ label'[n] = label[n]
         /\ \A t \in Tests, n \in Nodes : clientInfo[t][n] # "absent" => clientInfo'[t][n] # "absent"
         /\ \A n \in Nodes : Up(n)' => \/ Up(n)
                                      \/ \E p \in Procs : /\ at[p] = "start" /\ at'[p] # "start"
                                                       /\ arg[p].node = n
<1> USE DEF clientVars
<1>0. TypeOK /\ (\A p \in Procs : at[p] = "register" => arg[p].entry # "absent")
      /\ (\A p \in Procs : at[p] = "target" => arg[p].entry = "nil")
  BY Types DEF KnownInv, Known, KnownRequest, LedgerInv, OwnerInv, Control, Fits
<1>1. CASE \E p \in Procs : StopNext(p)
  BY <1>0, <1>1 DEF StopNext, SetEntry, Unstopped, Up, TypeOK
<1>2. CASE \E p \in Procs : WaitReturns(p)
  BY <1>0, <1>2 DEF WaitReturns, SetEntry, Up, TypeOK
<1>3. CASE \E p \in Procs : StopNode(p) \/ PauseNode(p)
  <2>1. CASE \E p \in Procs : StopNode(p)
    BY <1>0, <2>1 DEF StopNode, SetEntry, Up, TypeOK
  <2>2. CASE \E p \in Procs : PauseNode(p)
    BY <1>0, <2>2 DEF PauseNode, Up, TypeOK
  <2> QED
    BY <1>3, <2>1, <2>2
<1>4. CASE \E p \in Procs : CreateContainer(p)
  BY <1>0, <1>4 DEF CreateContainer, Up, TypeOK
<1>5. CASE \E p \in Procs : StartContainer(p)
  <2>1. PICK p \in Procs : StartContainer(p)
    BY <1>5
  <2>2. at[p] = "start" /\ at'[p] # "start"
    BY <1>0, <2>1 DEF StartContainer, GotoWith, Reply, TypeOK, ControlType
  <2> QED
    BY <1>0, <2>1, <2>2 DEF StartContainer, Up, TypeOK
<1>6. CASE \E p \in Procs : RegisterNode(p) \/ RegisterTarget(p)
  BY <1>0, <1>6 DEF RegisterNode, RegisterTarget, SetEntry, Up, TypeOK
<1>7. CASE \E n \in Nodes : ContainerExits(n)
  BY <1>0, <1>7 DEF ContainerExits, Up, TypeOK
<1>8. CASE UNCHANGED clientVars
  BY <1>8 DEF Up
<1> QED
  BY <1>1, <1>2, <1>3, <1>4, <1>5, <1>6, <1>7, <1>8, ClientsStay DEF KnownInv

\* A handler between two requests, or one whose request is answered at once.
BeginsRequest(p) ==
  /\ at[p] \in {"suite?", "idle"} /\ at'[p] \in {"suite?", "idle"}
  /\ arg'[p] \in {arg[p], NoArgs}

\* A goroutine moves by a step of its own.
LEMMA Mover ==
  ASSUME LedgerInv, [Next]_vars, NEW p \in Procs
  PROVE  \/ at'[p] = at[p] /\ arg'[p] = arg[p]
         \/ Step(p)
         \/ p \in Handlers /\ (Receive(p) \/ BeginsRequest(p))
         \/ p = Host /\ (Shutdown \/ Terminate)
<1>0. TypeOK /\ ControlType /\ Host \in Procs /\ Handlers \subseteq Procs
  BY Types
<1>1. ASSUME NEW q \in Procs, Step(q), q # p PROVE at'[p] = at[p] /\ arg'[p] = arg[p]
  <2>1. CASE EndTest(q) \/ StopNext(q) \/ WaitReturns(q) \/ EndTestDone(q) \/ StartTest(q) \/ AddTest(q)
    BY <1>0, <1>1, <2>1
    DEF EndTest, StopNext, WaitReturns, EndTestDone, StartTest, AddTest, Goto, GotoWith, Reply,
        ControlType
  <2>2. CASE ~(\/ EndTest(q) \/ StopNext(q) \/ WaitReturns(q) \/ EndTestDone(q)
               \/ StartTest(q) \/ AddTest(q))
    <3>1. PICK x \in Stage : /\ at' = [at EXCEPT ![q] = x]
                             /\ \A r \in Procs \ {q} : arg'[r] = arg[r]
      BY <1>1, <2>2, OtherMoves DEF LedgerInv, Step
    <3> QED
      BY <1>0, <1>1, <3>1 DEF ControlType
  <2> QED
    BY <2>1, <2>2
<1>2. ASSUME NEW q \in Handlers, Receive(q), q # p PROVE at'[p] = at[p] /\ arg'[p] = arg[p]
  <2>1. \E x, a : GotoWith(q, x, a)
    BY <1>2 DEF Receive
  <2>2. PICK x, a : GotoWith(q, x, a)
    BY <2>1, Zenon
  <2> QED
    BY <1>0, <1>2, <2>2 DEF GotoWith, ControlType
<1>3. ASSUME Shutdown \/ Terminate, p # Host PROVE at'[p] = at[p] /\ arg'[p] = arg[p]
  BY <1>0, <1>3
  DEF Shutdown, Terminate, TerminateBegin, TerminateSuite, TerminateTest, Goto, GotoWith, ControlType
<1>4. ASSUME (\E n \in Nodes : ContainerExits(n)) \/ UNCHANGED vars
      PROVE  at'[p] = at[p] /\ arg'[p] = arg[p]
  BY <1>4 DEF ContainerExits, vars
<1>5. ASSUME NEW q \in Handlers, Arrive(q) \/ Refuse(q) \/ StartTestSuite(q)
      PROVE  \/ at'[p] = at[p] /\ arg'[p] = arg[p]
             \/ p \in Handlers /\ BeginsRequest(p)
  <2>1. PICK x \in {"suite?", "idle"} : at' = [at EXCEPT ![q] = x]
    BY <1>5, ServeMoves
  <2>2. CASE q # p
    BY <1>0, <1>5, <2>1, <2>2, ServeMoves DEF ControlType
  <2>3. CASE q = p
    BY <1>0, <1>5, <2>1, <2>3, ServeMoves DEF ControlType, BeginsRequest
  <2> QED
    BY <2>2, <2>3
<1> QED
  BY <1>1, <1>2, <1>3, <1>4, <1>5 DEF Next, Serve, Finished

-----------------------------------------------------------------------------
(* What the manager and the backend agree on                                *)

LEMMA KnownInit == Init => Known
  BY DEF Init, Known, KnownRequest, AsksShare, NoArgs, Request, NoTest

\* What a goroutine that does not move knows stays true.
LEMMA KnownStays ==
  ASSUME KnownInv, [Next]_vars, NEW p \in Procs, at'[p] = at[p], arg'[p] = arg[p]
  PROVE  KnownRequest(p)'
<1>1. arg'[p].test <= testCaseCounter'
  <2>1. testCaseCounter' \in Nat
    BY TypeNext, Types DEF TypeOK, LedgerInv, OwnerInv, KnownInv
  <2> QED
    BY <2>1, SuitesGrow, Types DEF KnownInv, Known, KnownRequest
<1>2. ASSUME at[p] \in Starting, Up(arg[p].node)' PROVE Up(arg[p].node)
  <2>1. arg[p].node \in Nodes
    BY <1>2 DEF KnownInv, LedgerInv, OwnerInv, Private
  <2>2. ASSUME NEW q \in Procs, at[q] = "start", at'[q] # "start", arg[q].node = arg[p].node
        PROVE  FALSE
    BY <1>2, <2>2 DEF KnownInv, LedgerInv, OwnerInv, Private, Starting
  <2> QED
    BY <1>2, <2>1, <2>2, ClientsGrow DEF Up
<1>3. AsksShare(p)' => arg'[p].node \in Nodes /\ container'[arg'[p].node] # "none"
  BY ClientsGrow DEF KnownInv, Known, KnownRequest, AsksShare
<1>4. at[p] = "waiting" => arg[p].node \in Nodes /\ clientInfo'[arg[p].test][arg[p].node] # "absent"
  BY ClientsGrow DEF KnownInv, Known, KnownRequest, LedgerInv, OwnerInv, Control, Fits
<1> QED
  BY <1>1, <1>2, <1>3, <1>4 DEF KnownInv, Known, KnownRequest, Starting, Up

\* The test a request names has been started, whichever step the goroutine takes.
LEMMA NamedTestStarted ==
  ASSUME KnownInv, [Next]_vars, NEW p \in Procs
  PROVE  arg'[p].test <= testCaseCounter'
<1>0. /\ TypeOK /\ ControlType /\ testCaseCounter \in Nat /\ testCaseCounter' \in Nat
      /\ testCaseCounter <= testCaseCounter' /\ arg[p].test <= testCaseCounter
      /\ Host \in Procs /\ Handlers \subseteq Procs /\ arg[p] \in Args /\ arg[p].test \in Nat
  BY TypeNext, Types, SuitesGrow DEF TypeOK, KnownInv, Known, KnownRequest, LedgerInv, OwnerInv
<1>1. ASSUME arg'[p].test \in 0 .. testCaseCounter PROVE arg'[p].test <= testCaseCounter'
  BY <1>0, <1>1
<1>2. /\ \A a : arg' = [arg EXCEPT ![p] = a] => arg'[p] = a
      /\ \A a : arg' = [arg EXCEPT ![Host] = a] /\ p # Host => arg'[p] = arg[p]
      /\ NoArgs.test = 0
      /\ \A e : [arg[p] EXCEPT !.entry = e].test = arg[p].test
      /\ \A n : [arg[p] EXCEPT !.node = n].test = arg[p].test
  BY <1>0, ArgsFields DEF ControlType, NoArgs, Request, NoTest
<1>3. CASE Step(p)
  <2>1. arg'[p] \in {arg[p], NoArgs}
        \/ (\E e : arg'[p] = [arg[p] EXCEPT !.entry = e])
        \/ (\E n : arg'[p] = [arg[p] EXCEPT !.node = n])
    <3>1. CASE RequestTest(p) \/ StartTest(p) \/ AddTest(p) \/ EndTest(p) \/ EndTestDone(p)
      BY <1>2, <3>1 DEF RequestTest, StartTest, AddTest, EndTest, EndTestDone, Goto, GotoWith, Reply
    <3>2. CASE StopNext(p) \/ WaitReturns(p) \/ CreateContainer(p) \/ ConnectNetworks(p) \/ JoinNetwork(p)
      BY <1>2, <3>2
      DEF StopNext, WaitReturns, CreateContainer, ConnectNetworks, JoinNetwork, Goto, GotoWith, Reply
    <3>3. CASE StartContainer(p) \/ AddClientVersion(p) \/ RegisterNode(p) \/ StopNode(p) \/ PauseNode(p)
      BY <1>2, <3>3
      DEF StartContainer, AddClientVersion, RegisterNode, StopNode, PauseNode, Goto, GotoWith, Reply
    <3>4. CASE \/ IsTestInSuite(p) \/ GetNodeInfo(p) \/ RegisterTarget(p) \/ SetMultiTestContext(p)
               \/ DoEndSuite(p) \/ WriteSuiteFile(p) \/ MoveToResults(p)
      BY <1>2, <3>4
      DEF IsTestInSuite, GetNodeInfo, RegisterTarget, SetMultiTestContext, DoEndSuite,
          WriteSuiteFile, MoveToResults, EndSuiteReturns, Goto, GotoWith, Reply
    <3> QED
      BY <1>3, <3>1, <3>2, <3>3, <3>4 DEF Step
  <2>2. arg'[p].test \in {arg[p].test, NoArgs.test}
    BY <1>2, <2>1, Zenon
  <2> QED
    BY <1>0, <1>1, <1>2, <2>2
<1>4. CASE p \in Handlers /\ Receive(p)
  <2>1. PICK s, t, n, u, op : /\ arg' = [arg EXCEPT ![p] = Request(s, t, n, u, op)]
                              /\ t \in {NoTest} \cup 1 .. testCaseCounter
    BY <1>4 DEF Receive, GotoWith, Nameable
  <2> QED
    BY <1>0, <1>1, <1>2, <2>1 DEF Request, NoTest
<1>5. CASE p = Host /\ (Shutdown \/ TerminateBegin \/ TerminateSuite)
  BY <1>0, <1>1, <1>2, <1>5
  DEF Shutdown, TerminateBegin, TerminateSuite, Goto, GotoWith, Request, NoTest
<1>6. CASE p = Host /\ TerminateTest
  <2>1. CASE arg' = arg
    BY <1>0, <2>1
  <2>2. ASSUME NEW t \in todo.tests, t \in runningTestCases, arg'[p] = [arg[p] EXCEPT !.test = t]
        PROVE  arg'[p].test <= testCaseCounter'
    <3>1. t \in Tests /\ ~(t > testCaseCounter)
      BY <1>0, <2>2 DEF KnownInv, LedgerInv, CaseLock, TypeOK
    <3>2. arg'[p].test = t
      BY <1>0, <2>2 DEF Args
    <3> QED
      BY <1>0, <1>1, <3>1, <3>2 DEF Tests
  <2> QED
    BY <1>2, <1>6, <2>1, <2>2 DEF TerminateTest, Goto, GotoWith
<1>7. CASE BeginsRequest(p)
  BY <1>0, <1>1, <1>2, <1>7 DEF BeginsRequest
<1> QED
  BY <1>0, <1>3, <1>4, <1>5, <1>6, <1>7, Mover DEF KnownInv, Terminate

\* The steps that lead to a stage of startClient, or of registerMultiTestNode.
LEMMA RegisteringSteps ==
  ASSUME LedgerInv, [Next]_vars, NEW p \in Procs, at'[p] \in Registering
  PROVE  \/ at'[p] = at[p] /\ arg'[p] = arg[p]
         \/ p \in Handlers /\ Receive(p)
         \/ RequestTest(p) \/ IsTestInSuite(p) \/ GetNodeInfo(p)
         \/ CreateContainer(p) \/ ConnectNetworks(p) \/ JoinNetwork(p) \/ StartContainer(p) \/ AddClientVersion(p)
<1>0. TypeOK /\ ControlType /\ Host \in Procs
  BY Types
<1>1. ASSUME \/ StartTest(p) \/ AddTest(p) \/ EndTest(p) \/ StopNext(p) \/ WaitReturns(p)
             \/ EndTestDone(p) \/ RegisterNode(p) \/ StopNode(p) \/ PauseNode(p)
             \/ RegisterTarget(p) \/ SetMultiTestContext(p) \/ DoEndSuite(p)
             \/ WriteSuiteFile(p) \/ MoveToResults(p)
      PROVE  at'[p] = at[p] /\ arg'[p] = arg[p]
  <2>1. CASE StartTest(p) \/ AddTest(p) \/ EndTest(p) \/ StopNext(p) \/ WaitReturns(p) \/ EndTestDone(p)
    BY <1>0, <2>1
    DEF StartTest, AddTest, EndTest, StopNext, WaitReturns, EndTestDone, Goto, GotoWith, Reply,
        ControlType, Registering, Starting
  <2>2. CASE RegisterNode(p) \/ StopNode(p) \/ PauseNode(p) \/ RegisterTarget(p) \/ SetMultiTestContext(p)
    BY <1>0, <2>2
    DEF RegisterNode, StopNode, PauseNode, RegisterTarget, SetMultiTestContext, Goto, GotoWith,
        Reply, ControlType, Registering, Starting
  <2>3. CASE DoEndSuite(p) \/ WriteSuiteFile(p) \/ MoveToResults(p)
    BY <1>0, <2>3
    DEF DoEndSuite, WriteSuiteFile, MoveToResults, EndSuiteReturns, Goto, GotoWith,
        Reply, ControlType, Registering, Starting
  <2> QED
    BY <1>1, <2>1, <2>2, <2>3
<1>2. ASSUME p = Host, Shutdown \/ Terminate PROVE at'[p] = at[p] /\ arg'[p] = arg[p]
  BY <1>0, <1>2
  DEF Shutdown, Terminate, TerminateBegin, TerminateSuite, TerminateTest, Goto, GotoWith,
      ControlType, Registering, Starting
<1> QED
  BY <1>1, <1>2, Mover DEF Step, BeginsRequest, Registering, Starting

\* ... the same for the stages of one request, when it takes its first steps.
LEMMA FirstSteps ==
  ASSUME LedgerInv, [Next]_vars, NEW p \in Procs,
         \/ RequestTest(p) \/ IsTestInSuite(p) \/ GetNodeInfo(p)
         \/ p \in Handlers /\ Receive(p)
  PROVE  /\ at'[p] \notin Starting
         /\ UNCHANGED clientVars
<1>0. TypeOK /\ ControlType /\ Handlers \subseteq Procs
  BY Types
<1>1. CASE RequestTest(p)
  BY <1>0, <1>1
  DEF RequestTest, Goto, GotoWith, Reply, LedgerInv, OwnerInv, Control, Fits,
      ChecksTest, Starting, ControlType
<1>2. CASE IsTestInSuite(p) \/ GetNodeInfo(p)
  BY <1>0, <1>2 DEF IsTestInSuite, GetNodeInfo, Goto, GotoWith, Reply, Starting, ControlType
<1>3. CASE p \in Handlers /\ Receive(p)
  BY <1>0, <1>3 DEF Receive, GotoWith, Starting, ControlType
<1> QED
  BY <1>1, <1>2, <1>3

\* A request to share a client is received for a node that is known, and goes on
\* with the same suite, tests and node.
LEMMA ShareSteps ==
  ASSUME LedgerInv, [Next]_vars, NEW p \in Procs, AsksShare(p)'
  PROVE  \/ /\ AsksShare(p)
            /\ arg'[p].suite = arg[p].suite /\ arg'[p].test = arg[p].test
            /\ arg'[p].other = arg[p].other /\ arg'[p].node = arg[p].node
         \/ /\ p \in Handlers /\ Receive(p)
            /\ arg'[p].suite \in runningTestSuites
            /\ arg'[p].test \in Nameable(arg'[p].suite) /\ arg'[p].other \in Nameable(arg'[p].suite)
            /\ arg'[p].node \in KnownNodes
            /\ ShareBack \/ (label[arg'[p].node] = arg'[p].test /\ arg'[p].other # arg'[p].test)
<1>0. TypeOK /\ ControlType /\ Handlers \subseteq Procs /\ arg[p] \in Args
  BY Types
<1>1. CASE at'[p] = at[p] /\ arg'[p] = arg[p]
  BY <1>1 DEF AsksShare
<1>2. CASE RequestTest(p)
  BY <1>0, <1>2 DEF RequestTest, Goto, GotoWith, Reply, AsksShare, ControlType,
                    LedgerInv, OwnerInv, Control, Fits, ChecksTest
<1>3. CASE IsTestInSuite(p)
  BY <1>0, <1>3 DEF IsTestInSuite, Goto, GotoWith, Reply, AsksShare, ControlType
<1>4. CASE GetNodeInfo(p)
  <2>1. \A e : /\ [arg[p] EXCEPT !.entry = e].suite = arg[p].suite
               /\ [arg[p] EXCEPT !.entry = e].test = arg[p].test
               /\ [arg[p] EXCEPT !.entry = e].other = arg[p].other
               /\ [arg[p] EXCEPT !.entry = e].node = arg[p].node
    BY <1>0 DEF Args
  <2>2. CASE Reply(p)
    BY <1>0, <2>2 DEF GotoWith, Reply, AsksShare, ControlType
  <2>3. CASE GotoWith(p, "target", [arg[p] EXCEPT !.entry = SharedEntry(clientInfo[arg[p].test][arg[p].node])])
    <3>1. \E e : arg'[p] = [arg[p] EXCEPT !.entry = e]
      BY <1>0, <2>3 DEF GotoWith, ControlType
    <3>2. AsksShare(p)
      BY <1>4 DEF GetNodeInfo, AsksShare
    <3> QED
      BY <2>1, <3>1, <3>2
  <2> QED
    BY <1>4, <2>2, <2>3 DEF GetNodeInfo
<1>5. CASE p \in Handlers /\ Receive(p)
  <2>1. \A s, t, n, u, op : /\ Request(s, t, n, u, op).suite = s
                            /\ Request(s, t, n, u, op).test = t
                            /\ Request(s, t, n, u, op).node = n
                            /\ Request(s, t, n, u, op).other = u
                            /\ Request(s, t, n, u, op).next = op
    BY DEF Request
  <2>2. \A x, a : GotoWith(p, x, a) => at'[p] = x /\ arg'[p] = a
    BY <1>0 DEF GotoWith, ControlType
  <2>3. at'[p] = "test?" /\ arg'[p].next = "inSuite"
    BY <1>5, <2>2 DEF Receive, AsksShare
  <2>4. \E s \in runningTestSuites : \E t, u \in Nameable(s), n \in KnownNodes :
          /\ ShareBack \/ (label[n] = t /\ u # t)
          /\ arg'[p] = Request(s, t, n, u, "inSuite")
    BY <1>5, <2>1, <2>2, <2>3 DEF Receive
  <2> QED
    BY <1>5, <2>1, <2>4
<1>6. ASSUME CreateContainer(p) \/ ConnectNetworks(p) \/ JoinNetwork(p) \/ StartContainer(p) \/ AddClientVersion(p)
      PROVE  FALSE
  BY <1>0, <1>6
  DEF CreateContainer, ConnectNetworks, JoinNetwork, StartContainer, AddClientVersion, Goto, GotoWith, Reply,
      AsksShare, ControlType
<1> QED
  BY <1>1, <1>2, <1>3, <1>4, <1>5, <1>6, RegisteringSteps DEF Registering, AsksShare

\* A goroutine waits for a client after it has failed to delete it.
LEMMA WaitingSteps ==
  ASSUME LedgerInv, [Next]_vars, NEW p \in Procs, at'[p] = "waiting"
  PROVE  (at'[p] = at[p] /\ arg'[p] = arg[p]) \/ StopNext(p)
<1>0. TypeOK /\ ControlType /\ Host \in Procs /\ Handlers \subseteq Procs
  BY Types
<1>1. CASE WaitReturns(p) \/ EndTestDone(p) \/ EndTest(p) \/ StartTest(p) \/ AddTest(p)
  BY <1>0, <1>1
  DEF WaitReturns, EndTestDone, EndTest, StartTest, AddTest, Goto, GotoWith, Reply, ControlType
<1>2. CASE \/ p \in Handlers /\ Receive(p)
           \/ p = Host /\ (Shutdown \/ Terminate)
  BY <1>0, <1>2
  DEF Receive, Shutdown, Terminate, TerminateBegin, TerminateSuite, TerminateTest, Goto, GotoWith,
      ControlType
<1>3. ASSUME Step(p), ~StopNext(p), ~(WaitReturns(p) \/ EndTestDone(p) \/ EndTest(p) \/ StartTest(p) \/ AddTest(p))
      PROVE  FALSE
  <2>1. PICK x \in Stage \ {"stopping", "waiting", "addTest"} : at' = [at EXCEPT ![p] = x]
    BY <1>3, OtherMoves DEF LedgerInv, Step
  <2> QED
    BY <1>0, <2>1 DEF ControlType
<1> QED
  BY <1>1, <1>2, <1>3, Mover DEF BeginsRequest

\* How an entry of ClientInfo changes: its client has been stopped, or a node is
\* registered with a running test.
LEMMA EntryChanges ==
  ASSUME KnownInv, [Next]_vars, NEW t \in Tests, NEW n \in Nodes,
         clientInfo'[t][n] # clientInfo[t][n]
  PROVE  \/ clientInfo[t][n] # "absent" /\ ~Up(n)'
         \/ \E p \in Procs : /\ RegisterNode(p) /\ MayRegister(t)
                             /\ arg[p].node = n /\ arg[p].test = t /\ clientInfo'[t][n] = arg[p].entry
         \/ \E p \in Procs : /\ RegisterTarget(p) /\ MayRegister(t)
                             /\ arg[p].node = n /\ arg[p].other = t
<1>0. TypeOK
  BY Types DEF KnownInv
<1>1. ASSUME NEW p \in Procs, StopNext(p) \/ WaitReturns(p) \/ StopNode(p)
      PROVE  clientInfo[t][n] # "absent" /\ ~Up(n)'
  <2>1. clientInfo' # clientInfo
    OBVIOUS
  <2>2. \E m : /\ SetEntry(arg[p].test, m, "nil") /\ clientInfo[arg[p].test][m] # "absent"
               /\ m \in Nodes => container'[m] \in {"exited", "gone"}
    BY <1>0, <1>1, <2>1
    DEF StopNext, WaitReturns, StopNode, HasNode, Unstopped, KnownInv, Known, KnownRequest, TypeOK
  <2> QED
    BY <1>0, <2>2 DEF SetEntry, TypeOK, Up
<1>2. ASSUME NEW p \in Procs, RegisterNode(p)
      PROVE  /\ MayRegister(t) /\ arg[p].node = n /\ arg[p].test = t
             /\ clientInfo'[t][n] = arg[p].entry
  BY <1>0, <1>2 DEF RegisterNode, SetEntry, TypeOK
<1>3. ASSUME NEW p \in Procs, RegisterTarget(p)
      PROVE  MayRegister(t) /\ arg[p].node = n /\ arg[p].other = t
  BY <1>0, <1>3 DEF RegisterTarget, SetEntry, TypeOK
<1> QED
  BY <1>1, <1>2, <1>3, ClientsStay
  DEF KnownInv, clientVars, CreateContainer, StartContainer, PauseNode, ContainerExits

LEMMA KnownNext == KnownInv /\ [Next]_vars => Known'
<1> SUFFICES ASSUME KnownInv, [Next]_vars PROVE Known'
  OBVIOUS
<1>0. TypeOK /\ ControlType /\ TypeOK' /\ testCaseCounter \in Nat /\ testCaseCounter' \in Nat
      /\ testCaseCounter <= testCaseCounter'
  BY TypeNext, Types, SuitesGrow DEF TypeOK, KnownInv, LedgerInv, OwnerInv
<1>1. ASSUME NEW p \in Procs PROVE KnownRequest(p)'
  <2>0. AsksShare(p)' => arg'[p].node \in Nodes /\ container'[arg'[p].node] # "none"
    <3>1. ASSUME AsksShare(p)' PROVE arg'[p].node \in Nodes /\ container[arg'[p].node] # "none"
      BY <3>1, ShareSteps DEF KnownInv, Known, KnownRequest, KnownNodes
    <3> QED
      BY <3>1, ClientsGrow
  <2>1. ASSUME at'[p] \notin Starting, at'[p] # "waiting" PROVE KnownRequest(p)'
    BY <2>0, <2>1, NamedTestStarted DEF KnownRequest, Starting
  <2>2. CASE at'[p] = at[p] /\ arg'[p] = arg[p]
    BY <2>2, KnownStays
  <2>8. CASE StopNext(p)
    <3>1. ASSUME NEW n \in Unstopped(arg[p].test), UNCHANGED clientInfo,
                 GotoWith(p, "waiting", [arg[p] EXCEPT !.node = n])
          PROVE  KnownRequest(p)'
      <4>1. at'[p] = "waiting" /\ arg'[p].node = n /\ arg'[p].test = arg[p].test
        BY <1>0, <3>1, Types, ArgsFields DEF GotoWith, ControlType, KnownInv
      <4> QED
        BY <3>1, <4>1, <2>0, NamedTestStarted DEF KnownRequest, Unstopped
    <3> QED
      BY <2>2, <2>8, <3>1 DEF StopNext
  <2>3. CASE RequestTest(p) \/ IsTestInSuite(p) \/ GetNodeInfo(p) \/ (p \in Handlers /\ Receive(p))
    BY <2>1, <2>2, <2>3, <2>8, FirstSteps, WaitingSteps DEF KnownInv
  <2>4. CASE CreateContainer(p)
    <3>1. CASE at'[p] = "connect"
      <4>1. PICK n \in Nodes : /\ container' = [container EXCEPT ![n] = "created"]
                               /\ GotoWith(p, "connect", [arg[p] EXCEPT !.node = n])
        BY <1>0, <2>4, <3>1 DEF CreateContainer, GotoWith, Reply, ControlType
      <4>2. arg'[p].node = n /\ container'[n] = "created"
        BY <1>0, <4>1, Types, ArgsFields DEF GotoWith, ControlType, TypeOK, KnownInv
      <4> QED
        BY <2>0, <3>1, <4>2, NamedTestStarted DEF KnownRequest, Up
    <3> QED
      BY <1>0, <2>1, <2>4, <3>1 DEF CreateContainer, GotoWith, Reply, Starting, ControlType
  <2>5. CASE ConnectNetworks(p) \/ JoinNetwork(p)
    <3>1. CASE at'[p] \in {"connect", "join", "start"} /\ arg' = arg /\ UNCHANGED clientVars
      BY <2>0, <2>5, <3>1, NamedTestStarted
      DEF ConnectNetworks, JoinNetwork, KnownInv, Known, KnownRequest, Up, clientVars
    <3> QED
      BY <1>0, <2>1, <2>5, <3>1
      DEF ConnectNetworks, JoinNetwork, Goto, GotoWith, Reply, Starting, ControlType
  <2>6. CASE StartContainer(p)
    <3>1. ASSUME NEW e \in {"nil", "wait"}, NEW state \in {"gone", "stray", "running"},
                 state = "running" => e = "wait",
                 container' = [container EXCEPT ![arg[p].node] = state],
                 GotoWith(p, "version", [arg[p] EXCEPT !.entry = e])
          PROVE  KnownRequest(p)'
      <4>1. arg[p].node \in Nodes /\ arg[p] \in Args
        BY <1>0, <2>6 DEF StartContainer, KnownInv, LedgerInv, OwnerInv, Private, Starting, ControlType
      <4>2. at'[p] = "version" /\ arg'[p].entry = e /\ arg'[p].node = arg[p].node
        BY <1>0, <3>1, <4>1, ArgsFields DEF GotoWith, ControlType
      <4>3. container'[arg[p].node] = state
        BY <1>0, <3>1, <4>1 DEF TypeOK
      <4> QED
        BY <2>0, <3>1, <4>2, <4>3, NamedTestStarted DEF KnownRequest, Up
    <3>2. CASE Reply(p)
      BY <1>0, <2>1, <3>2 DEF GotoWith, Reply, Starting, ControlType
    <3> QED
      BY <2>6, <3>1, <3>2 DEF StartContainer
  <2>7. CASE AddClientVersion(p)
    <3>1. at[p] = "version" /\ at'[p] = "register" /\ arg' = arg /\ UNCHANGED clientVars
      BY <1>0, <2>7 DEF AddClientVersion, Goto, ControlType
    <3> QED
      BY <2>0, <3>1, NamedTestStarted DEF KnownInv, Known, KnownRequest, Up, clientVars
  <2> QED
    BY <2>1, <2>2, <2>3, <2>4, <2>5, <2>6, <2>7, <2>8, RegisteringSteps, WaitingSteps
    DEF KnownInv, Registering
<1>2. \A n \in Nodes : label'[n] <= testCaseCounter'
  <2>1. CASE label' = label
    <3>1. \A n \in Nodes : label[n] <= testCaseCounter
      BY DEF KnownInv, Known
    <3>2. \A n \in Nodes : label[n] \in Nat
      BY Types DEF KnownInv, TypeOK, Tests, NoTest
    <3> QED
      BY <1>0, <2>1, <3>1, <3>2
  <2>2. ASSUME NEW p \in Procs, CreateContainer(p), label' # label
        PROVE  \A n \in Nodes : label'[n] <= testCaseCounter'
    <3>1. \E m \in Nodes : label' = [label EXCEPT ![m] = arg[p].test]
      BY <2>2 DEF CreateContainer
    <3>2. arg[p].test <= testCaseCounter
      BY DEF KnownInv, Known, KnownRequest
    <3>3. arg[p].test \in Nat
      BY Types DEF KnownInv
    <3>4. PICK m \in Nodes : label' = [label EXCEPT ![m] = arg[p].test]
      BY <3>1
    <3>5. \A n \in Nodes : label'[n] \in {label[n], arg[p].test} /\ label[n] \in Nat /\ label[n] <= testCaseCounter
      BY <1>0, <3>4 DEF KnownInv, Known, TypeOK, Tests, NoTest
    <3> QED
      BY <1>0, <3>2, <3>3, <3>5
  <2>3. ASSUME \A p \in Procs : ~CreateContainer(p) PROVE label' = label
    BY <2>3, ClientsStay
    DEF KnownInv, clientVars, StopNext, WaitReturns, StartContainer, RegisterNode, StopNode,
        PauseNode, RegisterTarget, ContainerExits
  <2> QED
    BY <2>1, <2>2, <2>3
<1>3. ASSUME NEW t \in Tests, NEW n \in Nodes, clientInfo'[t][n] # "absent"
      PROVE  t <= testCaseCounter' /\ container'[n] # "none"
  <2>1. ASSUME t <= testCaseCounter, container[n] # "none"
        PROVE  t <= testCaseCounter' /\ container'[n] # "none"
    BY <1>0, <2>1, ClientsGrow DEF Tests
  <2>2. CASE clientInfo[t][n] # "absent"
    BY <2>1, <2>2 DEF KnownInv, Known
  <2>3. ASSUME NEW p \in Procs, RegisterNode(p), arg[p].node = n, t = arg[p].test,
               MayRegister(t)
        PROVE  t <= testCaseCounter /\ container[n] # "none"
    <3>1. t \in runningTestCases /\ at[p] \in Starting
      BY <2>3 DEF RegisterNode, MayRegister, Starting
    <3>2. ~(t > testCaseCounter)
      BY <3>1 DEF KnownInv, LedgerInv, CaseLock
    <3> QED
      BY <1>0, <2>3, <3>1, <3>2 DEF KnownInv, LedgerInv, OwnerInv, Private, Tests
  <2>4. ASSUME NEW p \in Procs, RegisterTarget(p), arg[p].node = n, t = arg[p].other,
               MayRegister(t)
        PROVE  t <= testCaseCounter /\ container[n] # "none"
    BY <1>0, <2>4
    DEF RegisterTarget, MayRegister, KnownInv, Known, KnownRequest, AsksShare, LedgerInv, CaseLock, Tests
  <2> QED
    BY <1>3, <2>1, <2>2, <2>3, <2>4, EntryChanges
<1> QED
  BY <1>1, <1>2, <1>3 DEF Known

LEMMA KnownInvInit == Init => KnownInv
  BY LedgerInvInit, KnownInit DEF KnownInv

LEMMA KnownInvNext == KnownInv /\ [Next]_vars => KnownInv'
  BY LedgerInvNext, KnownNext DEF KnownInv

-----------------------------------------------------------------------------
(* The client of a running test                                             *)

LEMMA OwnedInit == Init => OwnedInv
<1> SUFFICES ASSUME Init PROVE OwnedInv
  OBVIOUS
<1>1. (\A p \in Procs : SharesOwn(p)) /\ RunningClientOwned
  BY DEF Init, SharesOwn, AsksShare, RunningClientOwned, Up
<1> QED
  BY <1>1, KnownInvInit DEF OwnedInv

\* A container that is up after a step was created before it.
LEMMA UpWasCreated ==
  ASSUME KnownInv, [Next]_vars, NEW n \in Nodes, Up(n)'
  PROVE  container[n] # "none" /\ label'[n] = label[n]
<1>1. CASE Up(n)
  BY <1>1, ClientsGrow DEF Up
<1>2. ASSUME NEW p \in Procs, at[p] = "start", arg[p].node = n
      PROVE  container[n] # "none"
  BY <1>2 DEF KnownInv, LedgerInv, OwnerInv, Private, Starting
<1> QED
  BY <1>1, <1>2, ClientsGrow

LEMMA OwnedNext ==
  ASSUME ~ShareBack, OwnedInv, [Next]_vars PROVE OwnedInv'
<1>0. TypeOK /\ ControlType /\ KnownInv /\ LedgerInv /\ testCaseCounter \in Nat
  BY Types DEF OwnedInv, KnownInv
<1>1. ASSUME NEW p \in Procs, AsksShare(p)'
      PROVE  label'[arg'[p].node] = arg'[p].test /\ arg'[p].other # arg'[p].test
  <2>1. /\ label[arg'[p].node] = arg'[p].test /\ arg'[p].other # arg'[p].test
        /\ arg'[p].node \in Nodes /\ container[arg'[p].node] # "none"
    BY <1>0, <1>1, ShareSteps DEF OwnedInv, SharesOwn, KnownInv, Known, KnownRequest, KnownNodes
  <2> QED
    BY <1>0, <2>1, ClientsGrow
<1>2. \A p \in Procs : SharesOwn(p)'
  BY <1>1 DEF SharesOwn
<1>3. ASSUME NEW n \in Nodes, Up(n)', label'[n] \in runningTestCases', ~InFlight(n)'
      PROVE  clientInfo'[label'[n]][n] = "wait"
  <2> DEFINE t == label[n]
  <2>1. container[n] # "none" /\ label'[n] = t
    BY <1>0, <1>3, UpWasCreated
  <2>2. t \in runningTestCases
    <3>1. t <= testCaseCounter /\ t \in Nat
      BY <1>0 DEF KnownInv, Known, TypeOK, Tests, NoTest
    <3>2. \A u \in runningTestCases' : u \in runningTestCases \/ u = testCaseCounter + 1
      BY <1>0, TestsStart
    <3> QED
      BY <1>0, <1>3, <2>1, <3>1, <3>2
  <2>3. ASSUME NEW p \in Procs, at[p] \in Starting, arg[p].node = n
        PROVE  clientInfo'[t][n] = "wait"
    <3>0. p \in Handlers /\ p # Host /\ label[n] = arg[p].test
      BY <1>0, <2>3 DEF LedgerInv, OwnerInv, Control, Terminating, Private, Starting, Procs
    <3>1. ~(at'[p] \in {"version", "register"} /\ arg'[p].node = n)
      BY <1>3, <3>0 DEF InFlight
    <3>2. at[p] \in {"connect", "join", "start"} => at[p] = "start" /\ at'[p] # "start"
      <4>1. CASE at[p] \in {"connect", "join", "start"}
        <5>1. ~Up(n)
          BY <1>0, <2>3, <4>1 DEF KnownInv, Known, KnownRequest
        <5>2. PICK q \in Procs : at[q] = "start" /\ at'[q] # "start" /\ arg[q].node = n
          BY <1>0, <1>3, <5>1, ClientsGrow
        <5>3. q = p
          BY <1>0, <2>3, <5>2 DEF LedgerInv, OwnerInv, Private, Starting
        <5> QED
          BY <5>2, <5>3
      <4> QED
        BY <4>1
    <3>3. Step(p)
      BY <1>0, <2>3, <3>0, <3>1, <3>2, Mover DEF Receive, BeginsRequest, Starting
    <3>4. CASE at[p] = "start"
      <4>1. StartContainer(p)
        BY <3>3, <3>4
        DEF Step, RequestTest, StartTest, AddTest, EndTest, StopNext, WaitReturns, EndTestDone,
            CreateContainer, ConnectNetworks, JoinNetwork, AddClientVersion, RegisterNode, StopNode, PauseNode,
            IsTestInSuite, GetNodeInfo, RegisterTarget, SetMultiTestContext, DoEndSuite,
            WriteSuiteFile, MoveToResults
      <4>2. /\ ~(container' = [container EXCEPT ![n] = "gone"])
            /\ ~(container' = [container EXCEPT ![n] = "stray"])
        BY <1>0, <1>3 DEF Up, TypeOK
      <4>3. at'[p] = "version" /\ arg'[p] = [arg[p] EXCEPT !.entry = "wait"]
        BY <1>0, <2>3, <4>1, <4>2 DEF StartContainer, GotoWith, ControlType
      <4>4. arg'[p].node = n
        BY <1>0, <2>3, <4>3, Types, ArgsFields
      <4> QED
        BY <3>1, <4>3, <4>4
    <3>5. CASE at[p] = "version"
      <4>1. AddClientVersion(p)
        BY <3>3, <3>5
        DEF Step, RequestTest, StartTest, AddTest, EndTest, StopNext, WaitReturns, EndTestDone,
            CreateContainer, ConnectNetworks, JoinNetwork, StartContainer, RegisterNode, StopNode, PauseNode,
            IsTestInSuite, GetNodeInfo, RegisterTarget, SetMultiTestContext, DoEndSuite,
            WriteSuiteFile, MoveToResults
      <4> QED
        BY <1>0, <2>3, <3>1, <4>1 DEF AddClientVersion, Goto, ControlType
    <3>6. CASE at[p] = "register"
      <4>1. RegisterNode(p)
        BY <3>3, <3>6
        DEF Step, RequestTest, StartTest, AddTest, EndTest, StopNext, WaitReturns, EndTestDone,
            CreateContainer, ConnectNetworks, JoinNetwork, StartContainer, AddClientVersion, StopNode, PauseNode,
            IsTestInSuite, GetNodeInfo, RegisterTarget, SetMultiTestContext, DoEndSuite,
            WriteSuiteFile, MoveToResults
      <4>2. Up(n) /\ arg[p].entry = "wait"
        <5>1. container' = container
          BY <4>1 DEF RegisterNode
        <5> QED
          BY <1>0, <1>3, <2>3, <3>6, <5>1 DEF KnownInv, Known, KnownRequest, Up
      <4>3. SetEntry(t, n, "wait")
        BY <2>2, <2>3, <3>0, <4>1, <4>2 DEF RegisterNode, MayRegister
      <4> QED
        BY <1>0, <2>2, <4>3 DEF SetEntry, TypeOK
    <3> QED
      BY <2>3, <3>2, <3>4, <3>5, <3>6 DEF Starting
  <2>4. ASSUME \A p \in Procs : at[p] \in Starting => arg[p].node # n
        PROVE  clientInfo'[t][n] = "wait"
    <3>1. Up(n) /\ ~InFlight(n)
      BY <1>0, <1>3, <2>4, ClientsGrow DEF InFlight, Starting, Procs
    <3>2. clientInfo[t][n] = "wait" /\ t \in Tests
      BY <1>0, <2>2, <3>1 DEF OwnedInv, RunningClientOwned, TypeOK
    <3>3. ASSUME clientInfo'[t][n] # clientInfo[t][n]
          PROVE  FALSE
      <4>1. ASSUME NEW p \in Procs, RegisterNode(p) PROVE arg[p].node # n
        BY <2>4, <4>1 DEF RegisterNode, Starting
      <4>2. ASSUME NEW p \in Procs, RegisterTarget(p), arg[p].node = n
            PROVE  arg[p].other # t
        BY <4>2 DEF RegisterTarget, OwnedInv, SharesOwn, AsksShare
      <4> QED
        BY <1>0, <1>3, <3>2, <3>3, <4>1, <4>2, EntryChanges
    <3> QED
      BY <3>2, <3>3
  <2> QED
    BY <2>1, <2>3, <2>4
<1> QED
  BY <1>2, <1>3, KnownInvNext DEF OwnedInv, RunningClientOwned

\* If no request shares a client on behalf of a test that did not start it, every
\* client that is up is owned by its test as long as that runs: EndTest will stop it.
THEOREM RunningClientsOwned ==
  ASSUME ~ShareBack PROVE Spec => []RunningClientOwned
<1>1. OwnedInv /\ [Next]_vars => OwnedInv'
  BY OwnedNext
<1>2. OwnedInv => RunningClientOwned
  BY DEF OwnedInv
<1> QED
  BY OwnedInit, <1>1, <1>2, PTL DEF Spec

-----------------------------------------------------------------------------
(* The versions of the clients of a suite                                   *)

LEMMA VersionInit == Init => VersionInv
<1> SUFFICES ASSUME Init PROVE VersionInv
  OBVIOUS
<1>1. \A p \in Procs : NamesMember(p)
  BY DEF Init, NamesMember, Registering, Starting
<1>2. Members /\ VersionKnown
  BY DEF Init, Members, VersionKnown
<1> QED
  BY <1>1, <1>2, KnownInvInit DEF VersionInv

LEMMA MembersNext ==
  ASSUME LedgerInv, Members, [Next]_vars PROVE Members'
<1> USE DEF testVars, suiteVars
<1>0. TypeOK /\ testCaseCounter \in Nat /\ testSuiteCounter \in Nat /\ testSuiteCounter' \in Nat
      /\ testSuiteCounter <= testSuiteCounter'
  BY TypeNext, Types, SuitesGrow DEF TypeOK, LedgerInv, OwnerInv
<1>1. ASSUME NEW p \in Procs, AddTest(p) PROVE Members'
  <2> DEFINE s == arg[p].suite
             t == testCaseCounter + 1
  <2>1. s \in Suites /\ s \in Nat /\ s < testSuiteCounter
    <3>1. s \in runningTestSuites \cup results /\ s \in Suites
      BY <1>0, <1>1 DEF AddTest, Adding, LedgerInv, Begun, TypeOK
    <3>2. ~(s >= testSuiteCounter)
      BY <3>1 DEF LedgerInv, SuiteLock
    <3> QED
      BY <1>0, <3>1, <3>2 DEF Suites
  <2>2. CASE testCaseCounter < MaxTests
    <3>1. /\ testCases' = [testCases EXCEPT ![s] = @ \cup {t}]
          /\ testCaseCounter' = t /\ testSuiteCounter' = testSuiteCounter
      BY <1>1, <2>2 DEF AddTest, NextTestID
    <3>2. \A r \in Suites : testCases'[r] = testCases[r] \/ (r = s /\ testCases'[r] = testCases[r] \cup {t})
      BY <1>0, <2>1, <3>1 DEF TypeOK
    <3>3. \A r \in Suites : t \notin testCases[r]
      BY <1>0 DEF Members
    <3>4. \A r \in Suites : testCases'[r] \subseteq 1 .. testCaseCounter'
      BY <1>0, <3>1, <3>2 DEF Members
    <3>5. \A r \in Suites : r >= testSuiteCounter' => testCases'[r] = {}
      BY <1>0, <2>1, <3>1, <3>2 DEF Members
    <3>6. \A r, q \in Suites : testCases'[r] \cap testCases'[q] # {} => r = q
      BY <3>2, <3>3 DEF Members
    <3> QED
      BY <3>4, <3>5, <3>6 DEF Members
  <2>3. CASE ~(testCaseCounter < MaxTests)
    BY <1>1, <2>3 DEF AddTest, Members
  <2> QED
    BY <2>2, <2>3
<1>2. ASSUME UNCHANGED <<testCases, testCaseCounter>> PROVE Members'
  BY <1>0, <1>2 DEF Members, Suites
<1>3. ASSUME NEW p \in Procs, Step(p), ~AddTest(p) PROVE UNCHANGED <<testCases, testCaseCounter>>
  BY <1>3
  DEF Step, RequestTest, StartTest, EndTest, StopNext, WaitReturns,
      EndTestDone, CreateContainer, ConnectNetworks, JoinNetwork, StartContainer, AddClientVersion,
      RegisterNode, StopNode, PauseNode, IsTestInSuite, GetNodeInfo, RegisterTarget,
      SetMultiTestContext, DoEndSuite, WriteSuiteFile, MoveToResults
<1> QED
  BY <1>1, <1>2, <1>3
  DEF Next, Arrive, Serve, Refuse, StartTestSuite, Receive, Shutdown, Terminate, TerminateBegin, TerminateSuite,
      TerminateTest, ContainerExits, Finished, vars

LEMMA NamesNext ==
  ASSUME ~CrossSuite, VersionInv, [Next]_vars, NEW p \in Procs PROVE NamesMember(p)'
<1>0. TypeOK /\ ControlType /\ KnownInv /\ LedgerInv /\ Handlers \subseteq Procs
      /\ arg[p] \in Args /\ arg[p].suite \in Suites /\ arg[p].suite \in Nat
  BY Types DEF VersionInv, KnownInv, Suites
<1>a. testSuiteCounter \in Nat /\ testSuiteCounter' \in Nat /\ testSuiteCounter <= testSuiteCounter'
  BY <1>0, TypeNext, SuitesGrow DEF TypeOK, LedgerInv, OwnerInv
\* Going on with the same suite and test.
<1>1. ASSUME at[p] \in Registering, at'[p] \in Registering,
             arg'[p].suite = arg[p].suite, arg'[p].test = arg[p].test
      PROVE  arg'[p].suite < testSuiteCounter' /\ arg'[p].test \in testCases'[arg'[p].suite]
  BY <1>0, <1>a, <1>1, SuitesGrow DEF VersionInv, NamesMember
<1>2. CASE at'[p] \notin Registering
  BY <1>2 DEF NamesMember, Registering, Starting
<1>3. CASE at'[p] = at[p] /\ arg'[p] = arg[p]
  <2>1. ASSUME at[p] = "register", arg[p].suite \in runningTestSuites'
        PROVE  clientVersions'[arg[p].suite]
    <3>1. arg[p].suite < testSuiteCounter /\ (arg[p].suite \in runningTestSuites => clientVersions[arg[p].suite])
      BY <2>1 DEF VersionInv, NamesMember, Registering, Starting
    <3>2. arg[p].suite \in runningTestSuites
      BY <1>0, <1>a, <2>1, <3>1, SuitesGrow
    <3> QED
      BY <1>0, <3>1, <3>2, SuitesGrow
  <2>2. ASSUME at[p] = "target" PROVE clientInfo'[arg[p].test][arg[p].node] # "absent"
    <3>1. arg[p].test \in Tests /\ arg[p].node \in Nodes /\ clientInfo[arg[p].test][arg[p].node] # "absent"
      BY <1>0, <2>2
      DEF VersionInv, NamesMember, Registering, KnownInv, Known, KnownRequest, AsksShare, TypeOK
    <3> QED
      BY <1>0, <3>1, ClientsGrow
  <2>3. at[p] \in {"getNode", "target"} => arg[p].other \in testCases'[arg[p].suite]
    BY <1>0, SuitesGrow DEF VersionInv, NamesMember
  <2> QED
    BY <1>1, <1>2, <1>3, <2>1, <2>2, <2>3 DEF NamesMember
<1>4. CASE p \in Handlers /\ Receive(p)
  <2>1. at'[p] \notin {"getNode", "target", "register"}
    BY <1>0, <1>4 DEF Receive, GotoWith, ControlType
  <2>2. ASSUME at'[p] \in Registering
        PROVE  /\ arg'[p].suite \in runningTestSuites
               /\ arg'[p].test \in Nameable(arg'[p].suite)
    <3>1. \A s, t, n, u, op : Request(s, t, n, u, op).suite = s /\ Request(s, t, n, u, op).test = t
      BY DEF Request
    <3>2. \A x, a : GotoWith(p, x, a) => at'[p] = x /\ arg'[p] = a
      BY <1>0 DEF GotoWith, ControlType
    <3>3. at'[p] = "test?"
      BY <1>4, <2>2, <3>2 DEF Receive, Registering, Starting
    <3>4. \E s \in runningTestSuites : \E t \in Nameable(s) : \E n, u, op : arg'[p] = Request(s, t, n, u, op)
      BY <1>4, <3>2, <3>3 DEF Receive
    <3> QED
      BY <3>1, <3>4
  <2>3. UNCHANGED <<testSuiteCounter, testCases>>
    BY <1>4 DEF Receive, suiteVars, testVars
  <2>4. ASSUME at'[p] \in Registering
        PROVE  arg'[p].suite < testSuiteCounter /\ arg'[p].test \in testCases[arg'[p].suite]
    <3>1. arg'[p].suite \in Suites /\ ~(arg'[p].suite >= testSuiteCounter)
      BY <1>0, <2>2, <2>4 DEF LedgerInv, SuiteLock, TypeOK
    <3> QED
      BY <1>a, <2>2, <2>4, <3>1 DEF Nameable, Suites
  <2> QED
    BY <2>1, <2>3, <2>4 DEF NamesMember
<1>5. CASE RequestTest(p)
  <2>1. at[p] = "test?" /\ at'[p] \notin {"getNode", "target", "register"}
        /\ (at'[p] \in Registering => arg' = arg)
    BY <1>0, <1>5
    DEF RequestTest, Goto, GotoWith, Reply, Registering, Starting, ControlType, LedgerInv,
        OwnerInv, Control, Fits, ChecksTest
  <2> QED
    BY <1>1, <2>1 DEF NamesMember, Registering
<1>6. CASE IsTestInSuite(p)
  <2>1. CASE Reply(p)
    BY <1>0, <1>2, <2>1 DEF GotoWith, Reply, Registering, Starting, ControlType
  <2>2. CASE Goto(p, "getNode") /\ arg' = arg /\ arg[p].other \in testCases[arg[p].suite]
    <3>1. at[p] = "inSuite" /\ at'[p] = "getNode" /\ testCases' = testCases
      BY <1>0, <1>6, <2>2 DEF IsTestInSuite, Goto, ControlType, testVars
    <3> QED
      BY <1>1, <2>2, <3>1 DEF NamesMember, Registering
  <2> QED
    BY <1>6, <2>1, <2>2 DEF IsTestInSuite
<1>7. CASE GetNodeInfo(p)
  <2>1. CASE Reply(p)
    BY <1>0, <1>2, <2>1 DEF GotoWith, Reply, Registering, Starting, ControlType
  <2>2. CASE ~Reply(p)
    <3>1. /\ at[p] = "getNode" /\ at'[p] = "target" /\ testCases' = testCases
          /\ clientInfo' = clientInfo /\ clientInfo[arg[p].test][arg[p].node] # "absent"
          /\ \E e : arg'[p] = [arg[p] EXCEPT !.entry = e]
      BY <1>0, <1>7, <2>2
      DEF GetNodeInfo, HasNode, GotoWith, ControlType, testVars, clientVars
    <3>2. /\ arg'[p].suite = arg[p].suite /\ arg'[p].test = arg[p].test
          /\ arg'[p].other = arg[p].other /\ arg'[p].node = arg[p].node
      BY <1>0, <3>1 DEF Args
    <3> QED
      BY <1>1, <3>1, <3>2 DEF VersionInv, NamesMember, Registering
  <2> QED
    BY <2>1, <2>2
<1>8. CASE CreateContainer(p) \/ ConnectNetworks(p) \/ JoinNetwork(p) \/ StartContainer(p)
  <2>1. at[p] \in Registering /\ at'[p] \notin {"getNode", "target", "register"}
    BY <1>0, <1>8
    DEF CreateContainer, ConnectNetworks, JoinNetwork, StartContainer, Goto, GotoWith, Reply, Registering,
        Starting, ControlType
  <2>2. at'[p] = "idle" \/ arg'[p] = arg[p] \/ (\E n : arg'[p] = [arg[p] EXCEPT !.node = n])
        \/ (\E e : arg'[p] = [arg[p] EXCEPT !.entry = e])
    BY <1>0, <1>8
    DEF CreateContainer, ConnectNetworks, JoinNetwork, StartContainer, Goto, GotoWith, Reply, ControlType
  <2>3. at'[p] = "idle" \/ (arg'[p].suite = arg[p].suite /\ arg'[p].test = arg[p].test)
    BY <1>0, <2>2 DEF Args
  <2> QED
    BY <1>1, <1>2, <2>1, <2>3 DEF NamesMember, Registering, Starting
<1>9. CASE AddClientVersion(p)
  <2>1. /\ at[p] = "version" /\ at'[p] = "register" /\ arg' = arg
        /\ runningTestSuites' = runningTestSuites
    BY <1>0, <1>9 DEF AddClientVersion, Goto, ControlType
  <2>2. arg[p].suite \in runningTestSuites => clientVersions'[arg[p].suite]
    BY <1>0, <1>9 DEF AddClientVersion, TypeOK
  <2> QED
    BY <1>1, <2>1, <2>2 DEF NamesMember, Registering, Starting
<1> QED
  BY <1>2, <1>3, <1>4, <1>5, <1>6, <1>7, <1>8, <1>9, RegisteringSteps, <1>0

LEMMA VersionKnownNext ==
  ASSUME ~CrossSuite, VersionInv, [Next]_vars PROVE VersionKnown'
<1>0. TypeOK /\ KnownInv /\ LedgerInv /\ testCaseCounter \in Nat /\ testSuiteCounter \in Nat
      /\ runningTestSuites' \subseteq Suites
  BY TypeNext, Types DEF VersionInv, KnownInv, LedgerInv, OwnerInv, TypeOK
<1>1. SUFFICES ASSUME NEW s \in runningTestSuites', NEW n \in Nodes,
                      NEW t \in testCases'[s], clientInfo'[t][n] # "absent"
               PROVE  clientVersions'[s]
  BY DEF VersionKnown
<1>2. s \in Suites /\ t \in Tests
  BY <1>0, TypeNext DEF TypeOK
\* A test that starts has no clients yet.
<1>3. t \in testCases[s] /\ s \in runningTestSuites
  <2>1. t <= testCaseCounter
    <3>1. CASE clientInfo[t][n] # "absent"
      BY <1>0, <1>2, <3>1 DEF KnownInv, Known
    <3>2. CASE t \in runningTestCases
      BY <1>0, <1>2, <3>2 DEF LedgerInv, CaseLock, Tests
    <3> QED
      BY <1>0, <1>1, <1>2, <3>1, <3>2, EntryChanges DEF MayRegister
  <2>2. t \in testCases[s]
    BY <1>0, <1>1, <1>2, <2>1, TestsStart DEF Tests
  <2>3. s # testSuiteCounter
    BY <1>0, <1>2, <2>2 DEF VersionInv, Members
  <2> QED
    BY <1>0, <1>1, <2>2, <2>3, SuitesGrow
<1>4. CASE clientInfo[t][n] # "absent"
  BY <1>2, <1>3, <1>4, SuitesGrow, <1>0 DEF VersionInv, VersionKnown
\* The node is registered by startClient, which has added the version.
<1>5. ASSUME NEW p \in Procs, RegisterNode(p), arg[p].test = t
      PROVE  clientVersions[s]
  <2>1. at[p] = "register" /\ t \in testCases[arg[p].suite] /\ arg[p].suite \in Suites
    BY <1>0, <1>5, Types DEF RegisterNode, VersionInv, NamesMember, Registering, Starting
  <2>2. arg[p].suite = s
    BY <1>2, <1>3, <2>1 DEF VersionInv, Members
  <2> QED
    BY <1>3, <2>1, <2>2 DEF VersionInv, NamesMember
\* The node is shared by a test of the same suite, which lists it.
<1>6. ASSUME NEW p \in Procs, RegisterTarget(p), arg[p].other = t, arg[p].node = n
      PROVE  clientVersions[s]
  <2>1. /\ at[p] = "target" /\ arg[p].suite \in Suites
        /\ arg[p].test \in testCases[arg[p].suite] /\ t \in testCases[arg[p].suite]
        /\ clientInfo[arg[p].test][n] # "absent"
    BY <1>0, <1>6, Types DEF RegisterTarget, VersionInv, NamesMember, Registering
  <2>2. arg[p].suite = s
    BY <1>2, <1>3, <2>1 DEF VersionInv, Members
  <2> QED
    BY <1>3, <2>1, <2>2 DEF VersionInv, VersionKnown
<1> QED
  BY <1>0, <1>1, <1>2, <1>4, <1>5, <1>6, EntryChanges, SuitesGrow

LEMMA VersionNext == ASSUME ~CrossSuite, VersionInv, [Next]_vars PROVE VersionInv'
  BY KnownInvNext, NamesNext, MembersNext, VersionKnownNext DEF VersionInv, KnownInv

\* If every request names a test of its own suite, a running suite knows the versions
\* of all clients its tests list, in whichever order the requests take the mutexes.
THEOREM VersionsAreKnown ==
  ASSUME ~CrossSuite PROVE Spec => []VersionKnown
<1>1. VersionInv /\ [Next]_vars => VersionInv'
  BY VersionNext
<1>2. VersionInv => VersionKnown
  BY DEF VersionInv
<1> QED
  BY VersionInit, <1>1, <1>2, PTL DEF Spec
=============================================================================
