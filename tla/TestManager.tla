---------------------------- MODULE TestManager ----------------------------
(***************************************************************************)
(* The test manager of the hive host (internal/libhive/testmanager.go) and *)
(* the HTTP handlers of the simulation API that drive it                   *)
(* (internal/libhive/api.go): test suites, test cases and the client       *)
(* containers the test cases own.                                          *)
(*                                                                         *)
(* Every API request runs in a goroutine of its own, a member of Handlers; *)
(* Host is the goroutine that runs the simulation and calls Terminate when *)
(* it is over.  A handler is a sequence of critical sections: each action  *)
(* is one critical section (or one call of the container backend), and     *)
(* at[p] says which one p executes next.  testSuiteMutex and testCaseMutex *)
(* are variables: EndTestSuite, Terminate and EndTest keep them across     *)
(* calls of the backend, and StartTest between its check and its addition. *)
(* Networks are the subject of NetworkManager; here they matter as far as  *)
(* startClient and the end of a suite wait for networkMutex.               *)
(*                                                                         *)
(* A definition NAME_xxx before NAME is a plausible mistake in the code    *)
(* that NAME models.  No specification uses it: put in the place of NAME,  *)
(* it makes a property of the module fail.                                 *)
(***************************************************************************)
EXTENDS Naturals, FiniteSets

CONSTANTS
  Handlers,      \* the goroutines that serve API requests
  Host,          \* the goroutine of Runner.run
  Nodes,         \* container IDs the backend can hand out
  NoNode, None,  \* "no container", "nobody holds the mutex"
  MaxSuites,     \* bound on the number of suites started
  MaxTests,      \* bound on the number of test cases started
  CrossSuite,    \* may a request name a test case of another suite?
  ShareBack,     \* may a client be shared by, or with, a test not its starter?
  ClientFaults,  \* may clients exit, and DeleteContainer fail?
  DiskFaults     \* may writing a summary file fail?

ASSUME ManagerAssumption ==
  /\ MaxSuites \in Nat \ {0} /\ MaxTests \in Nat
  /\ Host \notin Handlers /\ None \notin Handlers \cup {Host}
  /\ NoNode \notin Nodes
  /\ CrossSuite \in BOOLEAN /\ ShareBack \in BOOLEAN
  /\ ClientFaults \in BOOLEAN /\ DiskFaults \in BOOLEAN

Procs == Handlers \cup {Host}
Suites == 0 .. MaxSuites - 1
Tests == 1 .. MaxTests
NoTest == 0

\* What a goroutine executes next.  "idle" is a handler without a request.
Stage ==
  { "idle",
    "suite?",                                      \* StartTestSuite or requestSuite
    "test?",                                       \* requestTest
    "startTest", "addTest",                        \* StartTest
    "endTest", "stopping", "waiting",              \* EndTest
    "create", "connect", "join", "start", "version", "register",    \* startClient
    "stop", "pause", "unpause",
    "inSuite", "getNode", "target", "context",     \* registerMultiTestNode
    "endSuite", "write", "move",                   \* EndTestSuite
    "terminate", "suites", "tests", "done" }       \* Terminate

Verdict == {"pass", "fail", "timeout"}

VARIABLES
  testSuiteMutex,     \* the holder of the write lock
  testCaseMutex,
  runningTestSuites,
  results,            \* the suites that have ended
  testSuiteCounter,
  testCases,          \* suite -> the test cases in suite.TestCases
  clientVersions,     \* suite -> is the client in suite.ClientVersions?
  summaryFiles,       \* suite -> the number of summary files written
  runningTestCases,
  testCaseCounter,
  summaryResult,      \* test -> testCase.SummaryResult
  clientInfo,         \* test -> node -> entry of testCase.ClientInfo
  multiTestContext,   \* the test cases with MultiTestContext set
  container,          \* node -> state of the container
  label,              \* node -> the test case in its hive.testcase label
  accepting,          \* does the API server still take requests?
  at, arg,            \* goroutine -> its next step, its request's arguments
  todo                \* what Terminate's two loops have not visited yet

locks == <<testSuiteMutex, testCaseMutex>>
suiteVars == <<runningTestSuites, results, testSuiteCounter, clientVersions,
               summaryFiles>>
testVars == <<testCases, runningTestCases, testCaseCounter, summaryResult,
              multiTestContext>>
clientVars == <<clientInfo, container, label>>
hostVars == <<accepting, todo>>
vars == <<locks, suiteVars, testVars, clientVars, hostVars, at, arg>>

\* An entry of ClientInfo: none, one whose wait function is set (its container
\* is stopped when the test ends), one whose wait function is nil.
Entry == {"absent", "wait", "nil"}
\* A container is stray when its start has failed and its deletion too: whether it
\* runs is left open.
ContainerState == {"none", "created", "running", "paused", "exited", "stray", "gone"}
\* The suite, test and node a request names, a second test it names, the entry it
\* will make in ClientInfo, and the operation that follows its checks.
Args == [suite: Suites, test: Tests \cup {NoTest}, node: Nodes \cup {NoNode},
         other: Tests \cup {NoTest}, entry: Entry, next: Stage]
Request(s, t, n, u, op) ==
  [suite |-> s, test |-> t, node |-> n, other |-> u, entry |-> "absent", next |-> op]
NoArgs == Request(0, NoTest, NoNode, NoTest, "idle")

ControlType == at \in [Procs -> Stage] /\ arg \in [Procs -> Args]

TypeOK ==
  /\ ControlType
  /\ testSuiteMutex \in Procs \cup {None} /\ testCaseMutex \in Procs \cup {None}
  /\ runningTestSuites \in SUBSET Suites /\ results \in SUBSET Suites
  /\ testSuiteCounter \in 0 .. MaxSuites
  /\ testCases \in [Suites -> SUBSET Tests]
  /\ clientVersions \in [Suites -> BOOLEAN]
  /\ summaryFiles \in [Suites -> Nat]
  /\ runningTestCases \in SUBSET Tests
  /\ testCaseCounter \in 0 .. MaxTests
  /\ summaryResult \in [Tests -> Verdict \cup {"none"}]
  /\ clientInfo \in [Tests -> [Nodes -> Entry]]
  /\ multiTestContext \in SUBSET Tests
  /\ container \in [Nodes -> ContainerState]
  /\ label \in [Nodes -> Tests \cup {NoTest}]
  /\ accepting \in BOOLEAN
  /\ todo \in [suites: SUBSET Suites, tests: SUBSET Tests]

Init ==
  /\ testSuiteMutex = None /\ testCaseMutex = None
  /\ runningTestSuites = {} /\ results = {} /\ testSuiteCounter = 0
  /\ testCases = [s \in Suites |-> {}]
  /\ clientVersions = [s \in Suites |-> FALSE]
  /\ summaryFiles = [s \in Suites |-> 0]
  /\ runningTestCases = {} /\ testCaseCounter = 0
  /\ summaryResult = [t \in Tests |-> "none"]
  /\ clientInfo = [t \in Tests |-> [n \in Nodes |-> "absent"]]
  /\ multiTestContext = {}
  /\ container = [n \in Nodes |-> "none"]
  /\ label = [n \in Nodes |-> NoTest]
  /\ accepting = TRUE
  /\ at = [p \in Procs |-> "idle"]
  /\ arg = [p \in Procs |-> NoArgs]
  /\ todo = [suites |-> {}, tests |-> {}]

-----------------------------------------------------------------------------
(* Control of a goroutine: go on with a stage, or answer the request.       *)

Goto(p, stage) == at' = [at EXCEPT ![p] = stage]
GotoWith(p, stage, a) ==
  /\ at' = [at EXCEPT ![p] = stage]
  /\ arg' = [arg EXCEPT ![p] = a]
Reply(p) == GotoWith(p, "idle", NoArgs)

\* Node n of test t gets the entry e in ClientInfo.
SetEntry(t, n, e) == clientInfo' = [clientInfo EXCEPT ![t][n] = e]

SuiteMutexFree == testSuiteMutex = None
CaseMutexFree == testCaseMutex = None

\* The containers whose ID the simulator has been told.
KnownNodes == {n \in Nodes : \E t \in Tests : clientInfo[t][n] # "absent"}

\* The test cases a request for suite s may name.
Nameable(s) == {t \in 1 .. testCaseCounter : CrossSuite \/ t \in testCases[s]}

\* A request comes, as long as the API server is open.
Arrive(p) ==
  /\ accepting /\ at[p] = "idle"
  /\ Goto(p, "suite?")
  /\ UNCHANGED <<locks, suiteVars, testVars, clientVars, hostVars, arg>>

\* POST .../testsuite: StartTestSuite, one critical section of testSuiteMutex.
StartTestSuite(p) ==
  /\ at[p] = "suite?" /\ SuiteMutexFree
  /\ testSuiteCounter < MaxSuites
  /\ runningTestSuites' = runningTestSuites \cup {testSuiteCounter}
  /\ testSuiteCounter' = testSuiteCounter + 1
  /\ Reply(p)
  /\ UNCHANGED <<locks, results, clientVersions, summaryFiles, testVars,
                 clientVars, hostVars>>

\* A request that names a running suite: requestSuite succeeds.
Receive(p) ==
  /\ at[p] = "suite?" /\ SuiteMutexFree
  /\ \E s \in runningTestSuites :
       \/ \E op \in {"startTest", "endSuite"} :
            GotoWith(p, op, Request(s, NoTest, NoNode, NoTest, op))
       \/ \E op \in {"endTest", "create"}, t \in Nameable(s) :
            GotoWith(p, "test?", Request(s, t, NoNode, NoTest, op))
       \/ \E op \in {"stop", "pause", "unpause"}, t \in Nameable(s), n \in KnownNodes :
            GotoWith(p, "test?", Request(s, t, n, NoTest, op))
       \/ \E t, u \in Nameable(s), n \in KnownNodes :
            /\ ShareBack \/ (label[n] = t /\ u # t)
            /\ GotoWith(p, "test?", Request(s, t, n, u, "inSuite"))
  /\ UNCHANGED <<locks, suiteVars, testVars, clientVars, hostVars>>

\* A request that is refused: its suite is not running.  (Or it would start one suite
\* more than MaxSuites.)
Refuse(p) ==
  /\ at[p] = "suite?" /\ SuiteMutexFree
  /\ Reply(p)
  /\ UNCHANGED <<locks, suiteVars, testVars, clientVars, hostVars>>

\* requestTest: the test case has to be running.
RequestTest_Polls(p) ==
  /\ at[p] = "test?" /\ CaseMutexFree
  /\ IF arg[p].test \in runningTestCases
     THEN Goto(p, arg[p].next) /\ UNCHANGED arg
     ELSE UNCHANGED <<at, arg>>
  /\ UNCHANGED <<locks, suiteVars, testVars, clientVars, hostVars>>
RequestTest(p) ==
  /\ at[p] = "test?" /\ CaseMutexFree
  /\ IF arg[p].test \in runningTestCases
     THEN Goto(p, arg[p].next) /\ UNCHANGED arg
     ELSE Reply(p)
  /\ UNCHANGED <<locks, suiteVars, testVars, clientVars, hostVars>>

-----------------------------------------------------------------------------
(* Test cases                                                               *)

\* Terminate is between two iterations of its loop over the tests of suite s:
\* whether Go's range visits a key added meanwhile is left open.
Ranging(s) == at[Host] \in {"tests", "endTest"} /\ arg[Host].suite = s

\* The ID of a new test case.
NextTestID == testCaseCounter + 1

\* The check of StartTest reads runningTestSuites under testCaseMutex only: it
\* does not wait for a goroutine that is ending the suite.
StartTest_KeepsLock(p) ==
  /\ at[p] = "startTest" /\ CaseMutexFree
  /\ testCaseMutex' = p
  /\ IF arg[p].suite \in runningTestSuites
     THEN Goto(p, "addTest") /\ UNCHANGED arg
     ELSE Reply(p)
  /\ UNCHANGED <<testSuiteMutex, suiteVars, testVars, clientVars, hostVars>>
StartTest(p) ==
  /\ at[p] = "startTest" /\ CaseMutexFree
  /\ IF arg[p].suite \in runningTestSuites
     THEN testCaseMutex' = p /\ Goto(p, "addTest") /\ UNCHANGED arg
     ELSE Reply(p) /\ UNCHANGED testCaseMutex
  /\ UNCHANGED <<testSuiteMutex, suiteVars, testVars, clientVars, hostVars>>

\* The rest of StartTest: by now the suite may be written, or moved to results.
\* (MaxTests bounds the model: a request beyond it adds no test.)
AddTest(p) ==
  LET s == arg[p].suite
      t == NextTestID
  IN /\ at[p] = "addTest"
     /\ IF testCaseCounter < MaxTests
        THEN /\ testCaseCounter' = t
             /\ testCases' = [testCases EXCEPT ![s] = @ \cup {t}]
             /\ runningTestCases' = runningTestCases \cup {t}
             /\ todo' \in {todo} \cup
                          IF Ranging(s) THEN {[todo EXCEPT !.tests = @ \cup {t}]} ELSE {}
        ELSE UNCHANGED <<testCases, testCaseCounter, runningTestCases, todo>>
     /\ testCaseMutex' = None
     /\ Reply(p)
     /\ UNCHANGED <<testSuiteMutex, suiteVars, summaryResult, multiTestContext,
                    clientVars, accepting>>

\* The verdict EndTest records: the request's, or Terminate's.
Verdicts(p) == IF p = Host THEN {"timeout"} ELSE {"pass", "fail"}

\* The check of EndTest.  It is made under testCaseMutex; that the test case
\* belongs to the suite is not checked.
MayEndTest_AnyTest(s, t) == s \in runningTestSuites
MayEndTest(s, t) == s \in runningTestSuites /\ t \in runningTestCases

\* EndTest: check, record the result; testCaseMutex stays held.  An error ends
\* the request; it also makes Terminate return.
EndTest(p) ==
  LET t == arg[p].test
  IN /\ at[p] = "endTest" /\ CaseMutexFree
     /\ \/ /\ MayEndTest(arg[p].suite, t)
           /\ summaryResult' \in {[summaryResult EXCEPT ![t] = v] : v \in Verdicts(p)}
           /\ testCaseMutex' = p
           /\ Goto(p, "stopping")
           /\ UNCHANGED <<testSuiteMutex, arg>>
        \/ /\ ~MayEndTest(arg[p].suite, t)
           /\ IF p = Host
              THEN GotoWith(p, "done", NoArgs) /\ testSuiteMutex' = None
              ELSE Reply(p) /\ UNCHANGED testSuiteMutex
           /\ UNCHANGED <<summaryResult, testCaseMutex>>
     /\ UNCHANGED <<suiteVars, testCases, runningTestCases, testCaseCounter,
                    multiTestContext, clientVars, hostVars>>

\* The clients of test case t that EndTest still has to stop.
Unstopped(t) == {n \in Nodes : clientInfo[t][n] = "wait"}

\* One iteration of EndTest's loop over the clients: the error of
\* DeleteContainer is ignored, and wait is called either way.
StopNext(p) ==
  LET t == arg[p].test
  IN /\ at[p] = "stopping"
     /\ \E n \in Unstopped(t) :
          \/ /\ container' = [container EXCEPT ![n] = "gone"]
             /\ SetEntry(t, n, "nil")
             /\ UNCHANGED <<at, arg>>
          \/ /\ ClientFaults
             /\ GotoWith(p, "waiting", [arg[p] EXCEPT !.node = n])
             /\ UNCHANGED <<container, clientInfo>>
     /\ UNCHANGED <<locks, suiteVars, testVars, label, hostVars>>

\* wait returns when the container has stopped.
WaitReturns(p) ==
  LET t == arg[p].test
      n == arg[p].node
  IN /\ at[p] = "waiting"
     /\ container[n] \in {"exited", "gone"}
     /\ SetEntry(t, n, "nil")
     /\ GotoWith(p, "stopping", [arg[p] EXCEPT !.node = NoNode])
     /\ UNCHANGED <<locks, suiteVars, testVars, container, label, hostVars>>

\* The end of EndTest.
EndTestDone(p) ==
  /\ at[p] = "stopping" /\ Unstopped(arg[p].test) = {}
  /\ runningTestCases' = runningTestCases \ {arg[p].test}
  /\ testCaseMutex' = None
  /\ IF p = Host THEN Goto(p, "tests") /\ UNCHANGED arg ELSE Reply(p)
  /\ UNCHANGED <<testSuiteMutex, suiteVars, testCases, testCaseCounter,
                 summaryResult, multiTestContext, clientVars, hostVars>>

-----------------------------------------------------------------------------
(* Clients: startClient                                                     *)

\* CreateContainer: it fails, or a container labelled with the test exists.
CreateContainer(p) ==
  /\ at[p] = "create"
  /\ \/ \E n \in Nodes :
          /\ container[n] = "none"
          /\ container' = [container EXCEPT ![n] = "created"]
          /\ label' = [label EXCEPT ![n] = arg[p].test]
          /\ GotoWith(p, "connect", [arg[p] EXCEPT !.node = n])
     \/ Reply(p) /\ UNCHANGED <<container, label>>
  /\ UNCHANGED <<locks, suiteVars, testVars, clientInfo, hostVars>>

\* The loop over the requested networks: ConnectContainer takes networkMutex for
\* reading.  After the loop the check-live port is parsed: an error answers the
\* request and leaves the created container where it is.
ConnectNetworks(p) ==
  /\ at[p] = "connect"
  /\ \/ \E stage \in {"join", "start"} : Goto(p, stage) /\ UNCHANGED arg
     \/ Reply(p)
  /\ UNCHANGED <<locks, suiteVars, testVars, clientVars, hostVars>>

\* The goroutines that have networkMutex for reading.
NetworkReaders == {p \in Procs : at[p] = "join"}

\* The rest of ConnectContainer: IsTestSuiteRunning takes testSuiteMutex, then docker
\* connects the container.  A suite that has ended, an unknown network and an error
\* of docker answer the request, and leave the container too.
JoinNetwork(p) ==
  /\ at[p] = "join" /\ SuiteMutexFree
  /\ \/ /\ arg[p].suite \in runningTestSuites
        /\ Goto(p, "connect") /\ UNCHANGED arg
     \/ Reply(p)
  /\ UNCHANGED <<locks, suiteVars, testVars, clientVars, hostVars>>

\* StartContainer returns no info (it could not be run), info without a wait
\* function (it did not come up in time) or info of a live container.  In the
\* first two cases it deletes the container, ignoring an error of that.
StartContainer(p) ==
  LET n == arg[p].node
      Outcome(state, e) == /\ container' = [container EXCEPT ![n] = state]
                           /\ GotoWith(p, "version", [arg[p] EXCEPT !.entry = e])
  IN /\ at[p] = "start"
     /\ \/ \E state \in {"gone"} \cup IF ClientFaults THEN {"stray"} ELSE {} :
             \/ container' = [container EXCEPT ![n] = state] /\ Reply(p)
             \/ Outcome(state, "nil")
        \/ Outcome("running", "wait")
     /\ UNCHANGED <<locks, suiteVars, testVars, clientInfo, label, hostVars>>

\* The client's version is added to the suite, if that is still running.
AddClientVersion_OnlyLive(p) ==
  LET s == arg[p].suite
  IN /\ at[p] = "version" /\ SuiteMutexFree
     /\ clientVersions' = [clientVersions EXCEPT
                             ![s] = @ \/ (s \in runningTestSuites /\ arg[p].entry = "wait")]
     /\ Goto(p, "register")
     /\ UNCHANGED <<locks, runningTestSuites, results, testSuiteCounter,
                    summaryFiles, testVars, clientVars, hostVars, arg>>
AddClientVersion(p) ==
  LET s == arg[p].suite
  IN /\ at[p] = "version" /\ SuiteMutexFree
     /\ clientVersions' = [clientVersions EXCEPT ![s] = @ \/ s \in runningTestSuites]
     /\ Goto(p, "register")
     /\ UNCHANGED <<locks, runningTestSuites, results, testSuiteCounter,
                    summaryFiles, testVars, clientVars, hostVars, arg>>

\* The check of RegisterNode.
MayRegister_Always(t) == TRUE
MayRegister(t) == t \in runningTestCases

\* RegisterNode.  startClient ignores its error: the answer is the same.
RegisterNode(p) ==
  LET t == arg[p].test
  IN /\ at[p] = "register" /\ CaseMutexFree
     /\ IF MayRegister(t)
        THEN SetEntry(t, arg[p].node, arg[p].entry)
        ELSE UNCHANGED clientInfo
     /\ Reply(p)
     /\ UNCHANGED <<locks, suiteVars, testVars, container, label, hostVars>>

-----------------------------------------------------------------------------
(* Clients: stop, pause and unpause, registerMultiTestNode                  *)

HasNode(t, n) == t \in runningTestCases /\ clientInfo[t][n] # "absent"

\* StopNode: unlike EndTest it does report an error of DeleteContainer.
StopNode_ForgetsFirst(p) ==
  LET t == arg[p].test
      n == arg[p].node
  IN /\ at[p] = "stop" /\ CaseMutexFree
     /\ IF HasNode(t, n)
        THEN /\ SetEntry(t, n, "nil")
             /\ container' = [container EXCEPT ![n] = IF ClientFaults THEN @ ELSE "gone"]
        ELSE UNCHANGED <<container, clientInfo>>
     /\ Reply(p)
     /\ UNCHANGED <<locks, suiteVars, testVars, label, hostVars>>
StopNode(p) ==
  LET t == arg[p].test
      n == arg[p].node
  IN /\ at[p] = "stop" /\ CaseMutexFree
     /\ \/ /\ HasNode(t, n) /\ clientInfo[t][n] = "wait"
           /\ container' = [container EXCEPT ![n] = "gone"]
           /\ SetEntry(t, n, "nil")
        \/ /\ ClientFaults \/ ~HasNode(t, n) \/ clientInfo[t][n] = "nil"
           /\ UNCHANGED <<container, clientInfo>>
     /\ Reply(p)
     /\ UNCHANGED <<locks, suiteVars, testVars, label, hostVars>>

\* PauseNode and UnpauseNode: the backend refuses a container that is not in
\* the state it expects.
PauseNode(p) ==
  LET t == arg[p].test
      n == arg[p].node
      from == IF at[p] = "pause" THEN "running" ELSE "paused"
      to == IF at[p] = "pause" THEN "paused" ELSE "running"
  IN /\ at[p] \in {"pause", "unpause"} /\ CaseMutexFree
     /\ container' = IF HasNode(t, n) /\ container[n] = from
                      THEN [container EXCEPT ![n] = to] ELSE container
     /\ Reply(p)
     /\ UNCHANGED <<locks, suiteVars, testVars, clientInfo, label, hostVars>>

\* registerMultiTestNode: the target has to be a test of the running suite.
IsTestInSuite(p) ==
  /\ at[p] = "inSuite" /\ SuiteMutexFree /\ CaseMutexFree
  /\ IF /\ arg[p].suite \in runningTestSuites
        /\ arg[p].other \in testCases[arg[p].suite]
     THEN Goto(p, "getNode") /\ UNCHANGED arg
     ELSE Reply(p)
  /\ UNCHANGED <<locks, suiteVars, testVars, clientVars, hostVars>>

\* The copy of the client's entry that the target gets has no wait function.
SharedEntry_WithWait(e) == e
SharedEntry(e) == "nil"

\* GetNodeInfo of the source; the copy is made after the mutex is released.
GetNodeInfo(p) ==
  LET e == clientInfo[arg[p].test][arg[p].node]
  IN /\ at[p] = "getNode" /\ CaseMutexFree
     /\ IF HasNode(arg[p].test, arg[p].node)
        THEN GotoWith(p, "target", [arg[p] EXCEPT !.entry = SharedEntry(e)])
        ELSE Reply(p)
     /\ UNCHANGED <<locks, suiteVars, testVars, clientVars, hostVars>>

\* RegisterNode of the target, whose error does end the request.
RegisterTarget(p) ==
  LET u == arg[p].other
  IN /\ at[p] = "target" /\ CaseMutexFree
     /\ IF MayRegister(u)
        THEN /\ SetEntry(u, arg[p].node, arg[p].entry)
             /\ Goto(p, "context") /\ UNCHANGED arg
        ELSE Reply(p) /\ UNCHANGED clientInfo
     /\ UNCHANGED <<locks, suiteVars, testVars, container, label, hostVars>>

\* SetMultiTestContext of the source, which may have ended since.
SetMultiTestContext(p) ==
  /\ at[p] = "context" /\ CaseMutexFree
  /\ multiTestContext' = multiTestContext \cup ({arg[p].test} \cap runningTestCases)
  /\ Reply(p)
  /\ UNCHANGED <<locks, suiteVars, testCases, runningTestCases, testCaseCounter,
                 summaryResult, clientVars, hostVars>>

-----------------------------------------------------------------------------
(* Ending a suite: EndTestSuite, and Terminate's calls of doEndSuite        *)

\* doEndSuite returns: to the handler, which unlocks and answers, or to
\* Terminate, which ignores the error and goes on.
EndSuiteReturns(p) ==
  IF p = Host THEN Goto(p, "suites") /\ UNCHANGED <<testSuiteMutex, arg>>
              ELSE Reply(p) /\ testSuiteMutex' = None

\* The checks of doEndSuite.  runningTestCases is read without testCaseMutex.
MayEndSuite(s) == s \in runningTestSuites /\ testCases[s] \cap runningTestCases = {}

\* EndTestSuite takes testSuiteMutex, which Terminate already has; then the checks.
DoEndSuite(p) ==
  /\ at[p] = "endSuite"
  /\ p # Host => SuiteMutexFree
  /\ IF MayEndSuite(arg[p].suite)
     THEN testSuiteMutex' = p /\ Goto(p, "write") /\ UNCHANGED arg
     ELSE EndSuiteReturns(p)
  /\ UNCHANGED <<testCaseMutex, suiteVars, testVars, clientVars, hostVars>>

\* writeSuiteFile.  On an error the suite stays a running one.
WriteSuiteFile_ErrorIgnored(p) ==
  LET s == arg[p].suite
  IN /\ at[p] = "write"
     /\ \/ summaryFiles' = [summaryFiles EXCEPT ![s] = @ + 1]
        \/ DiskFaults /\ UNCHANGED summaryFiles
     /\ Goto(p, "move")
     /\ UNCHANGED <<locks, runningTestSuites, results, testSuiteCounter,
                    clientVersions, testVars, clientVars, hostVars, arg>>
WriteSuiteFile(p) ==
  LET s == arg[p].suite
  IN /\ at[p] = "write"
     /\ \/ /\ summaryFiles' = [summaryFiles EXCEPT ![s] = @ + 1]
           /\ Goto(p, "move") /\ UNCHANGED <<testSuiteMutex, arg>>
        \/ /\ DiskFaults
           /\ EndSuiteReturns(p) /\ UNCHANGED summaryFiles
     /\ UNCHANGED <<testCaseMutex, runningTestSuites, results, testSuiteCounter,
                    clientVersions, testVars, clientVars, hostVars>>

\* PruneNetworks takes networkMutex for writing (what it does with it is in
\* NetworkManager), then the suite moves to the results.
MoveToResults(p) ==
  LET s == arg[p].suite
  IN /\ at[p] = "move" /\ NetworkReaders = {}
     /\ runningTestSuites' = runningTestSuites \ {s}
     /\ results' = results \cup {s}
     /\ EndSuiteReturns(p)
     /\ UNCHANGED <<testCaseMutex, testSuiteCounter, clientVersions, summaryFiles,
                    testVars, clientVars, hostVars>>

-----------------------------------------------------------------------------
(* The host                                                                 *)

\* The simulation is over: the API server is closed, which lets the handlers
\* already running go on, and the deferred Terminate is due.
Shutdown ==
  /\ accepting /\ at[Host] = "idle"
  /\ accepting' = FALSE
  /\ Goto(Host, "terminate")
  /\ UNCHANGED <<locks, suiteVars, testVars, clientVars, todo, arg>>

TerminateBegin ==
  /\ at[Host] = "terminate" /\ SuiteMutexFree
  /\ testSuiteMutex' = Host
  /\ todo' = [todo EXCEPT !.suites = runningTestSuites]
  /\ Goto(Host, "suites")
  /\ UNCHANGED <<testCaseMutex, suiteVars, testVars, clientVars, accepting, arg>>

\* The loop over the running suites: the next suite, or the end of Terminate.
TerminateSuite ==
  /\ at[Host] = "suites"
  /\ \/ \E s \in todo.suites :
          /\ todo' = [suites |-> todo.suites \ {s}, tests |-> testCases[s]]
          /\ GotoWith(Host, "tests", Request(s, NoTest, NoNode, NoTest, "tests"))
          /\ UNCHANGED testSuiteMutex
     \/ /\ todo.suites = {}
        /\ GotoWith(Host, "done", NoArgs)
        /\ testSuiteMutex' = None
        /\ UNCHANGED todo
  /\ UNCHANGED <<testCaseMutex, suiteVars, testVars, clientVars, accepting>>

\* The loop over the tests of a suite: IsTestRunning releases testCaseMutex
\* before EndTest takes it.  After the loop comes doEndSuite.
TerminateTest ==
  /\ at[Host] = "tests"
  /\ \/ \E t \in todo.tests :
          /\ CaseMutexFree
          /\ todo' = [todo EXCEPT !.tests = @ \ {t}]
          /\ IF t \in runningTestCases
             THEN GotoWith(Host, "endTest", [arg[Host] EXCEPT !.test = t])
             ELSE UNCHANGED <<at, arg>>
     \/ /\ todo.tests = {}
        /\ Goto(Host, "endSuite")
        /\ UNCHANGED <<todo, arg>>
  /\ UNCHANGED <<locks, suiteVars, testVars, clientVars, accepting>>

\* A client's container stops by itself.
ContainerExits(n) ==
  /\ ClientFaults /\ container[n] = "running"
  /\ container' = [container EXCEPT ![n] = "exited"]
  /\ UNCHANGED <<locks, suiteVars, testVars, clientInfo, label, hostVars, at, arg>>

-----------------------------------------------------------------------------

\* The first step of a goroutine that serves a request.
Serve(p) == StartTestSuite(p) \/ Receive(p) \/ Refuse(p)

\* Its other steps, and those of Terminate, once begun.
Step(p) ==
  \/ RequestTest(p) \/ StartTest(p) \/ AddTest(p)
  \/ EndTest(p) \/ StopNext(p) \/ WaitReturns(p) \/ EndTestDone(p)
  \/ CreateContainer(p) \/ ConnectNetworks(p) \/ JoinNetwork(p)
  \/ StartContainer(p)
  \/ AddClientVersion(p) \/ RegisterNode(p)
  \/ StopNode(p) \/ PauseNode(p)
  \/ IsTestInSuite(p) \/ GetNodeInfo(p) \/ RegisterTarget(p) \/ SetMultiTestContext(p)
  \/ DoEndSuite(p) \/ WriteSuiteFile(p) \/ MoveToResults(p)

Terminate == TerminateBegin \/ TerminateSuite \/ TerminateTest

\* The process is about to exit: Terminate returned and no handler is running.
Finished ==
  /\ at[Host] = "done" /\ \A p \in Handlers : at[p] = "idle"
  /\ UNCHANGED vars

Next ==
  \/ \E p \in Handlers : Arrive(p) \/ Serve(p)
  \/ \E p \in Procs : Step(p)
  \/ Shutdown \/ Terminate
  \/ \E n \in Nodes : ContainerExits(n)
  \/ Finished

Spec == Init /\ [][Next]_vars

\* Go schedules every runnable goroutine, and Runner.run ends by the simulator's
\* exit, a time limit or an interrupt.  A request names finitely many networks: the
\* loop of ConnectNetworks is left.
LoopLeft(p) == ConnectNetworks(p) /\ at'[p] # "join"
Fairness ==
  /\ \A p \in Procs : WF_vars(Step(p))
  /\ \A p \in Handlers : WF_vars(Serve(p)) /\ SF_vars(LoopLeft(p))
  /\ WF_vars(Shutdown) /\ WF_vars(Terminate)

FairSpec == Spec /\ Fairness

-----------------------------------------------------------------------------
(* Properties                                                               *)

\* A request for a client is between StartContainer and RegisterNode.
InFlight(n) == \E p \in Handlers : at[p] \in {"version", "register"} /\ arg[p].node = n
\* (A stray container is not up: it may run on, but its start has failed.)
Up(n) == container[n] \in {"running", "paused"}

\* A test case that has ended owns no client: whatever order endTest, startClient,
\* stopClient and registerMultiTestNode take testCaseMutex in, no ended test is
\* left with an entry whose container nobody will stop any more.
EndedTestOwnsNothing ==
  \A t \in Tests \ runningTestCases, n \in Nodes : clientInfo[t][n] # "wait"

\* A client is stopped by one test only, the one it was started for, and while
\* it is owned its container has not been removed: sharing a client with other
\* tests (registerMultiTestNode) passes on no right to stop it.
SingleOwner ==
  \A t \in Tests, n \in Nodes :
    clientInfo[t][n] = "wait" => /\ label[n] = t
                                 /\ container[n] \in {"running", "paused", "exited"}

\* As long as its test runs, a client that is up and whose start request has been
\* served is owned by that test (so that EndTest will stop it).  This assumes
\* what ShareBack = FALSE says of registerMultiTestNode.
RunningClientOwned ==
  \A n \in Nodes :
    Up(n) /\ label[n] \in runningTestCases /\ ~InFlight(n)
      => clientInfo[label[n]][n] = "wait"

\* Each suite is either running or ended, an ended one has exactly one summary
\* file and no suite ever gets two, though handlers and Terminate may be ending
\* it at the same time and writing the file may fail.
OneSummary ==
  /\ runningTestSuites \cap results = {}
  /\ \A s \in Suites : summaryFiles[s] <= 1 /\ (s \in results => summaryFiles[s] = 1)

\* A running suite knows the version of every client its tests list, so the
\* summary file written next names them all: startClient adds the version first
\* and registers the node after.
VersionKnown ==
  \A s \in runningTestSuites, n \in Nodes :
    (\E t \in testCases[s] : clientInfo[t][n] # "absent") => clientVersions[s]

\* One goroutine, which has testSuiteMutex, wants networkMutex for writing, and
\* another, which has networkMutex for reading, wants testSuiteMutex.
Inverted == \E p, q \in Procs : at[p] = "move" /\ at[q] = "join"

\* p waits for a mutex: it cannot go on before another goroutine has.  At "inSuite"
\* a goroutine may have testSuiteMutex for reading and wait for testCaseMutex, so
\* whoever needs testSuiteMutex may be waiting for it; and a writer that waits for
\* networkMutex keeps new readers out.
Waits(p) ==
  \/ /\ at[p] \in {"suite?", "join", "version", "terminate"} \/ (at[p] = "endSuite" /\ p # Host)
     /\ ~SuiteMutexFree \/ \E q \in Procs : at[q] = "inSuite"
  \/ at[p] = "inSuite" /\ ~SuiteMutexFree
  \/ /\ at[p] \in {"test?", "startTest", "endTest", "register", "stop", "pause", "unpause",
                    "inSuite", "getNode", "target", "context", "tests"}
     /\ ~CaseMutexFree
  \/ at[p] = "connect" /\ \E q \in Procs : at[q] = "move"
  \/ at[p] = "move" /\ NetworkReaders # {}
Busy(p) == at[p] \notin {"idle", "done"}

\* Requests and Terminate never all wait for each other, but for the end of a suite
\* that meets a startClient which is joining a network: while anything else is going
\* on, some goroutine needs no mutex that another one has.
OnlyInversionDeadlocks ==
  (\E p \in Procs : Busy(p)) => Inverted \/ \E p \in Procs : Busy(p) /\ ~Waits(p)

\* The first verdict of a test stands: neither a second endTest nor Terminate,
\* racing with it, replaces a recorded result.
FirstVerdictStands ==
  [][\A t \in Tests : summaryResult[t] # "none" => summaryResult'[t] = summaryResult[t]]_vars

\* A test that has ended stays ended and its verdict is final; a suite that has
\* ended stays ended.  AddTest never reuses an ID.
EndedStaysEnded ==
  [][/\ results \subseteq results'
     /\ \A t \in 1 .. testCaseCounter : t \notin runningTestCases => t \notin runningTestCases']_vars

\* Once the API server is closed, Terminate returns, whatever requests are still
\* being served: the inversion of networkMutex and testSuiteMutex is the only way
\* for it to hang.  (Nothing resolves an inversion: Inverted stays true.)
TerminateReturns == ~accepting ~> at[Host] = "done" \/ Inverted

\* Every request is answered, or hangs with the inversion.
RequestsAnswered == \A p \in Handlers : at[p] # "idle" ~> at[p] = "idle" \/ Inverted

\* Suites and tests live as TestLedger says: whatever the handlers and Terminate do
\* at the same time, a suite ends after one summary was written, a test is decided
\* once before it ends, and no test starts in a suite that has not.
StateOf(x, running, known) ==
  IF x \in running THEN "running" ELSE IF x \in known THEN "ended" ELSE "unused"
Ledger == INSTANCE TestLedger WITH
  suiteState <- [s \in Suites |-> StateOf(s, runningTestSuites, results)],
  summaries <- summaryFiles,
  members <- testCases,
  testState <- [t \in Tests |-> StateOf(t, runningTestCases, 1 .. testCaseCounter)],
  verdict <- summaryResult
LedgerImplemented == Ledger!Spec

\* What a comment in the code says, and concurrent requests break.

\* "Register the node.  This should always be done, even if starting the
\* container failed" (startClient).
StartedClientRegistered ==
  \A n \in Nodes : Up(n) /\ ~InFlight(n) => \E t \in Tests : clientInfo[t][n] # "absent"
=============================================================================
