---------------------------- MODULE LedgerProofs ----------------------------
(***************************************************************************)
(* TestManager implements TestLedger, for every value of its constants.    *)
(***************************************************************************)
EXTENDS TestManagerProofs

\* What a goroutine in the middle of EndTest has done already: its test has a
\* verdict.
Decided == \A p \in Procs : Ending(p) => summaryResult[arg[p].test] # "none"

\* What StartTest still knows of the suite when it adds the test.
Begun == \A p \in Procs : Adding(p) => arg[p].suite \in runningTestSuites \cup results

LedgerInv == OwnerInv /\ CaseLock /\ SuiteLock /\ Decided /\ Begun

\* What TestLedger sees of the manager.
ledgerSees == <<runningTestSuites, results, summaryFiles, testCases,
                runningTestCases, testCaseCounter, summaryResult>>

\* A handler that begins to serve a request, or refuses it.
LEMMA ServeMoves ==
  ASSUME LedgerInv, NEW p \in Handlers, Arrive(p) \/ Refuse(p) \/ StartTestSuite(p)
  PROVE  /\ \E x \in {"suite?", "idle"} : at' = [at EXCEPT ![p] = x]
         /\ \A q \in Procs \ {p} : arg'[q] = arg[q]
         /\ at[p] \in {"suite?", "idle"} /\ arg'[p] \in {arg[p], NoArgs}
<1> ControlType /\ p \in Procs
  BY DEF LedgerInv, OwnerInv, TypeOK, Procs
<1>1. CASE Arrive(p)
  BY <1>1 DEF Arrive, Goto
<1>2. CASE Refuse(p)
  BY <1>2 DEF Refuse, Reply, GotoWith, ControlType
<1>3. CASE StartTestSuite(p)
  BY <1>3 DEF StartTestSuite, Reply, GotoWith, ControlType
<1> QED
  BY <1>1, <1>2, <1>3

LEMMA DecidedInit == Init => Decided
  BY DEF Init, Decided, Ending

\* A step whose goroutines in EndTest were in it before, for the same test.
LEMMA DecidedQuiet ==
  ASSUME LedgerInv, [Next]_vars,
         \A q \in Procs : Ending(q)' => Ending(q) /\ arg'[q].test = arg[q].test
  PROVE  Decided'
<1>1. \A q \in Procs : Ending(q) => arg[q].test \in Tests
  BY DEF LedgerInv, OwnerInv, Control, Fits, Ending
<1>2. \A t \in Tests : summaryResult[t] # "none" => summaryResult'[t] = summaryResult[t]
  BY VerdictStep DEF LedgerInv
<1> QED
  BY <1>1, <1>2 DEF LedgerInv, Decided

LEMMA DecidedNext == LedgerInv /\ [Next]_vars => Decided'
<1> SUFFICES ASSUME LedgerInv, [Next]_vars PROVE Decided'
  OBVIOUS
<1>0. TypeOK /\ ControlType /\ Host \in Procs /\ Handlers \subseteq Procs
  BY DEF LedgerInv, OwnerInv, TypeOK, Procs
<1>1. ASSUME UNCHANGED <<at, arg>> PROVE Decided'
  BY <1>1, DecidedQuiet DEF Ending
<1>2. ASSUME NEW p \in Procs, NEW x \in Stage \ {"stopping", "waiting"},
             at' = [at EXCEPT ![p] = x], \A q \in Procs \ {p} : arg'[q] = arg[q]
      PROVE  Decided'
  <2>1. \A q \in Procs : Ending(q)' => q # p /\ Ending(q)
    BY <1>0, <1>2 DEF Ending, ControlType
  <2> QED
    BY <1>2, <2>1, DecidedQuiet
<1>3. ASSUME NEW p \in Handlers, Receive(p) PROVE Decided'
  <2>1. \E x \in {"startTest", "endSuite", "test?"} : \E a : GotoWith(p, x, a)
    BY <1>3 DEF Receive
  <2>2. PICK x \in {"startTest", "endSuite", "test?"} : \E a : GotoWith(p, x, a)
    BY <2>1, Zenon
  <2>3. at' = [at EXCEPT ![p] = x] /\ \A q \in Procs \ {p} : arg'[q] = arg[q]
    BY <1>0, <2>2 DEF GotoWith, ControlType
  <2> QED
    BY <1>0, <1>2, <2>3, StageType
<1>4. ASSUME NEW p \in Procs, EndTest(p) PROVE Decided'
  <2>1. MayEndTest(arg[p].suite, arg[p].test) => arg[p].test \in Tests
    BY <1>0 DEF MayEndTest, TypeOK
  <2>2. CASE MayEndTest(arg[p].suite, arg[p].test)
    <3>1. /\ \E v \in {"pass", "fail", "timeout"} :
               summaryResult' = [summaryResult EXCEPT ![arg[p].test] = v]
          /\ at' = [at EXCEPT ![p] = "stopping"] /\ arg' = arg
          /\ testCaseMutex = None
      BY <1>4, <2>2 DEF EndTest, Goto, Verdicts, CaseMutexFree
    <3>2. \A q \in Procs : ~Ending(q)
      BY <3>1, ManagerAssumption DEF LedgerInv, CaseLock, Procs
    <3>3. \A q \in Procs : Ending(q)' => q = p
      BY <1>0, <3>1, <3>2 DEF Ending, ControlType
    <3> QED
      BY <1>0, <2>1, <2>2, <3>1, <3>3 DEF Decided, TypeOK
  <2>3. CASE ~MayEndTest(arg[p].suite, arg[p].test)
    <3>1. /\ \E x \in {"done", "idle"} : at' = [at EXCEPT ![p] = x]
          /\ \A q \in Procs \ {p} : arg'[q] = arg[q]
      BY <1>0, <1>4, <2>3 DEF EndTest, GotoWith, Reply, ControlType
    <3> QED
      BY <1>2, <3>1, StageType
  <2> QED
    BY <2>2, <2>3
<1>5. ASSUME NEW p \in Procs, StopNext(p) \/ WaitReturns(p) PROVE Decided'
  <2>1. Ending(p) /\ (arg'[p] = arg[p] \/ \E n : arg'[p] = [arg[p] EXCEPT !.node = n])
    BY <1>0, <1>5 DEF StopNext, WaitReturns, GotoWith, Ending, ControlType
  <2>2. \A q \in Procs \ {p} : at'[q] = at[q] /\ arg'[q] = arg[q]
    BY <1>0, <1>5 DEF StopNext, WaitReturns, GotoWith, ControlType
  <2>3. arg'[p].test = arg[p].test
    <3>1. arg[p] \in Args
      BY <1>0 DEF ControlType
    <3>2. \A n : [arg[p] EXCEPT !.node = n].test = arg[p].test
      BY <3>1, ArgsFields
    <3> QED
      BY <2>1, <3>2
  <2> QED
    BY <2>1, <2>2, <2>3, DecidedQuiet DEF Ending
<1>6. ASSUME NEW p \in Procs, Step(p), ~(EndTest(p) \/ StopNext(p) \/ WaitReturns(p))
      PROVE  Decided'
  <2>1. CASE EndTestDone(p)
    <3>1. /\ \E x \in {"tests", "idle"} : at' = [at EXCEPT ![p] = x]
          /\ \A q \in Procs \ {p} : arg'[q] = arg[q]
      BY <1>0, <2>1 DEF EndTestDone, Goto, GotoWith, Reply, ControlType
    <3> QED
      BY <1>2, <3>1, StageType
  <2>2. CASE StartTest(p) \/ AddTest(p)
    <3>1. /\ \E x \in {"addTest", "idle"} : at' = [at EXCEPT ![p] = x]
          /\ \A q \in Procs \ {p} : arg'[q] = arg[q]
      BY <1>0, <2>2 DEF StartTest, AddTest, Goto, GotoWith, Reply, ControlType
    <3> QED
      BY <1>2, <3>1, StageType
  <2>3. CASE ~(EndTestDone(p) \/ StartTest(p) \/ AddTest(p))
    <3>1. /\ \A q \in Procs : Ending(q)' <=> Ending(q)
          /\ \A q \in Procs : Ending(q) => arg'[q].test = arg[q].test
      BY <1>6, <2>3, CaseOther DEF LedgerInv, Step
    <3> QED
      BY <3>1, DecidedQuiet
  <2> QED
    BY <2>1, <2>2, <2>3
<1>7. CASE Shutdown \/ Terminate
  <2>1. \E x \in {"terminate", "suites", "tests", "done", "endTest", "endSuite"} :
          at' = [at EXCEPT ![Host] = x]
    BY <1>0, <1>7 DEF Shutdown, Terminate, TerminateBegin, TerminateSuite, TerminateTest, Goto,
                      GotoWith, ControlType
  <2>2. \A q \in Procs \ {Host} : arg'[q] = arg[q]
    BY <1>0, <1>7 DEF Shutdown, Terminate, TerminateBegin, TerminateSuite, TerminateTest, Goto,
                      GotoWith, ControlType
  <2> QED
    BY <1>0, <1>2, <2>1, <2>2, StageType
<1>8. CASE \/ \E n \in Nodes : ContainerExits(n)
           \/ UNCHANGED vars
  BY <1>1, <1>8 DEF ContainerExits, vars
<1>9. ASSUME NEW p \in Handlers, Arrive(p) \/ Refuse(p) \/ StartTestSuite(p) PROVE Decided'
  BY <1>0, <1>2, <1>9, ServeMoves, StageType
<1> QED
  BY <1>3, <1>4, <1>5, <1>6, <1>7, <1>8, <1>9 DEF Next, Finished, Serve

LEMMA BegunInit == Init => Begun
  BY DEF Init, Begun, Adding

\* A suite that was running or has ended stays so, and a request that was checked
\* goes on with the suite it was checked for.
LEMMA BegunNext == LedgerInv /\ [Next]_vars => Begun'
<1> SUFFICES ASSUME LedgerInv, [Next]_vars PROVE Begun'
  OBVIOUS
<1> USE DEF locks, suiteVars, testVars
<1>0. TypeOK /\ ControlType /\ Host \in Procs /\ Handlers \subseteq Procs
  BY DEF LedgerInv, OwnerInv, TypeOK, Procs
<1>1. runningTestSuites \cup results \subseteq runningTestSuites' \cup results'
  <2>1. ASSUME NEW p \in Procs, Step(p)
        PROVE  runningTestSuites \cup results \subseteq runningTestSuites' \cup results'
    BY <2>1
    DEF Step, RequestTest, StartTest, AddTest, EndTest, StopNext, WaitReturns, EndTestDone,
        CreateContainer, ConnectNetworks, JoinNetwork, StartContainer, AddClientVersion, RegisterNode,
        StopNode, PauseNode, IsTestInSuite, GetNodeInfo, RegisterTarget, SetMultiTestContext,
        DoEndSuite, WriteSuiteFile, MoveToResults
  <2> QED
    BY <2>1 DEF Next, Arrive, Serve, Refuse, StartTestSuite, Receive, Shutdown, Terminate, TerminateBegin,
                TerminateSuite, TerminateTest, ContainerExits, Finished, vars
<1>2. ASSUME \A q \in Procs : Adding(q)' => Adding(q) /\ arg'[q] = arg[q]
      PROVE  Begun'
  BY <1>1, <1>2 DEF Begun, LedgerInv
<1>3. ASSUME UNCHANGED <<at, arg>> PROVE Begun'
  BY <1>2, <1>3 DEF Adding
<1>4. ASSUME NEW p \in Procs, NEW x \in Stage \ {"addTest"},
             at' = [at EXCEPT ![p] = x], \A q \in Procs \ {p} : arg'[q] = arg[q]
      PROVE  Begun'
  <2>1. \A q \in Procs : Adding(q)' => q # p /\ Adding(q)
    BY <1>0, <1>4 DEF Adding, ControlType
  <2> QED
    BY <1>2, <1>4, <2>1
<1>5. ASSUME NEW p \in Handlers, Receive(p) PROVE Begun'
  <2>1. \E x \in {"startTest", "endSuite", "test?"} : \E a : GotoWith(p, x, a)
    BY <1>5 DEF Receive
  <2>2. PICK x \in {"startTest", "endSuite", "test?"} : \E a : GotoWith(p, x, a)
    BY <2>1, Zenon
  <2>3. at' = [at EXCEPT ![p] = x] /\ \A q \in Procs \ {p} : arg'[q] = arg[q]
    BY <1>0, <2>2 DEF GotoWith, ControlType
  <2> QED
    BY <1>0, <1>4, <2>3, StageType
<1>6. ASSUME NEW p \in Procs, StartTest(p) PROVE Begun'
  <2>1. CASE arg[p].suite \in runningTestSuites
    <3>1. at' = [at EXCEPT ![p] = "addTest"] /\ arg' = arg
      BY <1>6, <2>1 DEF StartTest, Goto
    <3>2. \A q \in Procs \ {p} : Adding(q)' => Adding(q)
      BY <1>0, <3>1 DEF Adding, ControlType
    <3> QED
      BY <1>1, <2>1, <3>1, <3>2 DEF Begun, LedgerInv
  <2>2. CASE arg[p].suite \notin runningTestSuites
    BY <1>0, <1>4, <1>6, <2>2, StageType DEF StartTest, GotoWith, Reply, ControlType
  <2> QED
    BY <2>1, <2>2
<1>7. ASSUME NEW p \in Procs, Step(p), ~StartTest(p) PROVE Begun'
  <2>1. CASE EndTest(p) \/ StopNext(p) \/ WaitReturns(p) \/ EndTestDone(p) \/ AddTest(p)
    <3>1. CASE UNCHANGED <<at, arg>>
      BY <1>3, <3>1
    <3>2. CASE ~UNCHANGED <<at, arg>>
      <4>1. /\ \E x \in {"stopping", "waiting", "done", "idle", "tests"} :
                 at' = [at EXCEPT ![p] = x]
            /\ \A q \in Procs \ {p} : arg'[q] = arg[q]
        BY <1>0, <2>1, <3>2
        DEF EndTest, StopNext, WaitReturns, EndTestDone, AddTest, Goto, GotoWith, Reply,
            ControlType
      <4> QED
        BY <1>4, <4>1, StageType
    <3> QED
      BY <3>1, <3>2
  <2>2. CASE ~(EndTest(p) \/ StopNext(p) \/ WaitReturns(p) \/ EndTestDone(p) \/ AddTest(p))
    <3>1. PICK x \in Stage \ {"addTest"} :
            /\ at' = [at EXCEPT ![p] = x]
            /\ \A q \in Procs \ {p} : arg'[q] = arg[q]
      BY <1>7, <2>2, OtherMoves DEF LedgerInv, Step
    <3> QED
      BY <1>4, <3>1
  <2> QED
    BY <2>1, <2>2
<1>8. CASE Shutdown \/ Terminate
  <2>1. \/ UNCHANGED <<at, arg>>
        \/ /\ \E x \in {"terminate", "suites", "tests", "done", "endTest", "endSuite"} :
                at' = [at EXCEPT ![Host] = x]
           /\ \A q \in Procs \ {Host} : arg'[q] = arg[q]
    BY <1>0, <1>8 DEF Shutdown, Terminate, TerminateBegin, TerminateSuite, TerminateTest, Goto,
                      GotoWith, ControlType
  <2> QED
    BY <1>0, <1>3, <1>4, <2>1, StageType
<1>9. CASE \/ \E n \in Nodes : ContainerExits(n)
           \/ UNCHANGED vars
  BY <1>3, <1>9 DEF ContainerExits, vars
<1>10. ASSUME NEW p \in Handlers, Arrive(p) \/ Refuse(p) \/ StartTestSuite(p) PROVE Begun'
  BY <1>0, <1>4, <1>10, ServeMoves, StageType
<1> QED
  BY <1>5, <1>6, <1>7, <1>8, <1>9, <1>10 DEF Next, Finished, Serve

LEMMA LedgerInvInit == Init => LedgerInv
  BY OwnerInit, CaseInit, SuiteInit, DecidedInit, BegunInit DEF LedgerInv

LEMMA LedgerInvNext == LedgerInv /\ [Next]_vars => LedgerInv'
  BY OwnerNext, CaseNext, SuiteNext, DecidedNext, BegunNext DEF LedgerInv

-----------------------------------------------------------------------------
(* The refinement: initial states and steps                                 *)

LEMMA InitImplements == Init => Ledger!Init
  BY ManagerAssumption DEF Init, Ledger!Init, StateOf, Suites, Tests

LEMMA Stutter == UNCHANGED ledgerSees => UNCHANGED Ledger!ledgerVars
  BY DEF ledgerSees, Ledger!ledgerVars, StateOf

\* A suite or a test starts.
LEMMA StartImplements ==
  ASSUME LedgerInv, NEW p \in Procs, StartTestSuite(p) \/ AddTest(p)
  PROVE  Ledger!Next \/ UNCHANGED Ledger!ledgerVars
<1> USE DEF suiteVars, testVars, LedgerInv, OwnerInv
<1>1. CASE StartTestSuite(p)
  <2> DEFINE s == testSuiteCounter
  <2>1. s \in Suites /\ s \notin runningTestSuites \cup results
    BY <1>1, ManagerAssumption DEF StartTestSuite, SuiteLock, TypeOK, Suites
  <2>2. Ledger!StartSuite(s)
    BY <1>1, <2>1 DEF StartTestSuite, Ledger!StartSuite, StateOf
  <2> QED
    BY <2>1, <2>2 DEF Ledger!Next
<1>2. CASE AddTest(p) /\ testCaseCounter < MaxTests
  <2> DEFINE s == arg[p].suite
             t == testCaseCounter + 1
  <2>0. s \in Suites /\ s \in runningTestSuites \cup results
    BY <1>2, ArgsType DEF AddTest, Adding, Begun, TypeOK, ControlType
  <2>1. t \in Tests /\ t \notin 1 .. testCaseCounter
        /\ (1 .. t) \cap Tests = ((1 .. testCaseCounter) \cap Tests) \cup {t}
    BY <1>2, ManagerAssumption DEF TypeOK, Tests
  <2>2. t \notin runningTestCases
    BY <2>1, ManagerAssumption DEF CaseLock, TypeOK, Tests
  <2>3. /\ testCaseCounter' = t /\ runningTestCases' = runningTestCases \cup {t}
        /\ testCases' = [testCases EXCEPT ![s] = @ \cup {t}]
        /\ UNCHANGED <<runningTestSuites, results, summaryFiles, summaryResult>>
    BY <1>2, ManagerAssumption DEF AddTest, NextTestID, TypeOK
  <2>4. Ledger!StartTest(s, t)
    BY <1>2, <2>0, <2>1, <2>2, <2>3 DEF Ledger!StartTest, StateOf
  <2> QED
    BY <2>0, <2>1, <2>4 DEF Ledger!Next
<1>3. CASE AddTest(p) /\ ~(testCaseCounter < MaxTests)
  BY <1>3, Stutter DEF AddTest, ledgerSees, TypeOK
<1> QED
  BY <1>1, <1>2, <1>3

\* A test is decided, and then ends.
LEMMA TestImplements ==
  ASSUME LedgerInv, NEW p \in Procs, EndTest(p) \/ EndTestDone(p)
  PROVE  Ledger!Next \/ UNCHANGED Ledger!ledgerVars
<1> USE DEF suiteVars, testVars, LedgerInv, OwnerInv
<1> DEFINE t == arg[p].test
<1>1. CASE EndTest(p) /\ MayEndTest(arg[p].suite, t)
  <2>1. PICK v \in Verdict : summaryResult' = [summaryResult EXCEPT ![t] = v]
    BY <1>1 DEF EndTest, Verdicts, Verdict
  <2>2. t \in Tests /\ t \in runningTestCases
    BY <1>1 DEF MayEndTest, TypeOK
  <2>3. summaryResult[t] = "none"
    <3>1. \A q \in Procs : ~Ending(q)
      BY <1>1, ManagerAssumption DEF EndTest, CaseMutexFree, CaseLock, Procs
    <3> QED
      BY <2>2, <3>1 DEF CaseLock
  <2>4. Ledger!Decide(t, v)
    BY <1>1, <2>1, <2>2, <2>3 DEF EndTest, Ledger!Decide, StateOf
  <2> QED
    BY <2>2, <2>4 DEF Ledger!Next
<1>2. CASE EndTest(p) /\ ~MayEndTest(arg[p].suite, t)
  BY <1>2, Stutter DEF EndTest, ledgerSees
<1>3. CASE EndTestDone(p)
  <2>1. Ending(p)
    BY <1>3 DEF EndTestDone, Ending
  <2>2. t \in Tests /\ t \in runningTestCases /\ summaryResult[t] # "none"
    BY <2>1 DEF CaseLock, Decided, TypeOK
  <2>3. t \in 1 .. testCaseCounter
    BY <2>2, ManagerAssumption DEF CaseLock, TypeOK, Tests
  <2>4. Ledger!EndTest(t)
    BY <1>3, <2>2, <2>3 DEF EndTestDone, Ledger!EndTest, StateOf
  <2> QED
    BY <2>2, <2>4 DEF Ledger!Next
<1> QED
  BY <1>1, <1>2, <1>3

\* A suite's summary is written, and then the suite ends.
LEMMA SuiteImplements ==
  ASSUME LedgerInv, NEW p \in Procs, WriteSuiteFile(p) \/ MoveToResults(p)
  PROVE  Ledger!Next \/ UNCHANGED Ledger!ledgerVars
<1> USE DEF suiteVars, testVars, LedgerInv, OwnerInv
<1> DEFINE s == arg[p].suite
<1>0. s \in Suites
  BY ArgsType DEF TypeOK, ControlType
<1>1. Writing(p) /\ s \in runningTestSuites /\ \A q \in Procs \ {p} : ~Writing(q)
  BY DEF WriteSuiteFile, MoveToResults, Writing, SuiteLock
<1>2. CASE WriteSuiteFile(p) /\ summaryFiles' = [summaryFiles EXCEPT ![s] = @ + 1]
  <2>1. summaryFiles[s] = 0
    BY <1>0, <1>1, <1>2 DEF WriteSuiteFile, SuiteLock, Writing
  <2>2. Ledger!WriteSummary(s)
    BY <1>0, <1>1, <1>2, <2>1 DEF WriteSuiteFile, Ledger!WriteSummary, StateOf, TypeOK
  <2> QED
    BY <1>0, <2>2 DEF Ledger!Next
<1>3. CASE WriteSuiteFile(p) /\ UNCHANGED summaryFiles
  BY <1>3, Stutter DEF WriteSuiteFile, ledgerSees
<1>4. CASE MoveToResults(p)
  <2>1. summaryFiles[s] = 1
    BY <1>4 DEF MoveToResults, SuiteLock
  <2>2. Ledger!EndSuite(s)
    BY <1>0, <1>1, <1>4, <2>1 DEF MoveToResults, Ledger!EndSuite, StateOf
  <2> QED
    BY <1>0, <2>2 DEF Ledger!Next
<1> QED
  BY <1>2, <1>3, <1>4 DEF WriteSuiteFile

LEMMA StepImplements ==
  LedgerInv /\ [Next]_vars => [Ledger!Next]_(Ledger!ledgerVars)
<1> SUFFICES ASSUME LedgerInv, [Next]_vars
             PROVE  Ledger!Next \/ UNCHANGED Ledger!ledgerVars
  OBVIOUS
<1> USE DEF locks, suiteVars, testVars
<1>0. Handlers \subseteq Procs
  BY DEF Procs
<1>1. ASSUME NEW p \in Handlers, StartTestSuite(p)
      PROVE  Ledger!Next \/ UNCHANGED Ledger!ledgerVars
  BY <1>0, <1>1, StartImplements
<1>2. ASSUME NEW p \in Procs, Step(p)
      PROVE  Ledger!Next \/ UNCHANGED Ledger!ledgerVars
  <2>1. CASE AddTest(p)
    BY <2>1, StartImplements
  <2>2. CASE EndTest(p) \/ EndTestDone(p)
    BY <2>2, TestImplements
  <2>3. CASE WriteSuiteFile(p) \/ MoveToResults(p)
    BY <2>3, SuiteImplements
  <2>4. CASE ~(AddTest(p) \/ EndTest(p) \/ EndTestDone(p) \/ WriteSuiteFile(p) \/ MoveToResults(p))
    <3>1. UNCHANGED ledgerSees
      BY <1>2, <2>4
      DEF Step, RequestTest, StartTest, StopNext, WaitReturns, CreateContainer, ConnectNetworks, JoinNetwork,
          StartContainer, AddClientVersion, RegisterNode, StopNode, PauseNode, IsTestInSuite,
          GetNodeInfo, RegisterTarget, SetMultiTestContext, DoEndSuite, ledgerSees
    <3> QED
      BY <3>1, Stutter
  <2> QED
    BY <2>1, <2>2, <2>3, <2>4
<1>3. CASE \/ \E p \in Handlers : Arrive(p) \/ Receive(p) \/ Refuse(p)
           \/ Shutdown \/ Terminate
           \/ \E n \in Nodes : ContainerExits(n)
           \/ UNCHANGED vars
  <2>1. UNCHANGED ledgerSees
    BY <1>3 DEF Arrive, Receive, Refuse, Shutdown, Terminate, TerminateBegin, TerminateSuite,
                TerminateTest, ContainerExits, vars, ledgerSees
  <2> QED
    BY <2>1, Stutter
<1> QED
  BY <1>1, <1>2, <1>3 DEF Next, Serve, Finished

\* The test manager implements the ledger: whatever order requests and Terminate
\* take the two mutexes in, and whichever writes fail, a test starts in no suite that
\* has not, is decided once and before it ends, and a suite ends after one summary.
THEOREM Implements == Spec => LedgerImplemented
<1>1. Spec => []LedgerInv
  BY LedgerInvInit, LedgerInvNext, PTL DEF Spec
<1>2. Init => Ledger!Init
  BY InitImplements
<1>3. LedgerInv /\ [Next]_vars => [Ledger!Next]_(Ledger!ledgerVars)
  BY StepImplements
<1> QED
  BY <1>1, <1>2, <1>3, PTL DEF Spec, LedgerImplemented, Ledger!Spec
=============================================================================
