------------------------------ MODULE Simulation ------------------------------
(***************************************************************************)
(* A run of hive: the loop of hive.go over the simulators, run of          *)
(* internal/libhive/run.go around each of them, and in the simulator       *)
(* RunSuite, runTest and T of xrplsim/testapi.go.  The test manager is     *)
(* abstract: each request is one step (its interleavings are the subject   *)
(* of TestManager), and what a run needs of it is which suites and tests   *)
(* are running and which have ended, and how.                              *)
(*                                                                         *)
(* The question is whether what the tests signal reaches the exit status.  *)
(* It does not always: a suite is spoiled when its simulator is cut off, a *)
(* request of it fails, or one of its tests ends before a subtest.  The    *)
(* variable spoiled is a history of these, and says what the results are   *)
(* not answerable for.  NAME_xxx is a plausible mistake in NAME.           *)
(***************************************************************************)
EXTENDS Naturals, FiniteSets

CONSTANTS
  Tests, None, \* the tests of a simulator
  NumSuites,   \* its suites: 1 .. NumSuites
  SuiteOf,     \* test -> its suite
  Parent,      \* test -> the test whose function starts it (T.Run), or None
  NumSims,     \* the simulators of the run
  TimeLimit,   \* is there a limit on the duration of a simulation?
  Crashes,     \* may a simulator end in the middle?
  Faulty       \* may a request, docker, or the start of a simulator fail?

ASSUME SimulationAssumption ==
  /\ None \notin Tests /\ IsFiniteSet(Tests)
  /\ NumSuites \in Nat /\ NumSims \in Nat \ {0}
  /\ SuiteOf \in [Tests -> 1 .. NumSuites]
  /\ Parent \in [Tests -> Tests \cup {None}]
  /\ \A t \in Tests : Parent[t] # None => SuiteOf[Parent[t]] = SuiteOf[t]
  /\ \A S \in SUBSET Tests : S # {} => \E t \in S : Parent[t] \notin S  \* a forest
  /\ TimeLimit \in BOOLEAN /\ Crashes \in BOOLEAN /\ Faulty \in BOOLEAN

Suites == 1 .. NumSuites
TestsOf(s) == {t \in Tests : SuiteOf[t] = s}
TopLevel(s) == {t \in TestsOf(s) : Parent[t] = None}
Children(t) == {c \in Tests : Parent[c] = t}

VARIABLES
  hive,       \* what hive does next
  simsLeft,   \* the simulators not yet run
  failCount,  \* hive.go's count of failed tests
  status,     \* "none", or hive's exit: "ok", "testsFailed", "error"
  runErr,     \* did the select of run end with an error?
  result,     \* run's SimResult
  sim,        \* the simulator's main goroutine
  suite,      \* the suite it is at
  test,       \* test -> its stage in the simulator
  failed,     \* the tests whose result is not a pass any more
  spoiled,    \* history: the suites with a test or request cut off
  signalled,  \* history: did a test in a suite of an earlier simulator fail?
  suiteState, \* in the manager: "none", "running" or "ended"
  verdict     \* in the manager: test -> "none", "running", "pass", "fail"

hiveVars == <<hive, simsLeft, failCount, status, runErr, result, signalled>>
simVars == <<suite, test, failed>>
ledger == <<suiteState, verdict>>
vars == <<hiveVars, sim, simVars, spoiled, ledger>>

NoResult == [suites |-> 0, suitesFailed |-> 0, tests |-> 0, testsFailed |-> 0]
AllNew == [t \in Tests |-> "new"]
NoVerdicts == [t \in Tests |-> "none"]

TypeOK ==
  /\ hive \in {"start", "wait", "count", "deleteSim", "terminate", "next", "exited", "hung"}
  /\ simsLeft \in 0 .. NumSims
  /\ failCount \in Nat
  /\ status \in {"none", "ok", "testsFailed", "error"}
  /\ runErr \in BOOLEAN
  /\ result \in [suites: Nat, suitesFailed: Nat, tests: Nat, testsFailed: Nat]
  /\ sim \in {"off", "startSuite", "tests", "endSuite", "endSuiteErr", "exited"}
  /\ suite \in 1 .. NumSuites + 1
  /\ test \in [Tests -> {"new", "running", "returned", "ended", "skipped"}]
  /\ failed \subseteq Tests
  /\ spoiled \subseteq Suites
  /\ signalled \in BOOLEAN
  /\ suiteState \in [Suites -> {"none", "running", "ended"}]
  /\ verdict \in [Tests -> {"none", "running", "pass", "fail"}]

Init ==
  /\ hive = "start" /\ simsLeft = NumSims /\ failCount = 0 /\ status = "none"
  /\ runErr = FALSE /\ result = NoResult /\ signalled = FALSE
  /\ sim = "off" /\ suite = 1 /\ test = AllNew /\ failed = {} /\ spoiled = {}
  /\ suiteState = [s \in Suites |-> "none"] /\ verdict = NoVerdicts

-----------------------------------------------------------------------------
(* The simulator.  When its process ends, so do all of its goroutines; what *)
(* one that outlives hive does is of no interest.                           *)

Alive == sim \notin {"off", "exited"} /\ hive \notin {"exited", "hung"}

\* The API server answers until it is closed, and requests in flight may go on while
\* the manager is terminated.  Others fail.
Serving == hive \in {"wait", "count", "deleteSim"}
MayAnswer == Serving \/ hive = "terminate"
MayFail == Faulty \/ ~Serving

SpoilIf(s, cond) == spoiled' = IF cond /\ s \in Suites THEN spoiled \cup {s} ELSE spoiled

\* RunSuite registers the suite, unless the test pattern excludes it.  When a
\* request fails, MustRunSuite exits.
StartSuite ==
  /\ Alive /\ sim = "startSuite"
  /\ \/ /\ suite \in Suites /\ MayAnswer
        /\ suiteState' = [suiteState EXCEPT ![suite] = "running"]
        /\ sim' = "tests"
        /\ UNCHANGED <<suite, spoiled>>
     \/ suite \in Suites /\ suite' = suite + 1 /\ UNCHANGED <<sim, suiteState, spoiled>>
     \/ suite \notin Suites /\ sim' = "exited" /\ UNCHANGED <<suite, suiteState, spoiled>>
     \/ /\ MayFail /\ suite \in Suites
        /\ sim' = "exited" /\ SpoilIf(suite, TRUE)
        /\ \/ UNCHANGED suiteState
           \/ MayAnswer /\ suiteState' = [suiteState EXCEPT ![suite] = "running"]
        /\ UNCHANGED suite
  /\ UNCHANGED <<hiveVars, test, failed, verdict>>

\* The tests of a suite run one after the other; subtests are started by goroutines
\* of their parent, which may go on when its function has ended.
MayStart(t) ==
  IF Parent[t] = None
  THEN /\ sim = "tests" /\ SuiteOf[t] = suite
       /\ \A u \in TopLevel(suite) : test[u] \in {"new", "ended", "skipped"}
  ELSE test[Parent[t]] \notin {"new", "skipped"}

\* runTest: the pattern may exclude the test; else it is registered.  A request that
\* fails, or is refused, ends the suite, or, in T.Run, is ignored.
StartTest(t) ==
  LET s == SuiteOf[t] IN
  /\ Alive /\ test[t] = "new" /\ MayStart(t)
  /\ \/ /\ MayAnswer /\ suiteState[s] # "none"
        /\ verdict' = [verdict EXCEPT ![t] = "running"]
        /\ test' = [test EXCEPT ![t] = "running"]
        /\ SpoilIf(s, Parent[t] # None /\ test[Parent[t]] # "running")
        /\ UNCHANGED sim
     \/ test' = [test EXCEPT ![t] = "skipped"] /\ UNCHANGED <<verdict, sim, spoiled>>
     \/ /\ MayFail \/ suiteState[s] # "running"
        /\ \/ UNCHANGED verdict
           \/ /\ MayAnswer /\ suiteState[s] # "none"
              /\ verdict' = [verdict EXCEPT ![t] = "running"]
        /\ test' = [test EXCEPT ![t] = "skipped"]
        /\ SpoilIf(s, TRUE)
        /\ sim' = IF Parent[t] = None THEN "endSuiteErr" ELSE sim
  /\ UNCHANGED <<hiveVars, suite, failed, suiteState>>

\* T.Fail sets a flag of T, whether or not the test has ended; if it has, the result
\* was sent before.
Fail(t) ==
  LET s == SuiteOf[t] IN
  /\ Alive /\ test[t] \in {"running", "returned", "ended"} /\ t \notin failed
  /\ failed' = failed \cup {t}
  /\ SpoilIf(s, test[t] = "ended")
  /\ UNCHANGED <<hiveVars, sim, suite, test, ledger>>

\* The test function returns, or has failed and calls Goexit or panics.  runTest does
\* not wait for subtests that other goroutines have started.
TestReturns(t) ==
  LET s == SuiteOf[t] IN
  /\ Alive /\ test[t] = "running"
  /\ test' = [test EXCEPT ![t] = "returned"]
  /\ SpoilIf(s, \E c \in Children(t) : test[c] \in {"running", "returned"})
  /\ UNCHANGED <<hiveVars, sim, suite, failed, ledger>>

\* The deferred EndTest, whose error is ignored.
EndTest(t) ==
  LET s == SuiteOf[t] IN
  /\ Alive /\ test[t] = "returned"
  /\ test' = [test EXCEPT ![t] = "ended"]
  /\ \/ /\ MayAnswer /\ suiteState[s] = "running" /\ verdict[t] = "running"
        /\ verdict' = [verdict EXCEPT ![t] = IF t \in failed THEN "fail" ELSE "pass"]
        /\ UNCHANGED spoiled
     \/ /\ MayFail \/ suiteState[s] # "running" \/ verdict[t] # "running"
        /\ SpoilIf(s, TRUE) /\ UNCHANGED verdict
  /\ UNCHANGED <<hiveVars, sim, suite, failed, suiteState>>

\* RunSuite waits for the tests of the suite, not for their subtests.
AllTests_NoWait ==
  /\ Alive /\ sim = "tests"
  /\ \A t \in TopLevel(suite) : test[t] # "new"
  /\ sim' = "endSuite"
  /\ UNCHANGED <<hiveVars, simVars, spoiled, ledger>>
AllTests ==
  /\ Alive /\ sim = "tests"
  /\ \A t \in TopLevel(suite) : test[t] \in {"ended", "skipped"}
  /\ sim' = "endSuite"
  /\ UNCHANGED <<hiveVars, simVars, spoiled, ledger>>

\* The deferred EndSuite, whose error is ignored; the manager refuses to end a suite
\* with a running test.
Running(s) == {t \in TestsOf(s) : verdict[t] = "running"}
MayBeEnded(s) == suiteState[s] = "running" /\ Running(s) = {}
EndSuite ==
  /\ Alive /\ sim \in {"endSuite", "endSuiteErr"}
  /\ \/ /\ MayAnswer /\ MayBeEnded(suite)
        /\ suiteState' = [suiteState EXCEPT ![suite] = "ended"]
        /\ UNCHANGED spoiled
     \/ ~MayBeEnded(suite) /\ UNCHANGED <<suiteState, spoiled>>
     \/ MayFail /\ SpoilIf(suite, TRUE) /\ UNCHANGED suiteState
  /\ IF sim = "endSuite" THEN sim' = "startSuite" /\ suite' = suite + 1
                         ELSE sim' = "exited" /\ UNCHANGED suite
  /\ UNCHANGED <<hiveVars, test, failed, verdict>>

\* The simulator ends in the middle: os.Exit, a panic outside of the goroutine of
\* a test function, out of memory.
Crash ==
  /\ Crashes /\ Alive
  /\ sim' = "exited" /\ SpoilIf(suite, TRUE)
  /\ UNCHANGED <<hiveVars, simVars, ledger>>

-----------------------------------------------------------------------------
(* hive                                                                     *)

\* ServeAPI, CreateContainer and StartContainer; the manager is a new one.
StartSim ==
  /\ hive = "start"
  /\ suiteState' = [s \in Suites |-> "none"] /\ verdict' = NoVerdicts
  /\ suite' = 1 /\ test' = AllNew /\ failed' = {} /\ spoiled' = {}
  /\ simsLeft' = simsLeft - 1 /\ result' = NoResult
  /\ \/ hive' = "wait" /\ sim' = "startSuite" /\ runErr' = FALSE
     \/ Faulty /\ hive' = "terminate" /\ sim' = "off" /\ runErr' = TRUE
  /\ UNCHANGED <<failCount, status, signalled>>

\* The select over the simulator's exit, the time limit and the interrupt.  The exit
\* status of the simulator is not looked at, and the end of its attachment is taken
\* for its exit (ClientStart.AttachmentBreaks).
SimEnds ==
  /\ hive = "wait"
  /\ \/ sim = "exited" /\ runErr' = FALSE /\ UNCHANGED spoiled
     \/ TimeLimit /\ runErr' = TRUE /\ UNCHANGED spoiled
     \/ Faulty /\ runErr' = FALSE /\ spoiled' = Suites
  /\ hive' = "count"
  /\ UNCHANGED <<simsLeft, failCount, status, result, signalled, sim, simVars, ledger>>

\* The results of the suites that have ended are counted; a test without a result
\* has not passed.
Ended == {s \in Suites : suiteState[s] = "ended"}
Having(S, verdicts) == {t \in Tests : SuiteOf[t] \in S /\ verdict[t] \in verdicts}
NotPassed(S) == Having(S, {"running", "fail"})
Summary(S) ==
  [suites |-> Cardinality(S),
   suitesFailed |-> Cardinality({s \in S : NotPassed({s}) # {}}),
   tests |-> Cardinality(Having(S, {"running", "pass", "fail"})),
   testsFailed |-> Cardinality(NotPassed(S))]

CountResults_ElseBranch(S) == [Summary(S) EXCEPT !.testsFailed = @ - Summary(S).suitesFailed]
CountResults(S) == Summary(S)
Count ==
  /\ hive = "count"
  /\ result' = CountResults(Ended)
  /\ hive' = "deleteSim"
  /\ UNCHANGED <<simsLeft, failCount, status, runErr, signalled, sim, simVars, spoiled, ledger>>

\* The deferred calls: the simulation container is deleted, an error of which is
\* ignored, and the server closed.
DeleteSim ==
  /\ hive = "deleteSim"
  /\ \/ sim' = "exited" /\ SpoilIf(suite, sim # "exited")
     \/ Faulty /\ UNCHANGED <<sim, spoiled>>
  /\ hive' = "terminate"
  /\ UNCHANGED <<simsLeft, failCount, status, runErr, result, signalled, simVars, ledger>>

\* Terminate ends suites that run and fails their tests.  It may return before it has
\* ended all, or hang; its steps are TestManager's.
Terminate ==
  /\ hive = "terminate"
  /\ \/ /\ hive' = "next"
        /\ \E S \in SUBSET {s \in Suites : suiteState[s] = "running"} :
             /\ suiteState' = [s \in Suites |-> IF s \in S THEN "ended" ELSE suiteState[s]]
             /\ verdict' = [t \in Tests |-> IF SuiteOf[t] \in S /\ verdict[t] = "running"
                                           THEN "fail" ELSE verdict[t]]
     \/ hive' = "hung" /\ UNCHANGED ledger
  /\ UNCHANGED <<simsLeft, failCount, status, runErr, result, signalled, sim, simVars, spoiled>>

\* The loop of main and its exit.
Total_Last == result.testsFailed
Total == failCount + result.testsFailed
NextSim ==
  /\ hive = "next"
  /\ signalled' = (signalled \/ \E t \in failed : SuiteOf[t] \notin spoiled)
  /\ IF runErr
     THEN hive' = "exited" /\ status' = "error" /\ UNCHANGED failCount
     ELSE /\ failCount' = Total
          /\ IF simsLeft > 0
             THEN hive' = "start" /\ UNCHANGED status
             ELSE /\ hive' = "exited"
                  /\ status' = IF Total = 0 THEN "ok" ELSE "testsFailed"
  /\ UNCHANGED <<simsLeft, runErr, result, sim, simVars, spoiled, ledger>>

Finished == hive \in {"exited", "hung"} /\ UNCHANGED vars

-----------------------------------------------------------------------------

SimStep ==
  \/ StartSuite \/ AllTests \/ EndSuite
  \/ \E t \in Tests : StartTest(t) \/ Fail(t) \/ TestReturns(t) \/ EndTest(t)

HiveStep == StartSim \/ SimEnds \/ Count \/ DeleteSim \/ Terminate \/ NextSim

Next ==
  \/ SimStep \/ Crash
  \/ HiveStep
  \/ Finished

Spec == Init /\ [][Next]_vars

-----------------------------------------------------------------------------
(* Properties                                                               *)

\* hive exits with success only if no test of any simulator has signalled a failure,
\* but for the suites that were spoiled: there a failure may be counted by nobody.
\* A crash of a simulator does not lose the failures of the suites before it.
FailureReported == status = "ok" => ~signalled

\* SimResult "summarizes the results of a simulation run": when the manager has been
\* terminated, every suite, every test and every failure of a simulation that ended by
\* itself was counted, once, and what is not sure is only what is in spoiled suites.
Started == {s \in Suites : suiteState[s] # "none"}
Begun == {t \in Tests : test[t] \notin {"new", "skipped"}}
Unsure == {t \in Tests : SuiteOf[t] \in spoiled}
Within(n, S, unsure) == Cardinality(S \ unsure) <= n /\ n <= Cardinality(S \cup unsure)
SummaryCountsRun ==
  hive = "next" /\ ~runErr =>
    /\ Within(result.suites, Started, spoiled)
    /\ Within(result.suitesFailed, {SuiteOf[t] : t \in failed}, spoiled)
    /\ Within(result.tests, Begun, Unsure)
    /\ Within(result.testsFailed, failed, Unsure)

\* The manager does not refuse to end a suite: RunSuite, when it has left a suite that
\* was not spoiled, has left none that runs.
SuiteEndAccepted ==
  \A s \in Suites \ spoiled : s < suite \/ sim = "exited" => suiteState[s] # "running"
=============================================================================
