--------------------------- MODULE SimulationProofs ---------------------------
(***************************************************************************)
(* What holds of a run of any number of simulators with any suites and     *)
(* trees of tests, however they crash, hang or have requests refused.      *)
(*                                                                         *)
(* The invariant relates three places that know of a test: the simulator   *)
(* (test, failed), the manager (suiteState, verdict) and hive's counts.    *)
(* Whole says it of a suite that is not spoiled: its tests are nested, so  *)
(* that none runs when the top-level tests are over, and the manager       *)
(* agrees with the simulator.  Counted follows the results from there to   *)
(* run's result, Told to hive's count.                                     *)
(***************************************************************************)
EXTENDS Simulation, FiniteSetTheorems, TLAPS

\* The manager was terminated while the simulator, it may be, goes on.
Cut == runErr /\ hive \in {"next", "exited", "hung"}

\* Where hive is, and what then runs.
HivePhase ==
  /\ hive \in {"start", "wait"} => ~runErr
  /\ hive = "start" => simsLeft > 0
  /\ hive \in {"count", "deleteSim", "terminate", "next"} /\ ~runErr =>
       sim = "exited" \/ spoiled = Suites
  /\ status = "ok" => hive = "exited" /\ failCount = 0 /\ ~runErr

\* A suite, and what is in it, is not known to the manager before its simulator has
\* come to it.
SimPhase ==
  /\ sim \in {"tests", "endSuite", "endSuiteErr"} => suite \in Suites
  /\ \A s \in Suites : s > suite \/ (s = suite /\ sim \in {"off", "startSuite"}) =>
       suiteState[s] = "none"
  /\ \A t \in Tests : suiteState[SuiteOf[t]] = "none" =>
       test[t] \in {"new", "skipped"} /\ verdict[t] = "none"
  /\ failed \subseteq Begun

Active(t) == test[t] \in {"running", "returned"}

\* The manager agrees with the simulator.
Agree(t) ==
  /\ test[t] \in {"new", "skipped"} => verdict[t] = "none"
  /\ Active(t) => verdict[t] = "running"
  /\ test[t] = "ended" => verdict[t] = IF t \in failed THEN "fail" ELSE "pass"

\* A suite that is not spoiled.
Whole(s) ==
  /\ \A t \in TestsOf(s) : Parent[t] # None /\ Active(t) => test[Parent[t]] = "running"
  /\ ~Cut \/ suiteState[s] # "ended" => \A t \in TestsOf(s) : Agree(t)
  /\ ~Cut /\ suiteState[s] # "running" => \A t \in TestsOf(s) : ~Active(t)
  /\ s < suite \/ sim = "exited" => suiteState[s] # "running"
  /\ s = suite => sim # "endSuiteErr"
  /\ s = suite /\ sim \in {"tests", "endSuite"} /\ ~Cut => suiteState[s] = "running"
  /\ s = suite /\ sim = "endSuite" => \A t \in TestsOf(s) : ~Active(t)

\* What was counted, of suites and tests, and what they are.
AllWithin ==
  /\ Within(result.suites, Started, spoiled)
  /\ Within(result.suitesFailed, {SuiteOf[t] : t \in failed}, spoiled)
  /\ Within(result.tests, Begun, Unsure)
  /\ Within(result.testsFailed, failed, Unsure)
Counted == hive \in {"deleteSim", "terminate", "next"} /\ ~runErr => AllWithin

\* A failure of an earlier simulator is in hive's count, or hive exits with an error.
Told == signalled => failCount > 0 \/ runErr

SimInv ==
  /\ TypeOK /\ HivePhase /\ SimPhase
  /\ \A s \in Suites \ spoiled : Whole(s)
  /\ Counted /\ Told

-----------------------------------------------------------------------------
(* Counting                                                                 *)

\* Everything that is counted is a finite set.
LEMMA FiniteSets ==
  /\ IsFiniteSet(Suites) /\ \A S \in SUBSET Suites : IsFiniteSet(S) /\ Cardinality(S) \in Nat
  /\ IsFiniteSet(Tests) /\ \A S \in SUBSET Tests : IsFiniteSet(S) /\ Cardinality(S) \in Nat
<1>1. IsFiniteSet(Suites)
  BY FS_Interval, SimulationAssumption DEF Suites
<1>2. IsFiniteSet(Tests)
  BY SimulationAssumption
<1> QED  BY <1>1, <1>2, FS_Subset, FS_CardinalityType

\* What run counts are numbers.
LEMMA SummaryType ==
  Summary(Ended) \in [suites: Nat, suitesFailed: Nat, tests: Nat, testsFailed: Nat]
<1>1. Ended \in SUBSET Suites /\ {s \in Ended : NotPassed({s}) # {}} \in SUBSET Suites
  BY DEF Ended
<1>2. \A V : Having(Ended, V) \in SUBSET Tests
  BY DEF Having
<1> QED  BY <1>1, <1>2, FiniteSets DEF Summary, NotPassed

\* A set that is counted may differ from the one meant by what is unsure.
LEMMA WithinLemma ==
  ASSUME NEW All, IsFiniteSet(All), NEW S \in SUBSET All, NEW unsure \in SUBSET All,
         NEW C \in SUBSET All, S \ unsure \subseteq C, C \subseteq S \cup unsure
  PROVE  Within(Cardinality(C), S, unsure)
<1>1. IsFiniteSet(C) /\ IsFiniteSet(S \cup unsure)
  BY FS_Subset
<1>2. Cardinality(S \ unsure) <= Cardinality(C)
  BY <1>1, FS_Subset
<1>3. Cardinality(C) <= Cardinality(S \cup unsure)
  BY <1>1, FS_Subset
<1> QED  BY <1>2, <1>3 DEF Within

\* If all is unsure, any set is meant.
LEMMA WithinAll ==
  ASSUME NEW All, NEW S \in SUBSET All, NEW S2 \in SUBSET All, NEW n, Within(n, S, All)
  PROVE  Within(n, S2, All)
<1>1. S \ All = S2 \ All /\ S \cup All = S2 \cup All
  OBVIOUS
<1> QED  BY <1>1 DEF Within

\* Types of what several actions assign.
LEMMA SuiteRange ==
  /\ 1 \in 1 .. NumSuites + 1
  /\ \A s \in Suites : s \in Int /\ s + 1 \in 1 .. NumSuites + 1
  /\ \A t \in Tests : SuiteOf[t] \in Suites /\ t \in TestsOf(SuiteOf[t])
BY SimulationAssumption DEF Suites, TestsOf

\* A parent is in the suite of its subtests.
LEMMA ParentSuite ==
  \A t \in Tests : Parent[t] # None => Parent[t] \in Tests /\ SuiteOf[Parent[t]] = SuiteOf[t]
BY SimulationAssumption

\* A suite whose top-level tests are over has no running test: a running one would
\* have a top-level ancestor that runs.
LEMMA NoneRuns ==
  ASSUME TypeOK, NEW s \in Suites, Whole(s),
         \A t \in TopLevel(s) : test[t] \in {"ended", "skipped"}
  PROVE  \A t \in TestsOf(s) : ~Active(t)
<1> DEFINE S == {t \in TestsOf(s) : Active(t)}
<1>1. ASSUME S # {}
      PROVE  FALSE
  <2>1. PICK t \in S : Parent[t] \notin S
    BY <1>1, SimulationAssumption DEF TestsOf
  <2>2. Parent[t] # None
    BY DEF TopLevel, Active
  <2>3. Parent[t] \in TestsOf(s) /\ test[Parent[t]] = "running"
    BY <2>2, ParentSuite DEF Whole, TestsOf
  <2> QED  BY <2>1, <2>3 DEF Active
<1> QED  BY <1>1

\* What was counted is not disputed by a simulator that goes on after its results were
\* counted: all of its suites are spoiled.
LEMMA SimKeepsCount ==
  ASSUME TypeOK, TypeOK', HivePhase, Counted, sim # "exited", UNCHANGED hiveVars,
         spoiled \subseteq spoiled'
  PROVE  Counted'
<1> SUFFICES ASSUME hive \in {"deleteSim", "terminate", "next"}, ~runErr PROVE AllWithin'
  BY DEF Counted, hiveVars
<1>1. spoiled = Suites /\ spoiled' = Suites
  BY DEF HivePhase, TypeOK
<1>2. Unsure = Tests /\ Unsure' = Tests
  BY <1>1, SuiteRange DEF Unsure
<1>3. /\ Started \in SUBSET Suites /\ Started' \in SUBSET Suites
      /\ {SuiteOf[t] : t \in failed} \in SUBSET Suites
      /\ {SuiteOf[t] : t \in failed'} \in SUBSET Suites
      /\ Begun \in SUBSET Tests /\ Begun' \in SUBSET Tests
      /\ failed \in SUBSET Tests /\ failed' \in SUBSET Tests
  BY SuiteRange DEF TypeOK, Started, Begun
<1>4. AllWithin /\ result' = result
  BY DEF Counted, hiveVars
<1>5. Within(result.suites, Started', Suites)
  BY <1>1, <1>3, <1>4, WithinAll DEF AllWithin
<1>6. Within(result.suitesFailed, {SuiteOf[t] : t \in failed'}, Suites)
  BY <1>1, <1>3, <1>4, WithinAll DEF AllWithin
<1>7. Within(result.tests, Begun', Tests)
  BY <1>2, <1>3, <1>4, WithinAll DEF AllWithin
<1>8. Within(result.testsFailed, failed', Tests)
  BY <1>2, <1>3, <1>4, WithinAll DEF AllWithin
<1> QED  BY <1>1, <1>2, <1>4, <1>5, <1>6, <1>7, <1>8 DEF AllWithin, Within

\* Nor by what hive does next.
LEMMA HiveKeepsCount ==
  ASSUME Counted, hive \in {"deleteSim", "terminate", "next"},
         UNCHANGED <<result, runErr, failed, test, spoiled, Started>>
  PROVE  Counted'
<1> SUFFICES ASSUME ~runErr PROVE AllWithin'
  BY DEF Counted
<1>1. Begun' = Begun /\ Unsure' = Unsure /\ Started' = Started
  BY DEF Begun, Unsure
<1> QED  BY <1>1 DEF Counted, AllWithin, Within

-----------------------------------------------------------------------------
(* One lemma per action                                                     *)

\* A suite is registered when the simulator comes to it, and not before.
LEMMA StartSuiteStep ==
  ASSUME SimInv, StartSuite
  PROVE  SimInv'
<1> USE DEF SimInv, StartSuite, hiveVars, simVars, ledger
<1>1. TypeOK'
  BY SuiteRange DEF TypeOK, SpoilIf
<1>2. HivePhase'
  BY DEF HivePhase, TypeOK, Alive, SpoilIf
<1>3. SimPhase'
  BY SuiteRange, SimulationAssumption DEF SimPhase, TypeOK, Begun, SpoilIf
<1>4. \A s \in Suites \ spoiled' : Whole(s)'
  <2> SUFFICES ASSUME NEW s \in Suites \ spoiled' PROVE Whole(s)'
    OBVIOUS
  <2> QED  BY SuiteRange, ParentSuite DEF Whole, Agree, Active, Cut, SimPhase, HivePhase,
           TypeOK, TestsOf, SpoilIf, Alive
<1>5. Counted'
  BY <1>1, SimKeepsCount DEF Alive, SpoilIf
<1>6. Told'
  BY DEF Told, HivePhase
<1> QED  BY <1>1, <1>2, <1>3, <1>4, <1>5, <1>6

\* A subtest that is started when its parent is over spoils the suite.
LEMMA StartTestStep ==
  ASSUME SimInv, NEW t \in Tests, StartTest(t)
  PROVE  SimInv'
<1> USE DEF SimInv, StartTest, MayStart, hiveVars, simVars, ledger
<1>1. TypeOK'
  BY SuiteRange DEF TypeOK, SpoilIf
<1>2. HivePhase'
  BY DEF HivePhase, TypeOK, Alive, SpoilIf
<1>3. SimPhase'
  BY SuiteRange, SimulationAssumption DEF SimPhase, TypeOK, Begun, SpoilIf
<1>4. \A s \in Suites \ spoiled' : Whole(s)'
  <2> SUFFICES ASSUME NEW s \in Suites \ spoiled' PROVE Whole(s)'
    OBVIOUS
  <2> QED  BY SuiteRange, ParentSuite DEF Whole, Agree, Active, Cut, SimPhase, HivePhase,
           TypeOK, TestsOf, SpoilIf, Alive
<1>5. Counted'
  BY <1>1, SimKeepsCount DEF Alive, SpoilIf
<1>6. Told'
  BY DEF Told, HivePhase
<1> QED  BY <1>1, <1>2, <1>3, <1>4, <1>5, <1>6

\* A failure of a test that has ended spoils the suite.
LEMMA FailStep ==
  ASSUME SimInv, NEW t \in Tests, Fail(t)
  PROVE  SimInv'
<1> USE DEF SimInv, Fail, hiveVars, simVars, ledger
<1>1. TypeOK'
  BY SuiteRange DEF TypeOK, SpoilIf
<1>2. HivePhase'
  BY DEF HivePhase, TypeOK, Alive, SpoilIf
<1>3. SimPhase'
  BY SuiteRange, SimulationAssumption DEF SimPhase, TypeOK, Begun, SpoilIf
<1>4. \A s \in Suites \ spoiled' : Whole(s)'
  <2> SUFFICES ASSUME NEW s \in Suites \ spoiled' PROVE Whole(s)'
    OBVIOUS
  <2> QED  BY SuiteRange, ParentSuite DEF Whole, Agree, Active, Cut, SimPhase, HivePhase,
           TypeOK, TestsOf, SpoilIf, Alive
<1>5. Counted'
  BY <1>1, SimKeepsCount DEF Alive, SpoilIf
<1>6. Told'
  BY DEF Told, HivePhase
<1> QED  BY <1>1, <1>2, <1>3, <1>4, <1>5, <1>6

\* A test that leaves a subtest behind spoils the suite.
LEMMA TestReturnsStep ==
  ASSUME SimInv, NEW t \in Tests, TestReturns(t)
  PROVE  SimInv'
<1> USE DEF SimInv, TestReturns, hiveVars, simVars, ledger
<1>1. TypeOK'
  BY SuiteRange DEF TypeOK, SpoilIf
<1>2. HivePhase'
  BY DEF HivePhase, TypeOK, Alive, SpoilIf
<1>3. SimPhase'
  BY SuiteRange, SimulationAssumption DEF SimPhase, TypeOK, Begun, SpoilIf
<1>4. \A s \in Suites \ spoiled' : Whole(s)'
  <2> SUFFICES ASSUME NEW s \in Suites \ spoiled' PROVE Whole(s)'
    OBVIOUS
  <2> QED  BY SuiteRange, ParentSuite DEF Whole, Agree, Active, Cut, SimPhase, HivePhase,
           TypeOK, TestsOf, Children, SpoilIf, Alive
<1>5. Counted'
  BY <1>1, SimKeepsCount DEF Alive, SpoilIf
<1>6. Told'
  BY DEF Told, HivePhase
<1> QED  BY <1>1, <1>2, <1>3, <1>4, <1>5, <1>6

\* The verdict of a test takes over what its function signalled.
LEMMA EndTestStep ==
  ASSUME SimInv, NEW t \in Tests, EndTest(t)
  PROVE  SimInv'
<1> USE DEF SimInv, EndTest, hiveVars, simVars, ledger
<1>1. TypeOK'
  BY SuiteRange DEF TypeOK, SpoilIf
<1>2. HivePhase'
  BY DEF HivePhase, TypeOK, Alive, SpoilIf
<1>3. SimPhase'
  BY SuiteRange, SimulationAssumption DEF SimPhase, TypeOK, Begun, SpoilIf
<1>4. \A s \in Suites \ spoiled' : Whole(s)'
  <2> SUFFICES ASSUME NEW s \in Suites \ spoiled' PROVE Whole(s)'
    OBVIOUS
  <2> QED  BY SuiteRange, ParentSuite DEF Whole, Agree, Active, Cut, SimPhase, HivePhase,
           TypeOK, TestsOf, SpoilIf, Alive
<1>5. Counted'
  BY <1>1, SimKeepsCount DEF Alive, SpoilIf
<1>6. Told'
  BY DEF Told, HivePhase
<1> QED  BY <1>1, <1>2, <1>3, <1>4, <1>5, <1>6

\* The function of a suite that is not spoiled ends when no test runs.
LEMMA AllTestsStep ==
  ASSUME SimInv, AllTests
  PROVE  SimInv'
<1> USE DEF SimInv, AllTests, hiveVars, simVars, ledger
<1>1. TypeOK'
  BY SuiteRange DEF TypeOK, SpoilIf
<1>2. HivePhase'
  BY DEF HivePhase, TypeOK, Alive, SpoilIf
<1>3. SimPhase'
  BY SuiteRange, SimulationAssumption DEF SimPhase, TypeOK, Begun, SpoilIf
<1>4. \A s \in Suites \ spoiled' : Whole(s)'
  <2> SUFFICES ASSUME NEW s \in Suites \ spoiled' PROVE Whole(s)'
    OBVIOUS
  <2>1. ASSUME s = suite PROVE \A u \in TestsOf(s) : ~Active(u)
    BY <2>1, NoneRuns
  <2> QED  BY <2>1, SuiteRange DEF Whole, Agree, Active, Cut, HivePhase, TypeOK, Alive
<1>5. Counted'
  BY <1>1, SimKeepsCount DEF Alive, SpoilIf
<1>6. Told'
  BY DEF Told, HivePhase
<1> QED  BY <1>1, <1>2, <1>3, <1>4, <1>5, <1>6

\* The manager ends the suite, and the simulator goes to the next.
LEMMA EndSuiteStep ==
  ASSUME SimInv, EndSuite
  PROVE  SimInv'
<1> USE DEF SimInv, EndSuite, MayBeEnded, hiveVars, simVars, ledger
<1>1. TypeOK'
  BY SuiteRange DEF TypeOK, SimPhase, SpoilIf
<1>2. HivePhase'
  BY DEF HivePhase, TypeOK, Alive, SpoilIf
<1>3. SimPhase'
  BY SuiteRange, SimulationAssumption DEF SimPhase, TypeOK, Begun, SpoilIf
<1>4. \A s \in Suites \ spoiled' : Whole(s)'
  <2> SUFFICES ASSUME NEW s \in Suites \ spoiled' PROVE Whole(s)'
    OBVIOUS
  <2>1. s \in Suites \ spoiled /\ Whole(s) /\ suite \in Suites
    BY DEF SimPhase, SpoilIf
  <2>2. /\ \A u \in TestsOf(s) : Agree(u)' <=> Agree(u)
        /\ \A u \in TestsOf(s) : Active(u)' <=> Active(u)
        /\ Cut' <=> Cut
    BY DEF Agree, Active, Cut
  <2>3. CASE s = suite
    <3>1. sim = "endSuite" /\ suite' = suite + 1 /\ sim' = "startSuite"
      BY <2>1, <2>3 DEF Whole
    <3>2. \A u \in TestsOf(s) : ~Active(u)
      BY <2>1, <2>3, <3>1 DEF Whole
    <3>3. suiteState[s] = "running" => Running(s) = {}
      BY <2>1, <3>2 DEF Whole, Agree, Active, Running, TypeOK, TestsOf
    <3>4. suiteState'[s] # "running"
      BY <2>1, <2>3, <3>1, <3>3 DEF TypeOK, SpoilIf
    <3>5. ~Cut => suiteState[s] = "running"
      BY <2>1, <2>3, <3>1 DEF Whole
    <3>6. \A u \in TestsOf(s) : Agree(u)' \/ (Cut /\ suiteState[s] = "ended")
      BY <2>1, <2>2, <3>5 DEF Whole
    <3>7. suiteState[s] = "ended" => suiteState'[s] = "ended"
      BY <2>1, <2>3 DEF TypeOK
    <3> QED  BY <2>1, <2>2, <2>3, <3>1, <3>2, <3>4, <3>6, <3>7, SuiteRange DEF Whole, Suites
  <2>4. CASE s # suite
    <3>1. suiteState'[s] = suiteState[s]
      BY <2>4 DEF TypeOK
    <3>2. CASE s < suite
      BY <2>1, <2>2, <2>4, <3>1, <3>2, SuiteRange DEF Whole, TypeOK, Suites
    <3>3. CASE s > suite
      BY <2>1, <2>2, <2>4, <3>1, <3>3, SuiteRange DEF Whole, SimPhase, TypeOK, Suites, Active, Agree, TestsOf
    <3> QED  BY <2>1, <2>4, <3>2, <3>3, SuiteRange
  <2> QED  BY <2>3, <2>4
<1>5. Counted'
  BY <1>1, SimKeepsCount DEF Alive, SpoilIf
<1>6. Told'
  BY DEF Told, HivePhase
<1> QED  BY <1>1, <1>2, <1>3, <1>4, <1>5, <1>6

\* A crash spoils the suite the simulator is at.
LEMMA CrashStep ==
  ASSUME SimInv, Crash
  PROVE  SimInv'
<1> USE DEF SimInv, Crash, hiveVars, simVars, ledger
<1>1. TypeOK'
  BY SuiteRange DEF TypeOK, SpoilIf
<1>2. HivePhase'
  BY DEF HivePhase, TypeOK, Alive, SpoilIf
<1>3. SimPhase'
  BY SuiteRange, SimulationAssumption DEF SimPhase, TypeOK, Begun, SpoilIf
<1>4. \A s \in Suites \ spoiled' : Whole(s)'
  <2> SUFFICES ASSUME NEW s \in Suites \ spoiled' PROVE Whole(s)'
    OBVIOUS
  <2> QED  BY SuiteRange, ParentSuite DEF Whole, Agree, Active, Cut, SimPhase, HivePhase,
           TypeOK, TestsOf, SpoilIf, Alive
<1>5. Counted'
  BY <1>1, SimKeepsCount DEF Alive, SpoilIf
<1>6. Told'
  BY DEF Told, HivePhase
<1> QED  BY <1>1, <1>2, <1>3, <1>4, <1>5, <1>6

\* A simulation starts with a manager of its own.
LEMMA StartSimStep ==
  ASSUME SimInv, StartSim
  PROVE  SimInv'
<1> USE DEF SimInv, StartSim, AllNew, NoVerdicts, NoResult,
           hiveVars, simVars, ledger
<1>1. TypeOK'
  <2>1. simsLeft' \in 0 .. NumSims
    BY SimulationAssumption DEF TypeOK, HivePhase
  <2>2. result' \in [suites: Nat, suitesFailed: Nat, tests: Nat, testsFailed: Nat]
    OBVIOUS
  <2>3. /\ test' \in [Tests -> {"new", "running", "returned", "ended", "skipped"}]
        /\ verdict' \in [Tests -> {"none", "running", "pass", "fail"}]
        /\ suiteState' \in [Suites -> {"none", "running", "ended"}]
    OBVIOUS
  <2> QED  BY <2>1, <2>2, <2>3, SuiteRange DEF TypeOK
<1>2. HivePhase'
  BY DEF HivePhase, TypeOK, Alive, SpoilIf
<1>3. SimPhase'
  BY SuiteRange, SimulationAssumption DEF SimPhase, TypeOK, Begun, SpoilIf
<1>4. \A s \in Suites \ spoiled' : Whole(s)'
  <2> SUFFICES ASSUME NEW s \in Suites \ spoiled' PROVE Whole(s)'
    OBVIOUS
  <2> QED  BY SuiteRange, ParentSuite DEF Whole, Agree, Active, Cut, SimPhase, HivePhase,
           TypeOK, TestsOf, SpoilIf, Alive
<1>5. Counted'
  BY HiveKeepsCount DEF Counted, Started
<1>6. Told'
  BY DEF Told, HivePhase
<1> QED  BY <1>1, <1>2, <1>3, <1>4, <1>5, <1>6

\* When its results are counted a simulator has exited, or all of its suites are
\* spoiled, or run ends with an error.
LEMMA SimEndsStep ==
  ASSUME SimInv, SimEnds
  PROVE  SimInv'
<1> USE DEF SimInv, SimEnds, hiveVars, simVars, ledger
<1>1. TypeOK'
  BY SuiteRange DEF TypeOK, SpoilIf
<1>2. HivePhase'
  BY DEF HivePhase, TypeOK, Alive, SpoilIf
<1>3. SimPhase'
  BY SuiteRange, SimulationAssumption DEF SimPhase, TypeOK, Begun, SpoilIf
<1>4. \A s \in Suites \ spoiled' : Whole(s)'
  <2> SUFFICES ASSUME NEW s \in Suites \ spoiled' PROVE Whole(s)'
    OBVIOUS
  <2> QED  BY SuiteRange, ParentSuite DEF Whole, Agree, Active, Cut, SimPhase, HivePhase,
           TypeOK, TestsOf, SpoilIf, Alive
<1>5. Counted'
  BY HiveKeepsCount DEF Counted, Started
<1>6. Told'
  BY DEF Told, HivePhase
<1> QED  BY <1>1, <1>2, <1>3, <1>4, <1>5, <1>6

\* The suites that have ended are, but for the spoiled ones, those that were started,
\* and their tests have the verdicts that the simulator knows of.
LEMMA CountStep ==
  ASSUME SimInv, Count
  PROVE  SimInv'
<1> USE DEF SimInv, Count, CountResults, hiveVars, simVars, ledger
<1>1. TypeOK'
  BY SummaryType DEF TypeOK
<1>2. HivePhase'
  BY DEF HivePhase, TypeOK, Alive, SpoilIf
<1>3. SimPhase'
  BY SuiteRange, SimulationAssumption DEF SimPhase, TypeOK, Begun, SpoilIf
<1>4. \A s \in Suites \ spoiled' : Whole(s)'
  <2> SUFFICES ASSUME NEW s \in Suites \ spoiled' PROVE Whole(s)'
    OBVIOUS
  <2> QED  BY SuiteRange, ParentSuite DEF Whole, Agree, Active, Cut, SimPhase, HivePhase,
           TypeOK, TestsOf, SpoilIf, Alive
<1>5. Counted'
  <2> SUFFICES ASSUME ~runErr PROVE AllWithin'
    BY DEF Counted
  <2>1. UNCHANGED <<sim, suite, spoiled, suiteState, verdict, test, failed>> /\ result' = Summary(Ended)
    OBVIOUS
  <2>2. ASSUME NEW t \in Tests, SuiteOf[t] \notin spoiled
        PROVE  /\ t \in Begun => SuiteOf[t] \in Ended /\ test[t] = "ended"
               /\ t \in Begun <=> verdict[t] \in {"running", "pass", "fail"}
               /\ t \in failed <=> verdict[t] \in {"running", "fail"}
    <3>1. SuiteOf[t] \in Suites \ spoiled /\ t \in TestsOf(SuiteOf[t])
      BY <2>2, SuiteRange
    <3>2. sim = "exited" /\ ~Cut
      BY <3>1 DEF HivePhase, Cut
    <3>3. Agree(t) /\ ~Active(t) /\ suiteState[SuiteOf[t]] # "running"
      BY <3>1, <3>2 DEF Whole
    <3> QED  BY <3>1, <3>3 DEF Agree, Active, SimPhase, Begun, Ended, TypeOK
  <2>3. Started \ spoiled \subseteq Ended /\ Ended \subseteq Started /\ Started \subseteq Suites
    BY DEF Started, Ended, Whole, HivePhase, TypeOK
  <2> DEFINE F == {SuiteOf[t] : t \in failed}
             G == {s \in Ended : NotPassed({s}) # {}}
  <2>4. F \ spoiled \subseteq G /\ G \subseteq F \cup spoiled /\ F \subseteq Suites /\ G \subseteq Suites
    <3>1. \A t \in failed : t \in Begun /\ t \in Tests
      BY DEF SimPhase, Begun
    <3>2. \A t \in failed : SuiteOf[t] \notin spoiled => t \in NotPassed({SuiteOf[t]}) /\ SuiteOf[t] \in Ended
      BY <2>2, <3>1 DEF NotPassed, Having
    <3>3. \A s \in Ended \ spoiled : \A t \in NotPassed({s}) : t \in failed /\ SuiteOf[t] = s
      BY <2>2 DEF NotPassed, Having
    <3>4. F \subseteq Suites /\ G \subseteq Suites
      BY <3>1, SuiteRange DEF Ended
    <3>5. ASSUME NEW s \in F \ spoiled PROVE s \in G
      BY <3>2
    <3>6. ASSUME NEW s \in G, s \notin spoiled PROVE s \in F
      BY <3>3, <3>6
    <3> QED  BY <3>4, <3>5, <3>6
  <2>5. LET H == Having(Ended, {"running", "pass", "fail"}) IN
        /\ Begun \ Unsure \subseteq H /\ H \subseteq Begun \cup Unsure /\ H \subseteq Tests
    BY <2>2 DEF Having, Begun, Unsure
  <2>6. /\ failed \ Unsure \subseteq NotPassed(Ended) /\ NotPassed(Ended) \subseteq failed \cup Unsure
        /\ NotPassed(Ended) \subseteq Tests
    <3>1. failed \subseteq Begun /\ Begun \subseteq Tests
      BY DEF SimPhase, Begun
    <3> QED  BY <2>2, <3>1 DEF NotPassed, Having, Unsure
  <2>7. /\ failed \subseteq Tests /\ Begun \subseteq Tests /\ Unsure \subseteq Tests
        /\ spoiled \subseteq Suites /\ Ended \subseteq Suites
    BY DEF TypeOK, Begun, Unsure, Ended
  <2>8. Within(Cardinality(Ended), Started, spoiled)
    BY <2>3, <2>7, FiniteSets, WithinLemma
  <2>9. Within(Cardinality(G), F, spoiled)
    <3> HIDE DEF F, G
    <3> QED  BY <2>4, <2>7, FiniteSets, WithinLemma
  <2>10. Within(Cardinality(Having(Ended, {"running", "pass", "fail"})), Begun, Unsure)
    BY <2>5, <2>7, FiniteSets, WithinLemma
  <2>11. Within(Cardinality(NotPassed(Ended)), failed, Unsure)
    BY <2>6, <2>7, FiniteSets, WithinLemma
  <2>12. Started' = Started /\ Begun' = Begun /\ Unsure' = Unsure
    BY <2>1 DEF Started, Begun, Unsure
  <2>13. /\ result'.suites = Cardinality(Ended) /\ result'.suitesFailed = Cardinality(G)
         /\ result'.tests = Cardinality(Having(Ended, {"running", "pass", "fail"}))
         /\ result'.testsFailed = Cardinality(NotPassed(Ended))
    BY <2>1 DEF Summary
  <2> HIDE DEF SimInv, Count, CountResults, hiveVars, simVars, ledger
  <2> QED  BY <2>1, <2>8, <2>9, <2>10, <2>11, <2>12, <2>13 DEF AllWithin, Within
<1>6. Told'
  BY DEF Told, HivePhase
<1> QED  BY <1>1, <1>2, <1>3, <1>4, <1>5, <1>6

\* Deleting the container cuts a simulator off.
LEMMA DeleteSimStep ==
  ASSUME SimInv, DeleteSim
  PROVE  SimInv'
<1> USE DEF SimInv, DeleteSim, hiveVars, simVars, ledger
<1>1. TypeOK'
  BY SuiteRange DEF TypeOK, SpoilIf
<1>2. HivePhase'
  BY DEF HivePhase, TypeOK, Alive, SpoilIf
<1>3. SimPhase'
  BY SuiteRange, SimulationAssumption DEF SimPhase, TypeOK, Begun, SpoilIf
<1>4. \A s \in Suites \ spoiled' : Whole(s)'
  <2> SUFFICES ASSUME NEW s \in Suites \ spoiled' PROVE Whole(s)'
    OBVIOUS
  <2> QED  BY SuiteRange, ParentSuite DEF Whole, Agree, Active, Cut, SimPhase, HivePhase,
           TypeOK, TestsOf, SpoilIf, Alive
<1>5. Counted'
  <2>1. ~runErr => spoiled' = spoiled
    BY DEF HivePhase, SpoilIf, TypeOK
  <2>2. runErr' = runErr
    OBVIOUS
  <2> QED  BY <2>1, <2>2, HiveKeepsCount DEF Counted, Started
<1>6. Told'
  BY DEF Told, HivePhase
<1> QED  BY <1>1, <1>2, <1>3, <1>4, <1>5, <1>6

\* Terminate changes no suite that was counted.
LEMMA TerminateStep ==
  ASSUME SimInv, Terminate
  PROVE  SimInv'
<1> USE DEF SimInv, Terminate, hiveVars, simVars, ledger
<1>1. TypeOK'
  BY SuiteRange DEF TypeOK, SpoilIf
<1>2. HivePhase'
  BY DEF HivePhase, TypeOK, Alive, SpoilIf
<1>3. SimPhase'
  BY SuiteRange, SimulationAssumption DEF SimPhase, TypeOK, Begun, SpoilIf
<1>4. \A s \in Suites \ spoiled' : Whole(s)'
  <2> SUFFICES ASSUME NEW s \in Suites \ spoiled' PROVE Whole(s)'
    OBVIOUS
  <2> QED  BY SuiteRange, ParentSuite DEF Whole, Agree, Active, Cut, SimPhase, HivePhase,
           TypeOK, TestsOf, SpoilIf, Alive
<1>5. Counted'
  BY HiveKeepsCount DEF Counted, Started
<1>6. Told'
  BY DEF Told, HivePhase
<1> QED  BY <1>1, <1>2, <1>3, <1>4, <1>5, <1>6

\* hive adds up the results, and exits.
LEMMA NextSimStep ==
  ASSUME SimInv, NextSim
  PROVE  SimInv'
<1> USE DEF SimInv, NextSim, Total, hiveVars, simVars, ledger
<1>1. TypeOK'
  BY SuiteRange DEF TypeOK, SpoilIf
<1>2. HivePhase'
  BY DEF HivePhase, TypeOK, Alive, SpoilIf
<1>3. SimPhase'
  BY SuiteRange, SimulationAssumption DEF SimPhase, TypeOK, Begun, SpoilIf
<1>4. \A s \in Suites \ spoiled' : Whole(s)'
  <2> SUFFICES ASSUME NEW s \in Suites \ spoiled' PROVE Whole(s)'
    OBVIOUS
  <2> QED  BY SuiteRange, ParentSuite DEF Whole, Agree, Active, Cut, SimPhase, HivePhase,
           TypeOK, TestsOf, SpoilIf, Alive
<1>5. Counted'
  BY HiveKeepsCount DEF Counted, Started
<1>6. Told'
  <2> SUFFICES ASSUME ~runErr, NEW t \in failed, SuiteOf[t] \notin spoiled
               PROVE  result.testsFailed > 0
    BY DEF Told, TypeOK
  <2>1. t \in failed \ Unsure /\ failed \subseteq Tests
    BY DEF Unsure, TypeOK
  <2>2. IsFiniteSet(failed \ Unsure) /\ Cardinality(failed \ Unsure) \in Nat
    BY <2>1, FiniteSets
  <2>3. Cardinality(failed \ Unsure) # 0
    BY <2>1, <2>2, FS_EmptySet
  <2>4. Cardinality(failed \ Unsure) <= result.testsFailed /\ result.testsFailed \in Nat
    BY DEF Counted, AllWithin, Within, TypeOK
  <2> QED  BY <2>2, <2>3, <2>4
<1> QED  BY <1>1, <1>2, <1>3, <1>4, <1>5, <1>6

\* The invariant holds at first, and every step keeps it.
LEMMA SimInit == Init => SimInv
<1> SUFFICES ASSUME Init PROVE SimInv
  OBVIOUS
<1> USE DEF Init
<1>1. TypeOK
  <2>1. NoResult \in [suites: Nat, suitesFailed: Nat, tests: Nat, testsFailed: Nat]
    BY DEF NoResult
  <2>2. AllNew \in [Tests -> {"new", "running", "returned", "ended", "skipped"}]
    BY DEF AllNew
  <2>3. NoVerdicts \in [Tests -> {"none", "running", "pass", "fail"}]
    BY DEF NoVerdicts
  <2>4. simsLeft \in 0 .. NumSims
    BY SimulationAssumption
  <2> QED  BY <2>1, <2>2, <2>3, <2>4, SuiteRange DEF TypeOK
<1>2. HivePhase /\ Counted /\ Told
  BY SimulationAssumption DEF HivePhase, Counted, Told
<1>3. SimPhase
  BY SuiteRange DEF SimPhase, Begun, AllNew, NoVerdicts
<1>4. \A s \in Suites : Whole(s)
  BY DEF Whole, Agree, Active, AllNew, NoVerdicts, TestsOf, Cut
<1> QED  BY <1>1, <1>2, <1>3, <1>4 DEF SimInv

LEMMA SimNext == SimInv /\ [Next]_vars => SimInv'
<1> SUFFICES ASSUME SimInv, [Next]_vars PROVE SimInv'
  OBVIOUS
<1>1. CASE SimStep
  BY <1>1, StartSuiteStep, AllTestsStep, EndSuiteStep, StartTestStep, FailStep,
     TestReturnsStep, EndTestStep DEF SimStep
<1>2. CASE Crash
  BY <1>2, CrashStep
<1>3. CASE HiveStep
  BY <1>3, StartSimStep, SimEndsStep, CountStep, DeleteSimStep, TerminateStep, NextSimStep
     DEF HiveStep
<1>4. CASE UNCHANGED vars
  BY <1>4 DEF vars, hiveVars, simVars, ledger, SimInv, TypeOK, HivePhase, SimPhase, Whole,
         Cut, Agree, Active, Counted, AllWithin, Within, Started, Begun, Unsure, Told
<1> QED  BY <1>1, <1>2, <1>3, <1>4 DEF Next, Finished

LEMMA SimInvariant == Spec => []SimInv
<1> QED  BY SimInit, SimNext, PTL DEF Spec

-----------------------------------------------------------------------------
(* The theorems                                                             *)

\* Types; in particular a simulator's suite stays within its suites.
THEOREM TypeCorrect == Spec => []TypeOK
<1>1. SimInv => TypeOK
  BY DEF SimInv
<1> QED  BY <1>1, SimInvariant, PTL

\* main exits with success only if no test signalled a failure, for any simulators,
\* suites and tests, but in the suites that were spoiled.
THEOREM FailuresAreReported == Spec => []FailureReported
<1>1. SimInv => FailureReported
  BY DEF SimInv, HivePhase, Told, FailureReported
<1> QED  BY <1>1, SimInvariant, PTL

\* run counts the suites, tests and failures of a simulation, and is wrong only about
\* those in spoiled suites.
THEOREM RunsAreCounted == Spec => []SummaryCountsRun
<1>1. SimInv => SummaryCountsRun
  BY DEF SimInv, Counted, AllWithin, SummaryCountsRun
<1> QED  BY <1>1, SimInvariant, PTL

\* RunSuite ends a suite when none of its tests runs: the manager accepts it, unless
\* the suite was spoiled.
THEOREM SuiteEndsAreAccepted == Spec => []SuiteEndAccepted
<1>1. SimInv => SuiteEndAccepted
  BY DEF SimInv, Whole, SuiteEndAccepted
<1> QED  BY <1>1, SimInvariant, PTL
=============================================================================
