------------------------------ MODULE TestLedger ------------------------------
(***************************************************************************)
(* What the test manager promises its callers about suites and test cases, *)
(* without requests, locks, clients and containers: the life of a suite    *)
(* (running, its summary file written, ended), that of a test case         *)
(* (running, decided by one verdict, ended), and which tests a suite's     *)
(* summary can name.  TestManager implements it.                           *)
(*                                                                         *)
(* A test may start in any suite that has started, also after the summary  *)
(* was written and even after the suite has ended: StartTest does not wait *)
(* for EndTestSuite, nor EndTestSuite for StartTest.                       *)
(***************************************************************************)
EXTENDS Naturals

CONSTANTS Suites, Tests, Verdict

VARIABLES
  suiteState,  \* suite -> "unused", "running" or "ended"
  summaries,   \* suite -> number of summary files
  members,     \* suite -> its test cases
  testState,   \* test -> "unused", "running" or "ended"
  verdict      \* test -> its verdict, or "none"

ledgerVars == <<suiteState, summaries, members, testState, verdict>>

Init ==
  /\ suiteState = [s \in Suites |-> "unused"]
  /\ summaries = [s \in Suites |-> 0]
  /\ members = [s \in Suites |-> {}]
  /\ testState = [t \in Tests |-> "unused"]
  /\ verdict = [t \in Tests |-> "none"]

StartSuite(s) ==
  /\ suiteState[s] = "unused"
  /\ suiteState' = [suiteState EXCEPT ![s] = "running"]
  /\ UNCHANGED <<summaries, members, testState, verdict>>

StartTest(s, t) ==
  /\ suiteState[s] # "unused" /\ testState[t] = "unused"
  /\ testState' = [testState EXCEPT ![t] = "running"]
  /\ members' = [members EXCEPT ![s] = @ \cup {t}]
  /\ UNCHANGED <<suiteState, summaries, verdict>>

Decide(t, v) ==
  /\ testState[t] = "running" /\ verdict[t] = "none"
  /\ verdict' = [verdict EXCEPT ![t] = v]
  /\ UNCHANGED <<suiteState, summaries, members, testState>>

EndTest(t) ==
  /\ testState[t] = "running" /\ verdict[t] # "none"
  /\ testState' = [testState EXCEPT ![t] = "ended"]
  /\ UNCHANGED <<suiteState, summaries, members, verdict>>

WriteSummary(s) ==
  /\ suiteState[s] = "running" /\ summaries[s] = 0
  /\ summaries' = [summaries EXCEPT ![s] = 1]
  /\ UNCHANGED <<suiteState, members, testState, verdict>>

EndSuite(s) ==
  /\ suiteState[s] = "running" /\ summaries[s] = 1
  /\ suiteState' = [suiteState EXCEPT ![s] = "ended"]
  /\ UNCHANGED <<summaries, members, testState, verdict>>

Next ==
  \/ \E s \in Suites : \/ StartSuite(s) \/ WriteSummary(s) \/ EndSuite(s)
                       \/ \E t \in Tests : StartTest(s, t)
  \/ \E t \in Tests : EndTest(t) \/ \E v \in Verdict : Decide(t, v)

Spec == Init /\ [][Next]_ledgerVars
=============================================================================
