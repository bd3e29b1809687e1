--------------------------- MODULE ClientStartProofs ---------------------------
(***************************************************************************)
(* What holds of any number of starts that share the proxy, whatever       *)
(* docker, the ports and the end of the API server do.                     *)
(*                                                                         *)
(* Each start has goroutines that know of each other only by channels, and *)
(* of the other starts nothing but the counter of calls.  So the invariant *)
(* is a conjunction over the starts, of what the stages of a start's       *)
(* goroutines say of each other, and of one fact about all of them: the    *)
(* IDs of the calls differ (Numbered).                                     *)
(***************************************************************************)
EXTENDS ClientStart, FiniteSetTheorems, TLAPS

\* The calls begun are numbered, and no two have one number.
Begun == {p \in Starts : checker[p] \notin {"none", "begin"}}
Numbered ==
  /\ callID = Cardinality(Begun)
  /\ \A p \in Begun : id[p] \in 1 .. callID
  /\ \A p, q \in Begun : id[p] = id[q] => p = q

\* A message is sent by a call that has begun, a cancellation only when the context
\* is done, and the front-end serves what was sent.
Messages(p) ==
  /\ request[p] # "none" \/ relay[p] # "none" => p \in Begun
  /\ relay[p] = "notify" \/ cancel[p] # "none" => p \in ctxDone /\ p \in Begun
  /\ probe[p] # "none" => request[p] = "received"
  /\ probe[p] \in {"canceled", "error"} => p \in ctxDone

\* There is no checker before StartCheck, and a success that any goroutine knows of
\* stems from an answer of the port.
Unchecked == {"create", "start", "run", "undo", "inspect", "check"}
Reached(p) ==
  /\ at[p] \in Unchecked => checker[p] = "none"
  /\ probe[p] = "live" => p \in portOpened
  /\ checker[p] \in {"relayEnd", "done"} => p \in callErr \/ p \in portOpened
  /\ p \in checked /\ p \in hasStarted => p \in portOpened
  /\ p \in checked /\ at[p] = Online => p \in portOpened

\* The stage of a start, its container, its files and its waiter.
GivenUp == {"delete", "join", Failed}
BeforeRun == {"create", "start", "run", NotCreated, Panicked}
Undone == {"undo", NoInfo}
Logged(p) ==
  /\ at[p] = "create" => container[p] = "none"
  /\ at[p] \in BeforeRun => container[p] # "running"
  /\ at[p] \in BeforeRun \cup Undone => waiter[p] = "none" /\ p \notin attached
  /\ at[p] \in {"create", "start", "run"} => files[p] = "none"
  /\ at[p] \notin BeforeRun \cup Undone => waiter[p] # "none"
  /\ waiter[p] = "waiting" /\ p \notin attached => at[p] \in GivenUp \/ p \in broken
  /\ waiter[p] = "done" => files[p] = "closed" /\ p \notin attached
  /\ container[p] = "running" /\ files[p] # "open" =>
       at[p] \in GivenUp \cup Undone \/ p \in broken

\* What a start leaves when it is given up.
Cleaned(p) ==
  /\ at[p] \in {NotCreated, "undo", NoInfo} => files[p] # "open"
  /\ at[p] = Failed => waiter[p] = "done"
  /\ \/ DeleteFaults
     \/ /\ at[p] = NotCreated => container[p] \in {"none", "removed"}
        /\ at[p] \in {NoInfo, "join", Failed} => container[p] = "removed"

StartInv ==
  /\ TypeOK /\ Numbered
  /\ \A p \in Starts : Messages(p) /\ Reached(p) /\ Logged(p) /\ Cleaned(p)

-----------------------------------------------------------------------------

\* Types: the steps other than CheckLiveBegin and CloseProxy.
LEMMA TypeStep ==
  ASSUME TypeOK, NEW p \in Starts, Running(p), UNCHANGED crashed
  PROVE  TypeOK'
<1>1. CASE CreateContainer(p)
  BY <1>1 DEF CreateContainer, Goto, Delete, TypeOK, startVars, checkVars, Returned,
         NotCreated, NoInfo, Failed, Online, Panicked
<1>2. CASE StartContainer(p)
  BY <1>2 DEF StartContainer, Goto, TypeOK, startVars, checkVars, Returned,
         NotCreated, NoInfo, Failed, Online, Panicked
<1>3. CASE RunContainer(p)
  BY <1>3 DEF RunContainer, Goto, Delete, TypeOK, startVars, checkVars, Returned,
         NotCreated, NoInfo, Failed, Online, Panicked
<1>4. CASE Inspect(p)
  BY <1>4 DEF Inspect, Goto, TypeOK, startVars, checkVars, Returned, NotCreated,
         NoInfo, Failed, Online, Panicked
<1>5. CASE CloseFiles(p)
  BY <1>5 DEF CloseFiles, Goto, TypeOK, startVars, checkVars, Returned, NotCreated,
         NoInfo, Failed, Online, Panicked
<1>6. CASE StartCheck(p)
  BY <1>6 DEF StartCheck, Goto, TypeOK, startVars, checkVars, Returned, NotCreated,
         NoInfo, Failed, Online, Panicked
<1>7. CASE Select(p)
  BY <1>7 DEF Select, Goto, Return, TypeOK, startVars, checkVars, Returned,
         NotCreated, NoInfo, Failed, Online, Panicked
<1>8. CASE DeleteFailed(p)
  BY <1>8 DEF DeleteFailed, Goto, Delete, TypeOK, startVars, checkVars, Returned,
         NotCreated, NoInfo, Failed, Online, Panicked
<1>9. CASE Join(p)
  BY <1>9 DEF Join, Goto, Return, TypeOK, startVars, checkVars, Returned, NotCreated,
         NoInfo, Failed, Online, Panicked
<1>10. CASE Timeout(p)
  BY <1>10 DEF Timeout, TypeOK, startVars, checkVars, Returned, NotCreated, NoInfo,
         Failed, Online, Panicked
<1>11. CASE Waiter(p)
  BY <1>11 DEF Waiter, TypeOK, startVars, checkVars, Returned, NotCreated, NoInfo,
         Failed, Online, Panicked
<1>12. CASE SendCheck(p)
  BY <1>12 DEF SendCheck, TypeOK, startVars, checkVars, Returned, NotCreated, NoInfo,
         Failed, Online, Panicked
<1>13. CASE CallReturns(p)
  BY <1>13 DEF CallReturns, CallOutcome, Answered, TypeOK, startVars, checkVars,
         Returned, NotCreated, NoInfo, Failed, Online, Panicked
<1>14. CASE CheckLiveReturns(p)
  BY <1>14 DEF CheckLiveReturns, TypeOK, startVars, checkVars, Returned, NotCreated,
         NoInfo, Failed, Online, Panicked
<1>15. CASE Relay(p)
  BY <1>15 DEF Relay, TypeOK, startVars, checkVars, Returned, NotCreated, NoInfo,
         Failed, Online, Panicked
<1>16. CASE RelayNotify(p)
  BY <1>16 DEF RelayNotify, TypeOK, startVars, checkVars, Returned, NotCreated,
         NoInfo, Failed, Online, Panicked
<1>17. CASE FrontCheckLive(p)
  BY <1>17 DEF FrontCheckLive, FrontRuns, Registered, TypeOK, startVars, checkVars,
         Returned, NotCreated, NoInfo, Failed, Online, Panicked
<1>18. CASE FrontCancel(p)
  BY <1>18 DEF FrontCancel, FrontRuns, Registered, TypeOK, startVars, checkVars,
         Returned, NotCreated, NoInfo, Failed, Online, Panicked
<1>19. CASE Probe(p)
  BY <1>19 DEF Probe, FrontRuns, TypeOK, startVars, checkVars, Returned, NotCreated,
         NoInfo, Failed, Online, Panicked
<1>20. CASE PortOpens(p)
  BY <1>20 DEF PortOpens, TypeOK, startVars, checkVars, Returned, NotCreated, NoInfo,
         Failed, Online, Panicked
<1>21. CASE ContainerExits(p)
  BY <1>21 DEF ContainerExits, TypeOK, startVars, checkVars, Returned, NotCreated,
         NoInfo, Failed, Online, Panicked
<1>22. CASE DeleteContainer(p)
  BY <1>22 DEF DeleteContainer, Delete, TypeOK, startVars, checkVars, Returned,
         NotCreated, NoInfo, Failed, Online, Panicked
<1>23. CASE Undo(p)
  BY <1>23 DEF Undo, Goto, Delete, TypeOK, startVars, checkVars, Returned, NotCreated,
         NoInfo, Failed, Online, Panicked
<1>24. CASE AttachmentBreaks(p)
  BY <1>24 DEF AttachmentBreaks, TypeOK, startVars, checkVars
<1> QED  BY <1>1, <1>2, <1>3, <1>4, <1>5, <1>6, <1>7, <1>8, <1>9, <1>10, <1>11, <1>12,
         <1>13, <1>14, <1>15, <1>16, <1>17, <1>18, <1>19, <1>20, <1>21, <1>22, <1>23,
         <1>24 DEF Running, Handler, Checker, Relaying,
               Front, Environment

\* The messages of a call, and what the front-end does with them.
LEMMA MessagesStep ==
  ASSUME TypeOK, Numbered, NEW q \in Starts, \A r \in Starts : Messages(r),
         NEW p \in Starts, Reached(p), Running(p)
  PROVE  Messages(q)'
<1>1. CASE StartCheck(p)
  <2>1. checker[p] = "none"
    BY <1>1 DEF StartCheck, Reached, Unchecked
  <2> QED  BY <1>1, <2>1 DEF StartCheck, TypeOK, Messages, Begun
<1>2. CASE Select(p)
  BY <1>2 DEF Select, Goto, Return, TypeOK, Numbered, Messages, Begun, startVars,
         checkVars
<1>3. CASE Join(p)
  BY <1>3 DEF Join, Goto, Return, TypeOK, Numbered, Messages, Begun, startVars,
         checkVars
<1>4. CASE Timeout(p)
  BY <1>4 DEF Timeout, TypeOK, Numbered, Messages, Begun, startVars, checkVars
<1>5. CASE SendCheck(p)
  BY <1>5 DEF SendCheck, TypeOK, Numbered, Messages, Begun, startVars, checkVars
<1>6. CASE CallReturns(p)
  BY <1>6 DEF CallReturns, CallOutcome, Answered, TypeOK, Numbered, Messages, Begun,
         startVars, checkVars
<1>7. CASE CheckLiveReturns(p)
  BY <1>7 DEF CheckLiveReturns, TypeOK, Numbered, Messages, Begun, startVars,
         checkVars
<1>8. CASE Relay(p)
  BY <1>8 DEF Relay, TypeOK, Numbered, Messages, Begun, startVars, checkVars
<1>9. CASE RelayNotify(p)
  BY <1>9 DEF RelayNotify, TypeOK, Numbered, Messages, Begun, startVars, checkVars
<1>10. CASE FrontCheckLive(p)
  <2>1. p \in Begun /\ request[p] = "sent"
    BY <1>10 DEF FrontCheckLive, Messages
  <2>2. Registered(id[p]) = {}
    <3> SUFFICES ASSUME NEW r \in Starts, id[r] = id[p], probe[r] = "probing"
                 PROVE  FALSE
      BY DEF Registered
    <3>1. r \in Begun /\ request[r] = "received"
      BY DEF Messages
    <3> QED  BY <2>1, <3>1 DEF Numbered
  <2> QED  BY <1>10, <2>1, <2>2 DEF FrontCheckLive, TypeOK, Messages, Begun, startVars
<1>11. CASE FrontCancel(p)
  BY <1>11 DEF FrontCancel, FrontRuns, Registered, TypeOK, Numbered, Messages, Begun,
         startVars, checkVars
<1>12. CASE Probe(p)
  BY <1>12 DEF Probe, FrontRuns, TypeOK, Numbered, Messages, Begun, startVars,
         checkVars
<1>13. CASE \/ CreateContainer(p) \/ StartContainer(p) \/ RunContainer(p) \/ Undo(p)
            \/ Inspect(p) \/ CloseFiles(p) \/ DeleteFailed(p) \/ Waiter(p) \/ PortOpens(p)
            \/ ContainerExits(p) \/ AttachmentBreaks(p) \/ DeleteContainer(p)
  <2>1. UNCHANGED <<ctxDone, checker, relay, request, cancel, probe>>
    BY <1>13 DEF CreateContainer, StartContainer, RunContainer, Undo, Inspect, CloseFiles,
           DeleteFailed, Waiter, PortOpens, ContainerExits, AttachmentBreaks,
           DeleteContainer, Goto, Delete, startVars, checkVars
  <2> QED  BY <2>1 DEF Messages, Begun
<1> QED  BY <1>1, <1>2, <1>3, <1>4, <1>5, <1>6, <1>7, <1>8, <1>9, <1>10, <1>11, <1>12,
         <1>13 DEF Running, Handler, Checker, Relaying,
               Front, Environment

\* Who knows that the port was reached.
LEMMA ReachedStep ==
  ASSUME TypeOK, NEW q \in Starts, Reached(q), NEW p \in Starts, Messages(p), Reached(p),
         Running(p)
  PROVE  Reached(q)'
<1>1. CASE CreateContainer(p)
  BY <1>1 DEF CreateContainer, Goto, Delete, TypeOK, Reached, Unchecked, Messages, startVars,
         checkVars, Returned, NotCreated, NoInfo, Failed, Online, Panicked
<1>2. CASE StartContainer(p)
  BY <1>2 DEF StartContainer, Goto, TypeOK, Reached, Unchecked, Messages, startVars, checkVars,
         Returned, NotCreated, NoInfo, Failed, Online, Panicked
<1>3. CASE RunContainer(p)
  BY <1>3 DEF RunContainer, Goto, Delete, TypeOK, Reached, Unchecked, Messages, startVars,
         checkVars, Returned, NotCreated, NoInfo, Failed, Online, Panicked
<1>4. CASE Inspect(p)
  BY <1>4 DEF Inspect, Goto, TypeOK, Reached, Unchecked, Messages, startVars, checkVars,
         Returned, NotCreated, NoInfo, Failed, Online, Panicked
<1>5. CASE CloseFiles(p)
  BY <1>5 DEF CloseFiles, Goto, TypeOK, Reached, Unchecked, Messages, startVars, checkVars,
         Returned, NotCreated, NoInfo, Failed, Online, Panicked
<1>6. CASE StartCheck(p)
  BY <1>6 DEF StartCheck, Goto, TypeOK, Reached, Unchecked, Messages, startVars, checkVars,
         Returned, NotCreated, NoInfo, Failed, Online, Panicked
<1>7. CASE Select(p)
  BY <1>7 DEF Select, Goto, Return, TypeOK, Reached, Unchecked, Messages, startVars, checkVars,
         Returned, NotCreated, NoInfo, Failed, Online, Panicked
<1>8. CASE DeleteFailed(p)
  BY <1>8 DEF DeleteFailed, Goto, Delete, TypeOK, Reached, Unchecked, Messages, startVars,
         checkVars, Returned, NotCreated, NoInfo, Failed, Online, Panicked
<1>9. CASE Join(p)
  BY <1>9 DEF Join, Goto, Return, TypeOK, Reached, Unchecked, Messages, startVars, checkVars,
         Returned, NotCreated, NoInfo, Failed, Online, Panicked
<1>10. CASE CallReturns(p)
  BY <1>10 DEF CallReturns, CallOutcome, Answered, TypeOK, Reached, Unchecked, Messages,
         startVars, checkVars, Returned, NotCreated, NoInfo, Failed, Online, Panicked
<1>11. CASE CheckLiveReturns(p)
  BY <1>11 DEF CheckLiveReturns, TypeOK, Reached, Unchecked, Messages, startVars, checkVars,
         Returned, NotCreated, NoInfo, Failed, Online, Panicked
<1>12. CASE FrontCheckLive(p)
  BY <1>12 DEF FrontCheckLive, FrontRuns, Registered, TypeOK, Reached, Unchecked, Messages,
         startVars, checkVars, Returned, NotCreated, NoInfo, Failed, Online, Panicked
<1>13. CASE FrontCancel(p)
  BY <1>13 DEF FrontCancel, FrontRuns, Registered, TypeOK, Reached, Unchecked, Messages,
         startVars, checkVars, Returned, NotCreated, NoInfo, Failed, Online, Panicked
<1>14. CASE Probe(p)
  BY <1>14 DEF Probe, FrontRuns, TypeOK, Reached, Unchecked, Messages, startVars, checkVars,
         Returned, NotCreated, NoInfo, Failed, Online, Panicked
<1>15. CASE PortOpens(p)
  BY <1>15 DEF PortOpens, TypeOK, Reached, Unchecked, Messages, startVars, checkVars, Returned,
         NotCreated, NoInfo, Failed, Online, Panicked
<1>16. CASE \/ Timeout(p) \/ Waiter(p) \/ SendCheck(p) \/ Relay(p) \/ RelayNotify(p)
            \/ ContainerExits(p) \/ AttachmentBreaks(p) \/ DeleteContainer(p)
  <2>1. UNCHANGED <<at, checked, portOpened, checker, callErr, hasStarted, probe>>
    BY <1>16 DEF Timeout, Waiter, SendCheck, Relay, RelayNotify, ContainerExits,
           AttachmentBreaks, DeleteContainer, Delete, startVars, checkVars
  <2> QED  BY <2>1 DEF Reached, Unchecked
<1>17. CASE Undo(p)
  BY <1>17 DEF Undo, Goto, Delete, TypeOK, Reached, Unchecked, startVars, checkVars, Returned,
         NotCreated, NoInfo, Failed, Online, Panicked
<1> QED  BY <1>1, <1>2, <1>3, <1>4, <1>5, <1>6, <1>7, <1>8, <1>9, <1>10, <1>11, <1>12,
         <1>13, <1>14, <1>15, <1>16, <1>17 DEF Running, Handler, Checker, Relaying,
               Front, Environment

\* Containers, files and waiters.
LEMMA LoggedStep ==
  ASSUME TypeOK, NEW q \in Starts, Logged(q), NEW p \in Starts, Running(p)
  PROVE  Logged(q)'
<1>1. CASE CreateContainer(p)
  BY <1>1 DEF CreateContainer, Goto, Delete, TypeOK, Logged, GivenUp, BeforeRun, Undone,
         startVars, checkVars, Returned, NotCreated, NoInfo, Failed, Online, Panicked
<1>2. CASE StartContainer(p)
  BY <1>2 DEF StartContainer, Goto, TypeOK, Logged, GivenUp, BeforeRun, Undone, startVars,
         checkVars, Returned, NotCreated, NoInfo, Failed, Online, Panicked
<1>3. CASE RunContainer(p)
  BY <1>3 DEF RunContainer, Goto, Delete, TypeOK, Logged, GivenUp, BeforeRun, Undone,
         startVars, checkVars, Returned, NotCreated, NoInfo, Failed, Online, Panicked
<1>4. CASE Inspect(p)
  BY <1>4 DEF Inspect, Goto, TypeOK, Logged, GivenUp, BeforeRun, Undone, startVars, checkVars,
         Returned, NotCreated, NoInfo, Failed, Online, Panicked
<1>5. CASE CloseFiles(p)
  BY <1>5 DEF CloseFiles, Goto, TypeOK, Logged, GivenUp, BeforeRun, Undone, startVars,
         checkVars, Returned, NotCreated, NoInfo, Failed, Online, Panicked
<1>6. CASE StartCheck(p)
  BY <1>6 DEF StartCheck, Goto, TypeOK, Logged, GivenUp, BeforeRun, Undone, startVars,
         checkVars, Returned, NotCreated, NoInfo, Failed, Online, Panicked
<1>7. CASE Select(p)
  BY <1>7 DEF Select, Goto, Return, TypeOK, Logged, GivenUp, BeforeRun, Undone, startVars,
         checkVars, Returned, NotCreated, NoInfo, Failed, Online, Panicked
<1>8. CASE DeleteFailed(p)
  BY <1>8 DEF DeleteFailed, Goto, Delete, TypeOK, Logged, GivenUp, BeforeRun, Undone,
         startVars, checkVars, Returned, NotCreated, NoInfo, Failed, Online, Panicked
<1>9. CASE Join(p)
  BY <1>9 DEF Join, Goto, Return, TypeOK, Logged, GivenUp, BeforeRun, Undone, startVars,
         checkVars, Returned, NotCreated, NoInfo, Failed, Online, Panicked
<1>10. CASE Waiter(p)
  BY <1>10 DEF Waiter, TypeOK, Logged, GivenUp, BeforeRun, Undone, startVars, checkVars,
         Returned, NotCreated, NoInfo, Failed, Online, Panicked
<1>11. CASE ContainerExits(p)
  BY <1>11 DEF ContainerExits, TypeOK, Logged, GivenUp, BeforeRun, Undone, startVars,
         checkVars, Returned, NotCreated, NoInfo, Failed, Online, Panicked
<1>12. CASE DeleteContainer(p)
  BY <1>12 DEF DeleteContainer, Delete, TypeOK, Logged, GivenUp, BeforeRun, Undone, startVars,
         checkVars, Returned, NotCreated, NoInfo, Failed, Online, Panicked
<1>13. CASE Timeout(p) \/ SendCheck(p) \/ CallReturns(p) \/ CheckLiveReturns(p) \/ Relay(p) \/
         RelayNotify(p) \/ FrontCheckLive(p) \/ FrontCancel(p) \/ Probe(p) \/ PortOpens(p)
  <2>1. UNCHANGED <<at, container, files, attached, broken, waiter>>
    BY <1>13 DEF Timeout, SendCheck, CallReturns, CheckLiveReturns, Relay,
           RelayNotify, FrontCheckLive, FrontCancel, Probe, PortOpens, CallOutcome,
           Answered, FrontRuns, Registered, startVars, checkVars
  <2> QED  BY <2>1 DEF Logged
<1>14. CASE Undo(p)
  BY <1>14 DEF Undo, Goto, Delete, TypeOK, Logged, GivenUp, BeforeRun, Undone,
         startVars, checkVars, Returned, NotCreated, NoInfo, Failed, Online, Panicked
<1>15. CASE AttachmentBreaks(p)
  BY <1>15 DEF AttachmentBreaks, TypeOK, Logged, GivenUp, BeforeRun, Undone,
         startVars, checkVars, Returned, NotCreated, NoInfo, Failed, Online, Panicked
<1> QED  BY <1>1, <1>2, <1>3, <1>4, <1>5, <1>6, <1>7, <1>8, <1>9, <1>10, <1>11, <1>12,
         <1>13, <1>14, <1>15 DEF Running, Handler, Checker, Relaying,
               Front, Environment

\* Starts given up.
LEMMA CleanedStep ==
  ASSUME TypeOK, NEW q \in Starts, Logged(q), Cleaned(q), NEW p \in Starts, Running(p)
  PROVE  Cleaned(q)'
<1>1. CASE CreateContainer(p)
  BY <1>1 DEF CreateContainer, Goto, Delete, TypeOK, Logged, Cleaned, GivenUp,
         BeforeRun, Undone, startVars, checkVars, Returned, NotCreated, NoInfo, Failed,
         Online, Panicked
<1>2. CASE StartContainer(p)
  BY <1>2 DEF StartContainer, Goto, TypeOK, Logged, Cleaned, GivenUp, BeforeRun, Undone,
         startVars, checkVars, Returned, NotCreated, NoInfo, Failed, Online, Panicked
<1>3. CASE RunContainer(p)
  BY <1>3 DEF RunContainer, Goto, Delete, TypeOK, Logged, Cleaned, GivenUp, BeforeRun, Undone,
         startVars, checkVars, Returned, NotCreated, NoInfo, Failed, Online, Panicked
<1>4. CASE Inspect(p)
  BY <1>4 DEF Inspect, Goto, TypeOK, Logged, Cleaned, GivenUp, BeforeRun, Undone, startVars,
         checkVars, Returned, NotCreated, NoInfo, Failed, Online, Panicked
<1>5. CASE CloseFiles(p)
  BY <1>5 DEF CloseFiles, Goto, TypeOK, Logged, Cleaned, GivenUp, BeforeRun, Undone,
         startVars, checkVars, Returned, NotCreated, NoInfo, Failed, Online, Panicked
<1>6. CASE StartCheck(p)
  BY <1>6 DEF StartCheck, Goto, TypeOK, Logged, Cleaned, GivenUp, BeforeRun, Undone,
         startVars, checkVars, Returned, NotCreated, NoInfo, Failed, Online, Panicked
<1>7. CASE Select(p)
  BY <1>7 DEF Select, Goto, Return, TypeOK, Logged, Cleaned, GivenUp, BeforeRun, Undone,
         startVars, checkVars, Returned, NotCreated, NoInfo, Failed, Online, Panicked
<1>8. CASE DeleteFailed(p)
  BY <1>8 DEF DeleteFailed, Goto, Delete, TypeOK, Logged, Cleaned, GivenUp, BeforeRun, Undone,
         startVars, checkVars, Returned, NotCreated, NoInfo, Failed, Online, Panicked
<1>9. CASE Join(p)
  BY <1>9 DEF Join, Goto, Return, TypeOK, Logged, Cleaned, GivenUp, BeforeRun, Undone,
         startVars, checkVars, Returned, NotCreated, NoInfo, Failed, Online, Panicked
<1>10. CASE Waiter(p)
  BY <1>10 DEF Waiter, TypeOK, Logged, Cleaned, GivenUp, BeforeRun, Undone, startVars,
         checkVars, Returned, NotCreated, NoInfo, Failed, Online, Panicked
<1>11. CASE ContainerExits(p)
  BY <1>11 DEF ContainerExits, TypeOK, Logged, Cleaned, GivenUp, BeforeRun, Undone, startVars,
         checkVars, Returned, NotCreated, NoInfo, Failed, Online, Panicked
<1>12. CASE DeleteContainer(p)
  BY <1>12 DEF DeleteContainer, Delete, TypeOK, Logged, Cleaned, GivenUp, BeforeRun, Undone,
         startVars, checkVars, Returned, NotCreated, NoInfo, Failed, Online, Panicked
<1>13. CASE Timeout(p) \/ SendCheck(p) \/ CallReturns(p) \/ CheckLiveReturns(p) \/ Relay(p) \/
         RelayNotify(p) \/ FrontCheckLive(p) \/ FrontCancel(p) \/ Probe(p) \/ PortOpens(p)
  <2>1. UNCHANGED <<at, container, files, attached, broken, waiter>>
    BY <1>13 DEF Timeout, SendCheck, CallReturns, CheckLiveReturns, Relay,
           RelayNotify, FrontCheckLive, FrontCancel, Probe, PortOpens, CallOutcome,
           Answered, FrontRuns, Registered, startVars, checkVars
  <2> QED  BY <2>1 DEF Cleaned
<1>14. CASE Undo(p)
  BY <1>14 DEF Undo, Goto, Delete, TypeOK, Logged, Cleaned, GivenUp, BeforeRun, Undone,
         startVars, checkVars, Returned, NotCreated, NoInfo, Failed, Online, Panicked
<1>15. CASE AttachmentBreaks(p)
  BY <1>15 DEF AttachmentBreaks, TypeOK, Logged, Cleaned, GivenUp, BeforeRun, Undone,
         startVars, checkVars, Returned, NotCreated, NoInfo, Failed, Online, Panicked
<1> QED  BY <1>1, <1>2, <1>3, <1>4, <1>5, <1>6, <1>7, <1>8, <1>9, <1>10, <1>11, <1>12,
         <1>13, <1>14, <1>15 DEF Running, Handler, Checker, Relaying,
               Front, Environment

\* None of these steps begins a call.
LEMMA NumberedStep ==
  ASSUME TypeOK, Numbered, NEW p \in Starts, Reached(p), Running(p)
  PROVE  Numbered'
<1>1. callID' = callID /\ id' = id
  BY DEF Running, Handler, CreateContainer, StartContainer, RunContainer, Undo, Inspect,
         CloseFiles, StartCheck, Select, DeleteFailed, Join, Timeout, Waiter, Checker,
         SendCheck, CallReturns, CheckLiveReturns, Relaying, Relay, RelayNotify, Front,
         FrontCheckLive, FrontCancel, Probe, Environment, PortOpens, ContainerExits,
         AttachmentBreaks, DeleteContainer, checkVars
<1>2. Begun' = Begun
  <2>1. CASE StartCheck(p)
    <3>1. checker[p] = "none"
      BY <2>1 DEF StartCheck, Reached, Unchecked
    <3>2. checker' = checker \/ checker' = [checker EXCEPT ![p] = "begin"]
      BY <2>1 DEF StartCheck
    <3> QED  BY <3>1, <3>2 DEF Begun, TypeOK
  <2>2. CASE CallReturns(p) \/ CheckLiveReturns(p)
    <3>1. /\ checker[p] \in {"call", "relayEnd"}
          /\ \/ checker' = [checker EXCEPT ![p] = "relayEnd"]
             \/ checker' = [checker EXCEPT ![p] = "done"]
      BY <2>2 DEF CallReturns, CheckLiveReturns
    <3> QED  BY <3>1 DEF Begun, TypeOK
  <2>3. CASE ~(StartCheck(p) \/ CallReturns(p) \/ CheckLiveReturns(p))
    <3>1. checker' = checker
      BY <2>3 DEF Running, Handler, CreateContainer, StartContainer, RunContainer, Undo, Inspect,
             CloseFiles, Select, DeleteFailed, Join, Timeout, Waiter, Checker, SendCheck,
             Relaying, Relay, RelayNotify, Front, FrontCheckLive, FrontCancel, Probe,
             Environment, PortOpens, ContainerExits, AttachmentBreaks, DeleteContainer, checkVars
    <3> QED  BY <3>1 DEF Begun
  <2> QED  BY <2>1, <2>2, <2>3
<1> QED  BY <1>1, <1>2 DEF Numbered

\* A step of a start's goroutines, or of its container, keeps the invariant of all.
LEMMA RunningStep ==
  ASSUME StartInv, NEW p \in Starts, Alive(Running(p))
  PROVE  StartInv'
<1> USE DEF StartInv
<1>1. Running(p) /\ UNCHANGED crashed
  BY DEF Alive
<1>2. TypeOK' /\ Numbered'
  BY <1>1, TypeStep, NumberedStep
<1>3. ASSUME NEW q \in Starts
      PROVE  (Messages(q) /\ Reached(q) /\ Logged(q) /\ Cleaned(q))'
  BY <1>1, MessagesStep, ReachedStep, LoggedStep, CleanedStep
<1> QED  BY <1>2, <1>3

\* A call gets the next number, which no other call has.
LEMMA CheckLiveBeginStep ==
  ASSUME StartInv, NEW p \in Starts, CheckLiveBegin(p)
  PROVE  StartInv'
<1> USE DEF StartInv
<1>1. CASE proxy # "up"
  <2>1. UNCHANGED <<startVars, checkVars, proxy>> /\ crashed' = TRUE
    BY <1>1 DEF CheckLiveBegin, checkVars
  <2>2. TypeOK' /\ Numbered'
    BY <2>1 DEF startVars, checkVars, TypeOK, Numbered, Begun
  <2>3. ASSUME NEW q \in Starts
        PROVE  (Messages(q) /\ Reached(q) /\ Logged(q) /\ Cleaned(q))'
    BY <2>1 DEF startVars, checkVars, Messages, Reached, Logged, Cleaned, Begun
  <2> QED  BY <2>2, <2>3
<1>2. CASE proxy = "up"
  <2>1. /\ checker[p] = "begin" /\ checker' = [checker EXCEPT ![p] = "call"]
        /\ callID' = callID + 1 /\ id' = [id EXCEPT ![p] = callID + 1]
        /\ relay' = [relay EXCEPT ![p] = "watching"]
        /\ UNCHANGED <<startVars, callErr, hasStarted, request, cancel, probe, proxy, crashed>>
    BY <1>2 DEF CheckLiveBegin, NextCallID
  <2>2. Begun' = Begun \cup {p} /\ p \notin Begun
    BY <2>1 DEF Begun, TypeOK
  <2>3. callID + 1 = Cardinality(Begun \cup {p}) /\ Cardinality(Begun \cup {p}) <= Cardinality(Starts)
        /\ callID \in Nat /\ Cardinality(Starts) \in Nat
    <3>1. IsFiniteSet(Begun) /\ Begun \subseteq Starts /\ Begun \cup {p} \subseteq Starts
      BY StartAssumption, FS_Subset DEF Begun
    <3>2. Cardinality(Begun \cup {p}) = Cardinality(Begun) + 1
      BY <2>2, <3>1, FS_AddElement
    <3>3. Cardinality(Begun \cup {p}) <= Cardinality(Starts)
      BY <3>1, StartAssumption, FS_Subset
    <3>4. Cardinality(Begun) \in Nat /\ Cardinality(Starts) \in Nat
      BY <3>1, StartAssumption, FS_CardinalityType
    <3> QED  BY <3>2, <3>3, <3>4 DEF Numbered
  <2>4. TypeOK'
    BY <2>1, <2>3 DEF TypeOK, startVars
  <2>5. Numbered'
    <3>1. callID' = Cardinality(Begun')
      BY <2>1, <2>2, <2>3
    <3>2. ASSUME NEW q \in Begun'
          PROVE  /\ q = p => id'[q] = callID + 1
                 /\ q # p => q \in Begun /\ id'[q] = id[q]
      BY <2>1, <2>2 DEF TypeOK, Begun
    <3>3. \A q \in Begun : id[q] \in 1 .. callID
      BY DEF Numbered
    <3>4. \A q \in Begun' : id'[q] \in 1 .. callID'
      BY <2>1, <2>3, <3>2, <3>3
    <3>5. \A q, r \in Begun' : id'[q] = id'[r] => q = r
      BY <2>3, <3>2, <3>3 DEF Numbered
    <3> QED  BY <3>1, <3>4, <3>5 DEF Numbered
  <2>6. ASSUME NEW q \in Starts
        PROVE  (Messages(q) /\ Reached(q) /\ Logged(q) /\ Cleaned(q))'
    <3>1. Messages(q)'
      BY <2>1, <2>2 DEF Messages, startVars, TypeOK
    <3>2. Reached(q)'
      BY <2>1 DEF Reached, Unchecked, startVars, TypeOK
    <3>3. Logged(q)' /\ Cleaned(q)'
      BY <2>1 DEF Logged, Cleaned, startVars
    <3> QED  BY <3>1, <3>2, <3>3
  <2> QED  BY <2>4, <2>5, <2>6
<1> QED  BY <1>1, <1>2

\* The end of the proxy ends contexts, and nothing else of a start.
LEMMA CloseProxyStep ==
  ASSUME StartInv, CloseProxy, UNCHANGED crashed
  PROVE  StartInv'
<1> USE DEF StartInv
<1>1. /\ UNCHANGED <<at, checked, container, portOpened, files, attached, broken, waiter, checkVars>>
      /\ proxy' \in {"unset", "killed", "closed"}
      /\ ctxDone \subseteq ctxDone' /\ ctxDone' \subseteq ctxDone \cup Starts
  BY DEF CloseProxy, startVars
<1>2. TypeOK'
  BY <1>1 DEF TypeOK, checkVars
<1>3. Numbered'
  BY <1>1 DEF Numbered, Begun, checkVars
<1>4. ASSUME NEW q \in Starts
      PROVE  (Messages(q) /\ Reached(q) /\ Logged(q) /\ Cleaned(q))'
  BY <1>1 DEF Messages, Reached, Logged, Cleaned, Begun, checkVars
<1> QED  BY <1>2, <1>3, <1>4

\* The invariant holds at first, and every step keeps it.
LEMMA StartInit == Init => StartInv
<1> SUFFICES ASSUME Init PROVE StartInv
  OBVIOUS
<1>1. Begun = {} /\ Cardinality(Begun) = 0
  BY FS_EmptySet DEF Init, All, Begun
<1>2. Numbered
  BY <1>1 DEF Init, Numbered
<1>3. TypeOK
  <2>1. 0 \in 0 .. Cardinality(Starts)
    BY StartAssumption, FS_CardinalityType
  <2>2. \A S, x : x \in S => All(x) \in [Starts -> S]
    BY DEF All
  <2>3. /\ checked \subseteq Starts
        /\ portOpened = {} /\ attached = {} /\ broken = {} /\ ctxDone = {} /\ callErr = {} /\ hasStarted = {}
    BY DEF Init
  <2>4. /\ at = All("create") /\ container = All("none") /\ files = All("none")
        /\ waiter = All("none") /\ checker = All("none") /\ callID = 0 /\ id = All(0)
        /\ relay = All("none") /\ request = All("none") /\ cancel = All("none")
        /\ probe = All("none") /\ proxy = "up" /\ crashed = FALSE
    BY DEF Init
  <2>5. {checked, portOpened, attached, broken, ctxDone, callErr, hasStarted} \subseteq SUBSET Starts
    BY <2>3
  <2> QED  BY <2>1, <2>2, <2>4, <2>5 DEF TypeOK
<1>4. ASSUME NEW q \in Starts
      PROVE  Messages(q) /\ Reached(q) /\ Logged(q) /\ Cleaned(q)
  BY DEF Init, All, Messages, Reached, Logged, Cleaned, BeforeRun, Undone,
         NotCreated, NoInfo, Failed, Online, Panicked
<1> QED  BY <1>2, <1>3, <1>4 DEF StartInv

LEMMA StartNext == StartInv /\ [Next]_vars => StartInv'
<1> SUFFICES ASSUME StartInv, [Next]_vars PROVE StartInv'
  OBVIOUS
<1>1. CASE \E p \in Starts : Alive(Running(p))
  BY <1>1, RunningStep
<1>2. CASE \E p \in Starts : ~crashed /\ CheckLiveBegin(p)
  BY <1>2, CheckLiveBeginStep
<1>3. CASE Alive(CloseProxy)
  BY <1>3, CloseProxyStep DEF Alive
<1>4. CASE UNCHANGED vars
  <2>1. TypeOK' /\ Numbered'
    BY <1>4 DEF StartInv, vars, startVars, checkVars, TypeOK, Numbered, Begun
  <2>2. ASSUME NEW q \in Starts
        PROVE  (Messages(q) /\ Reached(q) /\ Logged(q) /\ Cleaned(q))'
    BY <1>4 DEF StartInv, vars, startVars, checkVars, Messages, Reached, Logged, Cleaned, Begun
  <2> QED  BY <2>1, <2>2 DEF StartInv
<1> QED  BY <1>1, <1>2, <1>3, <1>4 DEF Next, Finished

LEMMA StartInvariant == Spec => []StartInv
<1> QED  BY StartInit, StartNext, PTL DEF Spec

-----------------------------------------------------------------------------
(* The theorems                                                             *)

\* Types, for any number of starts: the counter of calls stays within them.
THEOREM TypeCorrect == Spec => []TypeOK
<1>1. StartInv => TypeOK
  BY DEF StartInv
<1> QED  BY <1>1, StartInvariant, PTL

\* StartContainer reports a client online only when a probe has reached its port.
THEOREM OnlineIsReached == Spec => []OnlineWasReached
<1>1. StartInv => OnlineWasReached
  BY DEF StartInv, TypeOK, Reached, OnlineWasReached
<1> QED  BY <1>1, StartInvariant, PTL

\* Cancel, which knows only the ID of a call, ends the probe of no other start.
THEOREM CancellationsAreOwn == Spec => []CancelReachesOwnProbe
<1>1. StartInv => CancelReachesOwnProbe
  BY DEF StartInv, Messages, CancelReachesOwnProbe
<1> QED  BY <1>1, StartInvariant, PTL

\* fileCloser: the log of a container is open while it runs, except in a start that
\* is given up or has lost its attachment by an error.
THEOREM OutputIsLogged == Spec => []RunningIsLogged
<1>1. StartInv => RunningIsLogged
  BY DEF StartInv, Logged, GivenUp, Undone, RunningIsLogged
<1> QED  BY <1>1, StartInvariant, PTL

\* If docker deletes what it is told to delete, a failed start leaves no container,
\* no open file, no attachment and no waiter.
THEOREM FailedStartsCleanUp == ~DeleteFaults => (Spec => []FailedStartCleanedUp)
<1> SUFFICES ASSUME ~DeleteFaults PROVE Spec => []FailedStartCleanedUp
  OBVIOUS
<1>1. StartInv => FailedStartCleanedUp
  <2> SUFFICES ASSUME StartInv, NEW p \in Starts, at[p] \in {NotCreated, NoInfo, Failed}
               PROVE  /\ container[p] \in {"none", "removed"}
                      /\ files[p] # "open" /\ p \notin attached
                      /\ waiter[p] # "waiting"
    BY DEF FailedStartCleanedUp
  <2> QED  BY DEF StartInv, Logged, Cleaned, BeforeRun, Undone, NotCreated, NoInfo, Failed
<1> QED  BY <1>1, StartInvariant, PTL
=============================================================================
