----------------------------- MODULE ClientStart -----------------------------
(***************************************************************************)
(* How a container is created, started and watched: CreateContainer,       *)
(* StartContainer and DeleteContainer of internal/libdocker/container.go,  *)
(* the end of the proxy in internal/libdocker/proxy.go, and the liveness   *)
(* probe of hiveproxy (proxy.go in hive, checklive.go in the proxy's own   *)
(* container).                                                             *)
(*                                                                         *)
(* A start p, for a client or, without a port check, for the simulator, is *)
(* served by several goroutines: the handler at at[p]; the waiter, which   *)
(* closes the log files when the container ends; the checker, which has    *)
(* the front-end probe the port; the relay, which forwards a cancellation; *)
(* and, in the front-end, one goroutine per message, since the RPC library *)
(* serves each message of a connection in a goroutine of its own.          *)
(* NAME_xxx is a plausible mistake in NAME.                                *)
(***************************************************************************)
EXTENDS Naturals, FiniteSets

CONSTANTS
  Starts,        \* the containers to start, each once
  Closing,       \* may the API server be closed while containers start?
  RunFaults,     \* may docker start a container and report a failure, or the
                 \* attachment of one that runs end with an error?
  DeleteFaults   \* may docker fail to delete a container?

ASSUME StartAssumption ==
  /\ IsFiniteSet(Starts)
  /\ Closing \in BOOLEAN /\ RunFaults \in BOOLEAN /\ DeleteFaults \in BOOLEAN

\* How CreateContainer and StartContainer return.
NotCreated == "notCreated"   \* no container
NoInfo     == "noInfo"       \* an error and no info: it did not run
Failed     == "failed"       \* an error and an info without a wait function
Online     == "online"
Panicked   == "panicked"     \* the assertion at the top of StartContainer
Returned   == {NotCreated, NoInfo, Failed, Online, Panicked}

VARIABLES
  at,         \* what the handler does next
  checked,    \* the starts that ask for a port check
  container,  \* "none", "created", "running", "exited" or "removed"
  portOpened, \* the containers that have listened on their port
  files,      \* log files and attachment: "none", "open", "closed"
  attached,   \* the starts with a live attachment
  broken,     \* the starts whose attachment has ended with an error
  waiter,     \* "none", "waiting", "done": done is a closed containerExit
  ctxDone,    \* the starts whose context is done
  checker,    \* "none", "begin", "call", "relayEnd", "done"
  callID, id, \* the counter of calls, and the ID of a start's call
  callErr,    \* did CheckLive's call return an error?
  relay,      \* "none", "watching", "notify", "done"
  hasStarted, \* the closed hasStarted channels
  request,    \* the proxy_checkLive message: "none", "sent", "received"
  cancel,     \* the proxy_cancel message: "none", "sent", "received"
  probe,      \* "none", "probing", "canceled", "live", "error", "invalid" (the address)
  proxy,      \* "up", "unset", "killed", "closed"
  crashed     \* has hive crashed?

startVars == <<at, checked, container, portOpened, files, attached, broken, waiter, ctxDone>>
checkVars == <<checker, callID, id, callErr, relay, hasStarted, request, cancel, probe>>
vars == <<startVars, checkVars, proxy, crashed>>

TypeOK ==
  /\ at \in [Starts -> Returned \cup
               {"create", "start", "run", "undo", "inspect", "closeFiles", "check", "select",
                "delete", "join"}]
  /\ {checked, portOpened, attached, broken, ctxDone, callErr, hasStarted} \subseteq SUBSET Starts
  /\ container \in [Starts -> {"none", "created", "running", "exited", "removed"}]
  /\ files \in [Starts -> {"none", "open", "closed"}]
  /\ waiter \in [Starts -> {"none", "waiting", "done"}]
  /\ checker \in [Starts -> {"none", "begin", "call", "relayEnd", "done"}]
  /\ callID \in 0 .. Cardinality(Starts)
  /\ id \in [Starts -> 0 .. Cardinality(Starts)]
  /\ relay \in [Starts -> {"none", "watching", "notify", "done"}]
  /\ request \in [Starts -> {"none", "sent", "received"}]
  /\ cancel \in [Starts -> {"none", "sent", "received"}]
  /\ probe \in [Starts -> {"none", "probing", "canceled", "live", "error", "invalid"}]
  /\ proxy \in {"up", "unset", "killed", "closed"}
  /\ crashed \in BOOLEAN

All(x) == [p \in Starts |-> x]

Init ==
  /\ at = All("create") /\ checked \in SUBSET Starts
  /\ container = All("none") /\ portOpened = {}
  /\ files = All("none") /\ attached = {} /\ broken = {} /\ waiter = All("none") /\ ctxDone = {}
  /\ checker = All("none") /\ callID = 0 /\ id = All(0) /\ callErr = {}
  /\ relay = All("none") /\ hasStarted = {}
  /\ request = All("none") /\ cancel = All("none") /\ probe = All("none")
  /\ proxy = "up" /\ crashed = FALSE

Goto(p, stage) == at' = [at EXCEPT ![p] = stage]

-----------------------------------------------------------------------------
(* The handler                                                              *)

\* docker removes the container, whatever its state.
Delete(p) ==
  \/ container' = [container EXCEPT ![p] = "removed"]
  \/ DeleteFaults /\ UNCHANGED container

\* CreateContainer: the container is created and its files uploaded; if that fails
\* it is deleted.
CreateContainer(p) ==
  /\ at[p] = "create"
  /\ \/ Goto(p, "start") /\ container' = [container EXCEPT ![p] = "created"]
     \/ Goto(p, NotCreated) /\ UNCHANGED container
     \/ /\ Goto(p, NotCreated)
        /\ \E state \in {"removed"} \cup IF DeleteFaults THEN {"created"} ELSE {} :
             container' = [container EXCEPT ![p] = state]
  /\ UNCHANGED <<checked, portOpened, files, attached, broken, waiter, ctxDone, checkVars,
                 proxy>>

\* StartContainer asserts that there is a proxy to probe the port.
StartContainer(p) ==
  /\ at[p] = "start"
  /\ Goto(p, IF p \in checked /\ proxy # "up" THEN Panicked ELSE "run")
  /\ UNCHANGED <<checked, container, portOpened, files, attached, broken, waiter, ctxDone,
                 checkVars, proxy>>

\* runContainer opens the log file, attaches and starts the container.  If one of
\* these fails, the files that were opened are closed.  docker may have started the
\* container though the call has failed (by its context, say).
RunContainer(p) ==
  /\ at[p] = "run"
  /\ \/ /\ container[p] = "created"
        /\ container' = [container EXCEPT ![p] = "running"]
        /\ files' = [files EXCEPT ![p] = "open"]
        /\ attached' = attached \cup {p}
        /\ waiter' = [waiter EXCEPT ![p] = "waiting"]
        /\ Goto(p, "inspect")
     \/ /\ \E closed \in {"none", "closed"} : files' = [files EXCEPT ![p] = closed]
        /\ \/ UNCHANGED container
           \/ /\ RunFaults /\ files'[p] = "closed" /\ container[p] = "created"
              /\ container' = [container EXCEPT ![p] = "running"]
        /\ Goto(p, "undo")
        /\ UNCHANGED <<attached, waiter>>
  /\ UNCHANGED <<checked, portOpened, broken, ctxDone, checkVars, proxy>>

\* What could not be run is deleted.
Undo(p) ==
  /\ at[p] = "undo"
  /\ Delete(p)
  /\ Goto(p, NoInfo)
  /\ UNCHANGED <<checked, portOpened, files, attached, broken, waiter, ctxDone, checkVars,
                 proxy>>

Inspect(p) ==
  /\ at[p] = "inspect"
  /\ \/ Goto(p, "check")
     \/ Goto(p, "closeFiles")
  /\ UNCHANGED <<checked, container, portOpened, files, attached, broken, waiter, ctxDone,
                 checkVars, proxy>>

\* The address is unknown: waiter.Close() ends the attachment first.
CloseFiles(p) ==
  /\ at[p] = "closeFiles"
  /\ attached' = attached \ {p}
  /\ files' = [files EXCEPT ![p] = "closed"]
  /\ Goto(p, "delete")
  /\ UNCHANGED <<checked, container, portOpened, broken, waiter, ctxDone, checkVars, proxy>>

StartCheck(p) ==
  /\ at[p] = "check"
  /\ Goto(p, "select")
  /\ IF p \in checked
     THEN checker' = [checker EXCEPT ![p] = "begin"] /\ UNCHANGED hasStarted
     ELSE hasStarted' = hasStarted \cup {p} /\ UNCHANGED checker
  /\ UNCHANGED <<checked, container, portOpened, files, attached, broken, waiter, ctxDone,
                 callID, id, callErr, relay, request, cancel, probe, proxy>>

\* The deferred cancel() of the check's context runs as StartContainer returns.
Return(p, outcome) == Goto(p, outcome) /\ ctxDone' = ctxDone \cup {p}

\* The select over the three events: any that is ready may be taken.
Select_NoTimeout(p) ==
  /\ at[p] = "select"
  /\ \/ p \in hasStarted /\ Return(p, Online)
     \/ waiter[p] = "done" /\ Goto(p, "delete") /\ UNCHANGED ctxDone
  /\ UNCHANGED <<checked, container, portOpened, files, attached, broken, waiter,
                 checkVars, proxy>>
Select(p) ==
  /\ at[p] = "select"
  /\ \/ p \in hasStarted /\ Return(p, Online)
     \/ (waiter[p] = "done" \/ p \in ctxDone) /\ Goto(p, "delete") /\ UNCHANGED ctxDone
  /\ UNCHANGED <<checked, container, portOpened, files, attached, broken, waiter,
                 checkVars, proxy>>

DeleteFailed_NoJoin(p) ==
  /\ at[p] = "delete"
  /\ Delete(p)
  /\ Return(p, Failed)
  /\ UNCHANGED <<checked, portOpened, files, attached, broken, waiter, checkVars, proxy>>
DeleteFailed(p) ==
  /\ at[p] = "delete"
  /\ Delete(p)
  /\ Goto(p, "join")
  /\ UNCHANGED <<checked, portOpened, files, attached, broken, waiter, ctxDone, checkVars,
                 proxy>>

\* info.Wait(): the log files are closed before the start has failed.
Join(p) ==
  /\ at[p] = "join" /\ waiter[p] = "done"
  /\ Return(p, Failed)
  /\ UNCHANGED <<checked, container, portOpened, files, attached, broken, waiter,
                 checkVars, proxy>>

\* The start timeout, or the end of the request.
Timeout(p) ==
  /\ at[p] # "create" /\ p \notin ctxDone
  /\ ctxDone' = ctxDone \cup {p}
  /\ UNCHANGED <<at, checked, container, portOpened, files, attached, broken, waiter,
                 checkVars,
                 proxy>>

\* When the attachment ends, the waiter closes the files and then containerExit.
Waiter_OnTimeout(p) ==
  /\ waiter[p] = "waiting"
  /\ container[p] # "running" \/ p \notin attached \/ p \in ctxDone
  /\ waiter' = [waiter EXCEPT ![p] = "done"]
  /\ files' = [files EXCEPT ![p] = "closed"]
  /\ attached' = attached \ {p}
  /\ UNCHANGED <<at, checked, container, portOpened, broken, ctxDone, checkVars, proxy>>
Waiter(p) ==
  /\ waiter[p] = "waiting"
  /\ container[p] # "running" \/ p \notin attached
  /\ waiter' = [waiter EXCEPT ![p] = "done"]
  /\ files' = [files EXCEPT ![p] = "closed"]
  /\ attached' = attached \ {p}
  /\ UNCHANGED <<at, checked, container, portOpened, broken, ctxDone, checkVars, proxy>>

-----------------------------------------------------------------------------
(* CheckLive in hive                                                        *)

\* The counter is incremented atomically.
NextCallID_NotAtomic == 1
NextCallID == callID + 1

\* The goroutine dereferences b.proxy, which may have been unset since the
\* assertion: a panic of a goroutine of its own ends the process.
CheckLiveBegin(p) ==
  /\ checker[p] = "begin"
  /\ IF proxy = "up"
     THEN /\ checker' = [checker EXCEPT ![p] = "call"]
          /\ callID' = NextCallID /\ id' = [id EXCEPT ![p] = NextCallID]
          /\ relay' = [relay EXCEPT ![p] = "watching"]
          /\ UNCHANGED crashed
     ELSE crashed' = TRUE /\ UNCHANGED <<checker, callID, id, relay>>
  /\ UNCHANGED <<startVars, callErr, hasStarted, request, cancel, probe, proxy>>

\* CallContext sends the message, unless the context is done or the pipe closed.
SendCheck(p) ==
  /\ checker[p] = "call" /\ request[p] = "none" /\ proxy \in {"up", "unset"}
  /\ request' = [request EXCEPT ![p] = "sent"]
  /\ UNCHANGED <<startVars, checker, callID, id, callErr, relay, hasStarted, cancel, probe,
                 proxy>>

Answered(p) == probe[p] \in {"live", "error", "invalid"}

\* The outcomes of CallContext: an answer, or the end of the context or the proxy.
CallOutcome_IgnoresContext(p, err) ==
  Answered(p) /\ err = (probe[p] # "live")
CallOutcome(p, err) ==
  \/ Answered(p) /\ err = (probe[p] # "live")
  \/ (p \in ctxDone \/ proxy \in {"killed", "closed"}) /\ err

\* CallContext returns; the deferred function closes checkDone.
CallReturns(p) ==
  /\ checker[p] = "call"
  /\ \E err \in BOOLEAN :
       /\ CallOutcome(p, err)
       /\ callErr' = IF err THEN callErr \cup {p} ELSE callErr
  /\ checker' = [checker EXCEPT ![p] = "relayEnd"]
  /\ UNCHANGED <<startVars, callID, id, relay, hasStarted, request, cancel, probe, proxy>>

\* The relay takes either event if both are there, the end of the context and that
\* of the call.
Relay(p) ==
  /\ relay[p] = "watching"
  /\ \/ p \in ctxDone /\ relay' = [relay EXCEPT ![p] = "notify"]
     \/ checker[p] = "relayEnd" /\ relay' = [relay EXCEPT ![p] = "done"]
  /\ UNCHANGED <<startVars, checker, callID, id, callErr, hasStarted, request, cancel,
                 probe, proxy>>

RelayNotify(p) ==
  /\ relay[p] = "notify"
  /\ relay' = [relay EXCEPT ![p] = "done"]
  /\ cancel' = IF proxy \in {"up", "unset"} THEN [cancel EXCEPT ![p] = "sent"] ELSE cancel
  /\ UNCHANGED <<startVars, checker, callID, id, callErr, hasStarted, request, probe,
                 proxy>>

\* CheckLive returns once the relay has ended; without an error, hasStarted is closed.
CheckLiveReturns_IgnoresError(p) ==
  /\ checker[p] = "relayEnd" /\ relay[p] = "done"
  /\ checker' = [checker EXCEPT ![p] = "done"]
  /\ hasStarted' = hasStarted \cup {p}
  /\ UNCHANGED <<startVars, callID, id, callErr, relay, request, cancel, probe, proxy>>
CheckLiveReturns(p) ==
  /\ checker[p] = "relayEnd" /\ relay[p] = "done"
  /\ checker' = [checker EXCEPT ![p] = "done"]
  /\ hasStarted' = IF p \in callErr THEN hasStarted ELSE hasStarted \cup {p}
  /\ UNCHANGED <<startVars, callID, id, callErr, relay, request, cancel, probe, proxy>>

-----------------------------------------------------------------------------
(* CheckLive and Cancel in the front-end                                    *)

FrontRuns == proxy \in {"up", "unset"}

\* makeContext registers the probe's cancel function under the ID of the call, and
\* panics if there is one.  An address without an IP (docker may know none when the
\* container is inspected) ends the probe before it begins.
Registered(i) == {p \in Starts : id[p] = i /\ probe[p] = "probing"}
FrontCheckLive(p) ==
  /\ FrontRuns /\ request[p] = "sent"
  /\ request' = [request EXCEPT ![p] = "received"]
  /\ \/ /\ Registered(id[p]) = {}
        /\ \E state \in {"probing", "invalid"} : probe' = [probe EXCEPT ![p] = state]
     \/ Registered(id[p]) # {} /\ probe' = [probe EXCEPT ![p] = "error"]
  /\ UNCHANGED <<startVars, checker, callID, id, callErr, relay, hasStarted, cancel, proxy>>

\* A cancellation of a probe that is not registered does nothing.
FrontCancel(p) ==
  /\ FrontRuns /\ cancel[p] = "sent"
  /\ cancel' = [cancel EXCEPT ![p] = "received"]
  /\ probe' = [q \in Starts |-> IF q \in Registered(id[p]) THEN "canceled" ELSE probe[q]]
  /\ UNCHANGED <<startVars, checker, callID, id, callErr, relay, hasStarted, request,
                 proxy>>

\* A dial succeeds, or the loop sees the cancellation.
Probe(p) ==
  /\ FrontRuns
  /\ \/ /\ probe[p] \in {"probing", "canceled"}
        /\ container[p] = "running" /\ p \in portOpened
        /\ probe' = [probe EXCEPT ![p] = "live"]
     \/ probe[p] = "canceled" /\ probe' = [probe EXCEPT ![p] = "error"]
  /\ UNCHANGED <<startVars, checker, callID, id, callErr, relay, hasStarted, request,
                 cancel, proxy>>

-----------------------------------------------------------------------------
(* The container, its deletion once it is online, and the end of the proxy  *)

PortOpens(p) ==
  /\ container[p] = "running"
  /\ portOpened' = portOpened \cup {p}
  /\ UNCHANGED <<at, checked, container, files, attached, broken, waiter, ctxDone,
                 checkVars, proxy>>

ContainerExits(p) ==
  /\ container[p] = "running"
  /\ container' = [container EXCEPT ![p] = "exited"]
  /\ UNCHANGED <<at, checked, portOpened, files, attached, broken, waiter, ctxDone,
                 checkVars, proxy>>

\* The attachment ends with an error, of its connection or of a write to the log
\* file, though the container runs.
AttachmentBreaks(p) ==
  /\ RunFaults /\ p \in attached /\ container[p] = "running"
  /\ attached' = attached \ {p}
  /\ broken' = broken \cup {p}
  /\ UNCHANGED <<at, checked, container, portOpened, files, waiter, ctxDone, checkVars,
                 proxy>>

\* EndTest, or the end of the simulation.
DeleteContainer(p) ==
  /\ at[p] = Online /\ container[p] # "removed"
  /\ Delete(p)
  /\ UNCHANGED <<at, checked, portOpened, files, attached, broken, waiter, ctxDone,
                 checkVars, proxy>>

\* Close unsets b.proxy, deletes the proxy container and waits for it, and closes
\* the HTTP server, which ends the requests, and the RPC client.
CloseProxy ==
  \/ /\ Closing /\ proxy = "up"
     /\ proxy' = "unset"
     /\ UNCHANGED <<startVars, checkVars>>
  \/ /\ proxy = "unset"
     /\ proxy' = "killed"
     /\ UNCHANGED <<startVars, checkVars>>
  \/ /\ proxy = "killed"
     /\ proxy' = "closed"
     /\ ctxDone' = ctxDone \cup {p \in Starts : at[p] # "create"}
     /\ UNCHANGED <<at, checked, container, portOpened, files, attached, broken, waiter,
                    checkVars>>

Finished ==
  /\ crashed \/ \A p \in Starts : at[p] \in Returned
  /\ UNCHANGED vars

-----------------------------------------------------------------------------

Handler(p) ==
  CreateContainer(p) \/ StartContainer(p) \/ RunContainer(p) \/ Undo(p) \/ Inspect(p)
    \/ CloseFiles(p) \/ StartCheck(p) \/ Select(p) \/ DeleteFailed(p) \/ Join(p)

Checker(p) == SendCheck(p) \/ CallReturns(p) \/ CheckLiveReturns(p)
Relaying(p) == Relay(p) \/ RelayNotify(p)
Front(p) == FrontCheckLive(p) \/ FrontCancel(p) \/ Probe(p)
Environment(p) ==
  PortOpens(p) \/ ContainerExits(p) \/ AttachmentBreaks(p) \/ DeleteContainer(p)

Running(p) ==
  Handler(p) \/ Timeout(p) \/ Waiter(p) \/ Checker(p) \/ Relaying(p) \/ Front(p)
    \/ Environment(p)

Alive(A) == ~crashed /\ A /\ UNCHANGED crashed

Next ==
  \/ \E p \in Starts : Alive(Running(p))
  \/ \E p \in Starts : ~crashed /\ CheckLiveBegin(p)
  \/ Alive(CloseProxy)
  \/ Finished

Spec == Init /\ [][Next]_vars

\* Every goroutine is scheduled, and the start timeout expires.  Nothing is
\* assumed of the container, its port and when hive shuts down.
Fairness ==
  \A p \in Starts :
    /\ WF_vars(Alive(Handler(p)))
    /\ WF_vars(Alive(Timeout(p)))
    /\ WF_vars(Alive(Waiter(p)))
    /\ WF_vars(~crashed /\ CheckLiveBegin(p))
    /\ WF_vars(Alive(Checker(p)))
    /\ WF_vars(Alive(Relaying(p)))
    /\ WF_vars(Alive(FrontCheckLive(p)))
    /\ WF_vars(Alive(FrontCancel(p)))
    /\ WF_vars(Alive(Probe(p)))

FairSpec == Spec /\ Fairness

-----------------------------------------------------------------------------
(* Properties                                                               *)

\* A client reported online has accepted a connection: no timeout, cancellation,
\* exit or end of the proxy is mistaken for an answer of the probe.
OnlineWasReached ==
  \A p \in checked : at[p] = Online => p \in portOpened

\* A probe that has begun is ended without an answer of the port only because its own
\* start was given up: cancellations, which carry nothing but the ID of the call, do
\* not reach the probe of another start, and no two calls have one ID.  (A probe of an
\* address that is not one does not begin.)
CancelReachesOwnProbe ==
  \A p \in Starts : probe[p] \in {"canceled", "error"} => p \in ctxDone

\* The output of a container that runs is recorded until it stops, unless its
\* attachment has broken, or its start has failed and it is to be deleted (or docker
\* has failed to): no timeout and no cancellation ends the record of a live client.
RunningIsLogged ==
  \A p \in Starts :
    container[p] = "running" /\ files[p] # "open" =>
      p \in broken \/ at[p] \in {"undo", "delete", "join", NoInfo, Failed}

\* A start that failed, wherever, leaves nothing: no container, no open log file,
\* no goroutine that still writes to it.
FailedStartCleanedUp ==
  \A p \in Starts : at[p] \in {NotCreated, NoInfo, Failed} =>
    /\ container[p] \in {"none", "removed"}
    /\ files[p] # "open" /\ p \notin attached
    /\ waiter[p] # "waiting"

\* A start returns, even if the container hangs or exits, or the probe is never
\* answered (or hive has crashed: the proxy was closed).
StartReturns == \A p \in Starts : at[p] = "start" ~> at[p] \in Returned \/ crashed

\* When a start is over and its container gone, its goroutines end: waiter,
\* checker and relay.
GoroutinesEnd ==
  \A p \in Starts :
    at[p] \in Returned /\ container[p] \in {"exited", "removed"} ~>
      \/ crashed
      \/ /\ waiter[p] # "waiting"
         /\ checker[p] \in {"none", "done"}
         /\ relay[p] \in {"none", "done"}
=============================================================================
