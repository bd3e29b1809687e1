--------------------------- MODULE NetworkManager ---------------------------
(***************************************************************************)
(* The docker networks of the test suites: CreateNetwork, RemoveNetwork,   *)
(* ContainerIP, ConnectContainer, DisconnectContainer and PruneNetworks of *)
(* internal/libhive/testmanager.go, called by the network handlers of      *)
(* internal/libhive/api.go, by EndTestSuite and by Terminate.              *)
(*                                                                         *)
(* What TestManager leaves out is here: networkMutex, which these          *)
(* operations hold across calls of the container backend, and the order in *)
(* which they and the end of a suite take it and testSuiteMutex.  What     *)
(* TestManager details (test cases, summary files) is abstract here: the   *)
(* end of a suite may be refused.                                          *)
(*                                                                         *)
(* As in TestManager a goroutine p executes the action at[p] names next,   *)
(* and NAME_xxx is a plausible mistake in NAME.                            *)
(***************************************************************************)
EXTENDS Naturals, FiniteSets

CONSTANTS
  Handlers, Host, None,
  Suites,        \* IDs of test suites, all started
  Names,         \* network names the simulator uses
  Containers,    \* clients, and the simulation container
  MaxNetworks,   \* bound on the number of networks docker creates
  Overlap,       \* may a suite end while a network request is being served?
  Duplicates,    \* does docker create a second network of the same name?
  Faulty         \* may the backend fail, and containers disappear?

ASSUME NetworkAssumption ==
  /\ Host \notin Handlers /\ None \notin Handlers \cup {Host}
  /\ MaxNetworks \in Nat
  /\ Overlap \in BOOLEAN /\ Duplicates \in BOOLEAN /\ Faulty \in BOOLEAN

Procs == Handlers \cup {Host}
\* The IDs of the networks docker creates; 0 is none.
Networks == 1 .. MaxNetworks
NoNetwork == 0

Call == {"ip", "connect", "disconnect"}
Stage ==
  { "idle",
    "checkSuite", "lockCreate", "create",                \* CreateNetwork
    "lockRemove", "findRemove", "disconnectAll",         \* RemoveNetwork
    "readLock", "checkSuiteLocked", "call",              \* the Call operations
    "endSuite", "prune", "forget", "move",               \* EndTestSuite
    "terminate", "suites", "done" }                      \* Terminate

VARIABLES
  testSuiteMutex,     \* the holder of the write lock
  networkMutex,       \* [writer |-> holder of the write lock, readers |-> of the read lock]
  runningTestSuites,
  networks,           \* suite -> name -> ID, the map manager.networks
  docker,             \* ID -> the network in docker
  created,            \* the number of networks created
  present,            \* the containers that exist
  at, arg,            \* goroutine -> its next step, its request
  suitesLeft          \* what Terminate's loop has not visited

vars == <<testSuiteMutex, networkMutex, runningTestSuites, networks, docker, created,
          present, at, arg, suitesLeft>>

\* A network in docker: which suite and name it was made for, who is attached.
DockerNetwork ==
  [exists: BOOLEAN, suite: Suites \cup {None}, name: Names \cup {None},
   attached: SUBSET Containers]
NoDocker == [exists |-> FALSE, suite |-> None, name |-> None, attached |-> {}]

\* A request: its suite, network name, container and operation, the network ID
\* found, the containers RemoveNetwork has yet to disconnect, and for
\* PruneNetworks the names to visit and those whose removal failed.
Args ==
  [suite: Suites \cup {None}, name: Names \cup {None}, container: Containers \cup {None},
   op: Call \cup {"none", "create", "remove", "endSuite"}, id: Networks \cup {NoNetwork},
   toDisconnect: SUBSET Containers, left: SUBSET Names, failed: SUBSET Names]
Request(s, name, c, op) ==
  [suite |-> s, name |-> name, container |-> c, op |-> op, id |-> NoNetwork,
   toDisconnect |-> {}, left |-> {}, failed |-> {}]
NoArgs == Request(None, None, None, "none")

TypeOK ==
  /\ testSuiteMutex \in Procs \cup {None}
  /\ networkMutex \in [writer: Procs \cup {None}, readers: SUBSET Procs]
  /\ runningTestSuites \subseteq Suites
  /\ networks \in [Suites -> [Names -> Networks \cup {NoNetwork}]]
  /\ docker \in [Networks -> DockerNetwork]
  /\ created \in 0 .. MaxNetworks
  /\ present \subseteq Containers
  /\ at \in [Procs -> Stage] /\ arg \in [Procs -> Args]
  /\ suitesLeft \subseteq Suites

Init ==
  /\ testSuiteMutex = None
  /\ networkMutex = [writer |-> None, readers |-> {}]
  /\ runningTestSuites = Suites
  /\ networks = [s \in Suites |-> [x \in Names |-> NoNetwork]]
  /\ docker = [i \in Networks |-> NoDocker]
  /\ created = 0
  /\ present = Containers
  /\ at = [p \in Procs |-> "idle"]
  /\ arg = [p \in Procs |-> NoArgs]
  /\ suitesLeft = {}

-----------------------------------------------------------------------------

Goto(p, stage) == at' = [at EXCEPT ![p] = stage]
GotoWith(p, stage, a) == Goto(p, stage) /\ arg' = [arg EXCEPT ![p] = a]
Reply(p) == GotoWith(p, "idle", NoArgs)

\* networkMutex is a read-write lock.  Only its write lock is taken with no
\* reader; a goroutine holds it at most once.
Lock(p) ==
  /\ networkMutex.writer = None /\ networkMutex.readers = {}
  /\ networkMutex' = [networkMutex EXCEPT !.writer = p]
Unlock == networkMutex' = [networkMutex EXCEPT !.writer = None]
RLock(p) ==
  /\ networkMutex.writer = None
  /\ networkMutex' = [networkMutex EXCEPT !.readers = @ \cup {p}]
RUnlock(p) == networkMutex' = [networkMutex EXCEPT !.readers = @ \ {p}]

SuiteMutexFree == testSuiteMutex = None
Recorded(s) == {x \in Names : networks[s][x] # NoNetwork}

\* Is p serving a request of the kinds in ops?
Serving(p, ops) == arg[p].op \in ops

\* A request arrives.  requestSuite checks that its suite is running.  Without
\* Overlap the simulator ends a suite after its other requests were answered.
Receive(p) ==
  /\ at[p] = "idle" /\ at[Host] = "idle" /\ SuiteMutexFree
  /\ \E s \in runningTestSuites :
       \/ \E x \in Names : GotoWith(p, "checkSuite", Request(s, x, None, "create"))
       \/ \E x \in Names : GotoWith(p, "lockRemove", Request(s, x, None, "remove"))
       \/ \E x \in Names, c \in Containers, op \in Call :
            GotoWith(p, "readLock", Request(s, x, c, op))
       \/ /\ Overlap \/ \A q \in Handlers : at[q] = "idle"
          /\ GotoWith(p, "endSuite", Request(s, None, None, "endSuite"))
  /\ Overlap \/ \A q \in Handlers : ~Serving(q, {"endSuite"})
  /\ UNCHANGED <<testSuiteMutex, networkMutex, runningTestSuites, networks, docker,
                 created, present, suitesLeft>>

-----------------------------------------------------------------------------
(* CreateNetwork                                                            *)

\* The suite is checked before networkMutex is taken.
CheckSuite(p) ==
  /\ at[p] = "checkSuite" /\ SuiteMutexFree
  /\ IF arg[p].suite \in runningTestSuites
     THEN Goto(p, "lockCreate") /\ UNCHANGED arg
     ELSE Reply(p)
  /\ UNCHANGED <<testSuiteMutex, networkMutex, runningTestSuites, networks, docker,
                 created, present, suitesLeft>>

LockCreate(p) ==
  /\ at[p] = "lockCreate" /\ Lock(p)
  /\ Goto(p, "create")
  /\ UNCHANGED <<testSuiteMutex, runningTestSuites, networks, docker, created, arg,
                 present, suitesLeft>>

\* Does docker refuse to create the network?  (MaxNetworks bounds the model.)
Refused(s, x) ==
  \/ created = MaxNetworks
  \/ ~Duplicates /\ \E i \in Networks : /\ docker[i].exists
                                        /\ docker[i].suite = s /\ docker[i].name = x

\* What the backend's CreateNetwork returns of network i, named x.
CreatedID(i, x) == i

\* The backend creates the network, its ID is recorded, the lock is released.
Create(p) ==
  LET s == arg[p].suite
      x == arg[p].name
      i == created + 1
  IN /\ at[p] = "create"
     /\ \/ /\ ~Refused(s, x)
           /\ created' = i
           /\ docker' = [docker EXCEPT ![i] = [exists |-> TRUE, suite |-> s, name |-> x,
                                                attached |-> {}]]
           /\ networks' = [networks EXCEPT ![s][x] = CreatedID(i, x)]
        \/ /\ Refused(s, x) \/ Faulty
           /\ UNCHANGED <<created, docker, networks>>
     /\ Unlock
     /\ Reply(p)
     /\ UNCHANGED <<testSuiteMutex, runningTestSuites, present, suitesLeft>>

-----------------------------------------------------------------------------
(* RemoveNetwork, for a request or as one iteration of PruneNetworks        *)

LockRemove(p) ==
  /\ at[p] = "lockRemove" /\ Lock(p)
  /\ Goto(p, "findRemove")
  /\ UNCHANGED <<testSuiteMutex, runningTestSuites, networks, docker, created, arg,
                 present, suitesLeft>>

\* The unlock of RemoveNetwork, which is deferred: it is made on an error too.
Release_NotOnError(failed) == IF failed THEN UNCHANGED networkMutex ELSE Unlock
Release(failed) == Unlock

\* The deferred unlock, then back to the handler or to PruneNetworks' loop, which
\* collects the error.
RemoveReturns(p, failed) ==
  /\ Release(failed)
  /\ IF Serving(p, {"endSuite"})
     THEN GotoWith(p, "prune", [arg[p] EXCEPT
            !.name = None, !.id = NoNetwork, !.toDisconnect = {},
            !.failed = IF failed THEN @ \cup {arg[p].name} ELSE @])
     ELSE Reply(p)

\* The network is looked up, and the backend asks docker for its containers.
FindRemove(p) ==
  LET i == networks[arg[p].suite][arg[p].name]
  IN /\ at[p] = "findRemove"
     /\ \/ /\ i # NoNetwork
           /\ GotoWith(p, "disconnectAll",
                [arg[p] EXCEPT !.id = i, !.toDisconnect = docker[i].attached])
           /\ UNCHANGED networkMutex
        \/ (i = NoNetwork \/ Faulty) /\ RemoveReturns(p, TRUE)
     /\ UNCHANGED <<testSuiteMutex, runningTestSuites, networks, docker, created,
                    present, suitesLeft>>

\* Disconnecting a container that has disappeared meanwhile is an error, which
\* leaves the network where it is, and in the map.
DisconnectNext(p) ==
  LET i == arg[p].id
  IN /\ at[p] = "disconnectAll"
     /\ \E c \in arg[p].toDisconnect :
          \/ /\ c \in docker[i].attached
             /\ docker' = [docker EXCEPT ![i].attached = @ \ {c}]
             /\ arg' = [arg EXCEPT ![p].toDisconnect = @ \ {c}]
             /\ UNCHANGED <<at, networkMutex>>
          \/ /\ c \notin docker[i].attached \/ Faulty
             /\ RemoveReturns(p, TRUE)
             /\ UNCHANGED docker
     /\ UNCHANGED <<testSuiteMutex, runningTestSuites, networks, created, present, suitesLeft>>

\* The network is removed from docker, then from the map.
Forgotten_Never(s, x) == networks
Forgotten(s, x) == [networks EXCEPT ![s][x] = NoNetwork]
RemoveIt_ForgetsFirst(p) ==
  LET i == arg[p].id
  IN /\ at[p] = "disconnectAll" /\ arg[p].toDisconnect = {}
     /\ networks' = Forgotten(arg[p].suite, arg[p].name)
     /\ \/ /\ docker' = [docker EXCEPT ![i] = NoDocker]
           /\ RemoveReturns(p, FALSE)
        \/ /\ Faulty
           /\ RemoveReturns(p, TRUE)
           /\ UNCHANGED docker
     /\ UNCHANGED <<testSuiteMutex, runningTestSuites, created, present, suitesLeft>>
RemoveIt(p) ==
  LET i == arg[p].id
  IN /\ at[p] = "disconnectAll" /\ arg[p].toDisconnect = {}
     /\ \/ /\ docker' = [docker EXCEPT ![i] = NoDocker]
           /\ networks' = Forgotten(arg[p].suite, arg[p].name)
           /\ RemoveReturns(p, FALSE)
        \/ /\ Faulty
           /\ RemoveReturns(p, TRUE)
           /\ UNCHANGED <<docker, networks>>
     /\ UNCHANGED <<testSuiteMutex, runningTestSuites, created, present, suitesLeft>>

-----------------------------------------------------------------------------
(* ContainerIP, ConnectContainer, DisconnectContainer                       *)

ReadLock(p) ==
  /\ at[p] = "readLock" /\ RLock(p)
  /\ Goto(p, "checkSuiteLocked")
  /\ UNCHANGED <<testSuiteMutex, runningTestSuites, networks, docker, created, arg,
                 present, suitesLeft>>

\* IsTestSuiteRunning takes testSuiteMutex while networkMutex is held; then the
\* network is looked up.  An ip request that names docker's own network "bridge" is
\* not about the map: docker answers it, which changes nothing.
CheckSuiteLocked_Unlocks(p) ==
  LET s == arg[p].suite
      i == networks[s][arg[p].name]
  IN /\ at[p] = "checkSuiteLocked" /\ SuiteMutexFree
     /\ RUnlock(p)
     /\ \/ /\ s \in runningTestSuites /\ i # NoNetwork
           /\ GotoWith(p, "call", [arg[p] EXCEPT !.id = i])
        \/ /\ s \notin runningTestSuites \/ i = NoNetwork \/ arg[p].op = "ip"
           /\ Reply(p)
     /\ UNCHANGED <<testSuiteMutex, runningTestSuites, networks, docker, created,
                    present, suitesLeft>>
CheckSuiteLocked(p) ==
  LET s == arg[p].suite
      i == networks[s][arg[p].name]
  IN /\ at[p] = "checkSuiteLocked" /\ SuiteMutexFree
     /\ \/ /\ s \in runningTestSuites /\ i # NoNetwork
           /\ GotoWith(p, "call", [arg[p] EXCEPT !.id = i]) /\ UNCHANGED networkMutex
        \/ /\ s \notin runningTestSuites \/ i = NoNetwork \/ arg[p].op = "ip"
           /\ Reply(p) /\ RUnlock(p)
     /\ UNCHANGED <<testSuiteMutex, runningTestSuites, networks, docker, created,
                    present, suitesLeft>>

\* The call of the backend, and the deferred unlock.
CallBackend_Retries(p) ==
  LET i == arg[p].id
      c == arg[p].container
      Attached(S) == docker' = [docker EXCEPT ![i].attached = S]
  IN \/ /\ at[p] = "call"
        /\ \/ /\ arg[p].op = "connect" /\ docker[i].exists /\ c \in present
              /\ Attached(docker[i].attached \cup {c})
           \/ /\ arg[p].op = "disconnect"
              /\ Attached(docker[i].attached \ {c})
        /\ RUnlock(p) /\ Reply(p)
        /\ UNCHANGED <<testSuiteMutex, runningTestSuites, networks, created, present,
                       suitesLeft>>
     \/ /\ at[p] = "call" /\ (Faulty \/ arg[p].op = "ip" \/ c \notin present)
        /\ UNCHANGED vars
CallBackend(p) ==
  LET i == arg[p].id
      c == arg[p].container
      Attached(S) == docker' = [docker EXCEPT ![i].attached = S]
  IN /\ at[p] = "call"
     /\ \/ /\ arg[p].op = "connect" /\ docker[i].exists /\ c \in present
           /\ Attached(docker[i].attached \cup {c})
        \/ /\ arg[p].op = "disconnect"
           /\ Attached(docker[i].attached \ {c})
        \/ /\ Faulty \/ arg[p].op = "ip" \/ c \notin present
           /\ UNCHANGED docker
     /\ RUnlock(p) /\ Reply(p)
     /\ UNCHANGED <<testSuiteMutex, runningTestSuites, networks, created, present,
                    suitesLeft>>

\* Does p end a suite, or terminate the simulation?
EndsSuites(p) == Serving(p, {"endSuite"}) \/ (p = Host /\ at[p] # "idle")

\* A container is deleted, or disappears by itself.  Without Overlap the tests of a
\* suite are over before it ends, and no container disappears while it ends.
DeleteContainer(c) ==
  /\ c \in present
  /\ Overlap \/ \A p \in Procs : ~EndsSuites(p)
  /\ present' = present \ {c}
  /\ docker' = [i \in Networks |-> [docker[i] EXCEPT !.attached = @ \ {c}]]
  /\ UNCHANGED <<testSuiteMutex, networkMutex, runningTestSuites, networks, created,
                 at, arg, suitesLeft>>

-----------------------------------------------------------------------------
(* The end of a suite                                                       *)

EndSuiteReturns(p) ==
  IF p = Host THEN Goto(p, "suites") /\ UNCHANGED <<testSuiteMutex, arg>>
              ELSE Reply(p) /\ testSuiteMutex' = None

\* doEndSuite up to the write of the summary file, which may refuse to go on.
EndSuite(p) ==
  /\ at[p] = "endSuite"
  /\ p # Host => SuiteMutexFree
  /\ \/ /\ arg[p].suite \in runningTestSuites
        /\ testSuiteMutex' = p
        /\ GotoWith(p, "prune", [arg[p] EXCEPT !.left = Recorded(arg[p].suite)])
     \/ EndSuiteReturns(p)
  /\ UNCHANGED <<networkMutex, runningTestSuites, networks, docker, created, present,
                 suitesLeft>>

\* PruneNetworks' loop reads the map without networkMutex: a network recorded
\* meanwhile may be visited or not, one that was removed is not.
Prune_SkipsLast(p) ==
  LET recorded == Recorded(arg[p].suite)
  IN /\ at[p] = "prune"
     /\ \/ /\ Cardinality(recorded) > 1
           /\ \E x \in recorded \ arg[p].failed :
                GotoWith(p, "lockRemove", [arg[p] EXCEPT !.name = x, !.left = @ \ {x}])
        \/ Cardinality(recorded) <= 1 /\ Goto(p, "forget") /\ UNCHANGED arg
     /\ UNCHANGED <<testSuiteMutex, networkMutex, runningTestSuites, networks, docker,
                    created, present, suitesLeft>>
Prune(p) ==
  LET recorded == Recorded(arg[p].suite)
  IN /\ at[p] = "prune"
     /\ \/ \E x \in recorded \ arg[p].failed :
             GotoWith(p, "lockRemove", [arg[p] EXCEPT !.name = x, !.left = @ \ {x}])
        \/ /\ arg[p].left \cap recorded = {}
           /\ Goto(p, "forget") /\ UNCHANGED arg
     /\ UNCHANGED <<testSuiteMutex, networkMutex, runningTestSuites, networks, docker,
                    created, present, suitesLeft>>

\* The suite's map is deleted, under networkMutex.
Forget(p) ==
  /\ at[p] = "forget" /\ networkMutex.writer = None /\ networkMutex.readers = {}
  /\ networks' = [networks EXCEPT ![arg[p].suite] = [x \in Names |-> NoNetwork]]
  /\ Goto(p, "move")
  /\ UNCHANGED <<testSuiteMutex, networkMutex, runningTestSuites, docker, created,
                 present, arg, suitesLeft>>

MoveToResults(p) ==
  /\ at[p] = "move"
  /\ runningTestSuites' = runningTestSuites \ {arg[p].suite}
  /\ EndSuiteReturns(p)
  /\ UNCHANGED <<networkMutex, networks, docker, created, present, suitesLeft>>

\* The API server is closed, which does not wait for the handlers.
Shutdown ==
  /\ at[Host] = "idle"
  /\ Overlap \/ \A p \in Handlers : at[p] = "idle"
  /\ Goto(Host, "terminate")
  /\ UNCHANGED <<testSuiteMutex, networkMutex, runningTestSuites, networks, docker,
                 created, present, arg, suitesLeft>>

TerminateBegin ==
  /\ at[Host] = "terminate" /\ SuiteMutexFree
  /\ testSuiteMutex' = Host
  /\ suitesLeft' = runningTestSuites
  /\ Goto(Host, "suites")
  /\ UNCHANGED <<networkMutex, runningTestSuites, networks, docker, created, present,
                 arg>>

\* One iteration of Terminate's loop, or its end.
TerminateSuite ==
  /\ at[Host] = "suites"
  /\ \/ \E s \in suitesLeft :
          /\ suitesLeft' = suitesLeft \ {s}
          /\ GotoWith(Host, "endSuite", Request(s, None, None, "endSuite"))
          /\ UNCHANGED testSuiteMutex
     \/ /\ suitesLeft = {}
        /\ GotoWith(Host, "done", NoArgs)
        /\ testSuiteMutex' = None
        /\ UNCHANGED suitesLeft
  /\ UNCHANGED <<networkMutex, runningTestSuites, networks, docker, created, present>>

Finished ==
  /\ at[Host] = "done" /\ \A p \in Handlers : at[p] = "idle"
  /\ UNCHANGED vars

-----------------------------------------------------------------------------

Step(p) ==
  \/ CheckSuite(p) \/ LockCreate(p) \/ Create(p)
  \/ LockRemove(p) \/ FindRemove(p) \/ DisconnectNext(p) \/ RemoveIt(p)
  \/ ReadLock(p) \/ CheckSuiteLocked(p) \/ CallBackend(p)
  \/ EndSuite(p) \/ Prune(p) \/ Forget(p) \/ MoveToResults(p)

Terminate == TerminateBegin \/ TerminateSuite

Next ==
  \/ \E p \in Handlers : Receive(p)
  \/ \E p \in Procs : Step(p)
  \/ Shutdown \/ Terminate
  \/ \E c \in Containers : DeleteContainer(c)
  \/ Finished

Spec == Init /\ [][Next]_vars

\* Strong fairness: Go's locks are passed to those who wait for them.
Fairness == (\A p \in Procs : SF_vars(Step(p))) /\ SF_vars(Terminate)
FairSpec == Spec /\ Fairness

-----------------------------------------------------------------------------
(* Properties                                                               *)

\* What the map records is there: no operation, however it fails, leaves the ID
\* of a network in the map that docker has removed.
RecordedNetworkExists ==
  \A s \in Suites : \A x \in Recorded(s) :
    LET i == networks[s][x]
    IN docker[i].exists /\ docker[i].suite = s /\ docker[i].name = x

\* The manager knows every network of a running suite, so that the end of the
\* suite will remove it (if docker refuses a second network of the same name).
SuiteNetworksRecorded ==
  \A i \in Networks :
    docker[i].exists /\ docker[i].suite \in runningTestSuites =>
      \/ networks[docker[i].suite][docker[i].name] = i
      \/ \E p \in Procs : at[p] = "move" /\ arg[p].suite = docker[i].suite

\* The network an IP, connect or disconnect request has looked up is still
\* there, and still the one of that name, when docker is called with its ID.
CallTargetExists ==
  \A p \in Procs : at[p] = "call" =>
    LET a == arg[p]
    IN docker[a.id].exists /\ networks[a.suite][a.name] = a.id

\* A suite that has ended has no networks: ending it has removed the "left-over
\* docker networks", and no request creates another.
EndedSuiteHasNoNetwork ==
  \A i \in Networks : docker[i].exists => docker[i].suite \in runningTestSuites

\* p waits for a lock: it cannot go on before another goroutine has.  A read lock
\* also waits for those who wait for the write lock, as Go's RWMutex may have it.
Waits(p) ==
  \/ at[p] \in {"checkSuite", "checkSuiteLocked", "terminate"} /\ ~SuiteMutexFree
  \/ at[p] = "endSuite" /\ p # Host /\ ~SuiteMutexFree
  \/ /\ at[p] \in {"lockCreate", "lockRemove", "forget"}
     /\ networkMutex.writer # None \/ networkMutex.readers # {}
  \/ /\ at[p] = "readLock"
     /\ \/ networkMutex.writer # None
        \/ \E q \in Procs : at[q] \in {"lockCreate", "lockRemove", "forget"}
Busy(p) == at[p] \notin {"idle", "done"}
Deadlock == (\E p \in Procs : Busy(p)) /\ \A p \in Procs : Busy(p) => Waits(p)

\* Two goroutines took the two locks in opposite orders: one ends a suite and needs
\* networkMutex, the other serves an ip, connect or disconnect request.
Inverted ==
  \E p, q \in Procs :
    /\ testSuiteMutex = p /\ at[p] \in {"lockRemove", "forget"}
    /\ q \in networkMutex.readers /\ at[q] = "checkSuiteLocked"

\* The inverted lock order of checkSuiteLocked is the only deadlock there is: in no
\* other way, and after no failure, do all goroutines come to wait for each other.
OnlyInversionDeadlocks == Deadlock => Inverted

\* Every request is answered: networkMutex is released on every path.
RequestsAnswered == \A p \in Handlers : at[p] # "idle" ~> at[p] = "idle"

\* "Terminate forces the termination of any running tests": it returns.
TerminateReturns == at[Host] = "terminate" ~> at[Host] = "done"
=============================================================================
