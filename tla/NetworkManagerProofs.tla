------------------------ MODULE NetworkManagerProofs ------------------------
(***************************************************************************)
(* Theorems about NetworkManager, for every value of its constants: any    *)
(* number of goroutines, suites, names, containers and networks, with or   *)
(* without failures.                                                       *)
(***************************************************************************)
EXTENDS NetworkManager, TLAPS

-----------------------------------------------------------------------------
(* The inductive invariant, in four parts (Tracked is below), each of which *)
(* builds on those before it.                                               *)

\* What a goroutine's request is worth at its stage: it names a suite and, in an
\* operation on a network, a name.
Named == {"checkSuite", "lockCreate", "create", "lockRemove", "findRemove", "disconnectAll",
          "readLock", "checkSuiteLocked", "call"}
Ending == {"endSuite", "prune", "forget", "move"}
Fits(x, a) ==
  /\ x \in Named => a.suite \in Suites /\ a.name \in Names
  /\ x \in Ending => a.suite \in Suites
  /\ a.op = "endSuite" => a.suite \in Suites
Control == \A p \in Procs : Fits(at[p], arg[p])

\* networkMutex is held exactly at these stages, by one writer or by readers.
Exclusive == {"create", "findRemove", "disconnectAll"}
Shared == {"checkSuiteLocked", "call"}
NetworkLock ==
  /\ \A p \in Procs : at[p] \in Exclusive <=> networkMutex.writer = p
  /\ \A p \in Procs : at[p] \in Shared <=> p \in networkMutex.readers
  /\ networkMutex.writer # None => networkMutex.readers = {}

\* The map and docker agree; what a goroutine has looked up under networkMutex
\* is still what the map records; docker's IDs are those handed out so far.
LookedUp(p) ==
  /\ arg[p].id \in Networks
  /\ networks[arg[p].suite][arg[p].name] = arg[p].id
Agree ==
  /\ RecordedNetworkExists
  /\ \A p \in Procs : at[p] \in {"call", "disconnectAll"} => LookedUp(p)
  /\ \A i \in Networks : docker[i].exists => i <= created

TypeInv == TypeOK /\ Control

-----------------------------------------------------------------------------
(* Types and requests                                                       *)

LEMMA StageType ==
  /\ Named \subseteq Stage /\ Ending \subseteq Stage
  /\ {"idle", "terminate", "suites", "done"} \subseteq Stage
  BY DEF Named, Ending, Stage

\* The changes that the code makes to a request.
LEMMA ArgsType ==
  /\ NoArgs \in Args /\ NoArgs.op = "none"
  /\ \A s \in Suites, x \in Names \cup {None}, c \in Containers \cup {None},
        op \in Call \cup {"create", "remove", "endSuite"} :
       Request(s, x, c, op) \in Args /\ Request(s, x, c, op).suite = s
                                     /\ Request(s, x, c, op).name = x
  /\ \A a \in Args : /\ a.suite \in Suites \cup {None} /\ a.name \in Names \cup {None}
                     /\ a.container \in Containers \cup {None}
                     /\ a.id \in Networks \cup {NoNetwork} /\ a.toDisconnect \in SUBSET Containers
                     /\ a.left \in SUBSET Names /\ a.failed \in SUBSET Names
  BY DEF Args, Request, NoArgs, Call

LEMMA ArgsSetID ==
  ASSUME NEW a \in Args, NEW i \in Networks \cup {NoNetwork}
  PROVE  /\ [a EXCEPT !.id = i] \in Args
         /\ [a EXCEPT !.id = i].suite = a.suite /\ [a EXCEPT !.id = i].name = a.name
         /\ [a EXCEPT !.id = i].id = i /\ [a EXCEPT !.id = i].op = a.op
  BY DEF Args

LEMMA ArgsDisconnect ==
  ASSUME NEW a \in Args, NEW S \in SUBSET Containers
  PROVE  /\ [a EXCEPT !.toDisconnect = S] \in Args
         /\ [a EXCEPT !.toDisconnect = S].suite = a.suite
         /\ [a EXCEPT !.toDisconnect = S].name = a.name
         /\ [a EXCEPT !.toDisconnect = S].id = a.id
         /\ [a EXCEPT !.toDisconnect = S].op = a.op
  BY DEF Args

LEMMA ArgsCollect ==
  ASSUME NEW a \in Args, NEW F \in SUBSET Names
  PROVE  LET b == [a EXCEPT !.name = None, !.id = NoNetwork, !.toDisconnect = {}, !.failed = F]
         IN b \in Args /\ b.suite = a.suite /\ b.op = a.op /\ b.left = a.left /\ b.failed = F
  BY DEF Args

\* A goroutine moves on, with a request that fits its new stage.
LEMMA Move ==
  ASSUME TypeInv, NEW p \in Procs, NEW x \in Stage, NEW a \in Args, Fits(x, a),
         at' = [at EXCEPT ![p] = x], arg' = [arg EXCEPT ![p] = a]
  PROVE  at' \in [Procs -> Stage] /\ arg' \in [Procs -> Args] /\ Control'
<1>1. at' \in [Procs -> Stage] /\ arg' \in [Procs -> Args]
  BY DEF TypeInv, TypeOK
<1>2. \A q \in Procs : Fits(at'[q], arg'[q])
  BY DEF TypeInv, TypeOK, Control
<1> QED
  BY <1>1, <1>2 DEF Control, Fits
LEMMA MoveOnly ==
  ASSUME TypeInv, NEW p \in Procs, NEW x \in Stage, Fits(x, arg[p]), Goto(p, x), UNCHANGED arg
  PROVE  at' \in [Procs -> Stage] /\ arg' \in [Procs -> Args] /\ Control'
<1>1. arg[p] \in Args /\ arg' = [arg EXCEPT ![p] = arg[p]]
  BY DEF TypeInv, TypeOK
<1> QED
  BY <1>1, Move DEF Goto
LEMMA MoveReply ==
  ASSUME TypeInv, NEW p \in Procs, Reply(p)
  PROVE  at' \in [Procs -> Stage] /\ arg' \in [Procs -> Args] /\ Control'
<1>1. Fits("idle", NoArgs)
  BY ArgsType DEF Fits, Named, Ending
<1> QED
  BY <1>1, ArgsType, StageType, Move DEF Reply, GotoWith, Goto

\* The locks and the networks, as far as their types go.
LEMMA LockType ==
  ASSUME TypeOK, NEW p \in Procs
  PROVE  /\ Lock(p) \/ Unlock \/ RLock(p) \/ RUnlock(p) =>
              networkMutex' \in [writer: Procs \cup {None}, readers: SUBSET Procs]
         /\ networkMutex.readers \subseteq Procs /\ networkMutex.writer \in Procs \cup {None}
  BY DEF TypeOK, Lock, Unlock, RLock, RUnlock

LEMMA DockerType ==
  /\ NoDocker \in DockerNetwork /\ ~NoDocker.exists
  /\ \A s \in Suites, x \in Names :
       [exists |-> TRUE, suite |-> s, name |-> x, attached |-> {}] \in DockerNetwork
  /\ \A d \in DockerNetwork, S \in SUBSET Containers :
       /\ [d EXCEPT !.attached = S] \in DockerNetwork
       /\ [d EXCEPT !.attached = S].exists = d.exists
       /\ [d EXCEPT !.attached = S].suite = d.suite
       /\ [d EXCEPT !.attached = S].name = d.name
  /\ \A d \in DockerNetwork : d.attached \in SUBSET Containers
  BY DEF DockerNetwork, NoDocker
LEMMA TypeInit == Init => TypeInv
<1> SUFFICES ASSUME Init PROVE TypeInv
  OBVIOUS
<1>1. Control
  BY ArgsType DEF Init, Control, Fits, Named, Ending
<1> QED
  BY <1>1, ArgsType, StageType, DockerType, NetworkAssumption
  DEF Init, TypeInv, TypeOK, Procs, Networks, NoNetwork

\* RemoveNetwork returns, to its request or to PruneNetworks.
LEMMA RemoveReturnsType ==
  ASSUME TypeInv, NEW p \in Procs, NEW failed \in BOOLEAN, at[p] \in Named,
         RemoveReturns(p, failed)
  PROVE  /\ at' \in [Procs -> Stage] /\ arg' \in [Procs -> Args] /\ Control'
         /\ networkMutex' \in [writer: Procs \cup {None}, readers: SUBSET Procs]
<1>0. arg[p] \in Args /\ arg[p].suite \in Suites /\ arg[p].name \in Names
  BY DEF TypeInv, TypeOK, Control, Fits
<1>1. CASE Serving(p, {"endSuite"})
  <2> DEFINE F == IF failed THEN arg[p].failed \cup {arg[p].name} ELSE arg[p].failed
             a == [arg[p] EXCEPT !.name = None, !.id = NoNetwork, !.toDisconnect = {}, !.failed = F]
  <2>1. F \in SUBSET Names
    BY <1>0, ArgsType
  <2>2. a \in Args /\ a.suite = arg[p].suite
    <3> HIDE DEF F
    <3> QED
      BY <1>0, <2>1, ArgsCollect
  <2>3. Fits("prune", a)
    BY <1>0, <2>2 DEF Fits, Named, Ending
  <2>4. GotoWith(p, "prune", a)
    BY <1>0, <1>1 DEF RemoveReturns, Release
  <2> HIDE DEF a
  <2> QED
    BY <2>2, <2>3, <2>4, Move, StageType, LockType
    DEF GotoWith, Goto, Ending, RemoveReturns, Release, TypeInv
<1>2. CASE ~Serving(p, {"endSuite"})
  BY <1>2, MoveReply, LockType DEF RemoveReturns, Release, TypeInv
<1> QED
  BY <1>1, <1>2

LEMMA TypeNext == TypeInv /\ [Next]_vars => TypeInv'
<1> SUFFICES ASSUME TypeInv, [Next]_vars PROVE TypeInv'
  OBVIOUS
<1>0. TypeOK /\ Control /\ Host \in Procs /\ Handlers \subseteq Procs
  BY DEF TypeInv, Procs
<1>1. ASSUME at' \in [Procs -> Stage] /\ arg' \in [Procs -> Args] /\ Control',
             networkMutex' \in [writer: Procs \cup {None}, readers: SUBSET Procs],
             testSuiteMutex' \in Procs \cup {None},
             runningTestSuites' \subseteq Suites, suitesLeft' \subseteq Suites,
             networks' \in [Suites -> [Names -> Networks \cup {NoNetwork}]],
             docker' \in [Networks -> DockerNetwork],
             created' \in 0 .. MaxNetworks, present' \subseteq Containers
      PROVE  TypeInv'
  BY <1>1 DEF TypeInv, TypeOK, Procs
<1>2. ASSUME NEW p \in Handlers, Receive(p) PROVE TypeInv'
  <2>1. PICK s \in Suites, y \in Names \cup {None}, c \in Containers \cup {None},
             op \in Call \cup {"create", "remove", "endSuite"},
             x \in {"checkSuite", "lockRemove", "readLock", "endSuite"} :
          /\ GotoWith(p, x, Request(s, y, c, op))
          /\ x # "endSuite" => y \in Names
    BY <1>0, <1>2 DEF Receive, TypeOK
  <2>2. Fits(x, Request(s, y, c, op)) /\ x \in Stage /\ p \in Procs
    <3>1. Request(s, y, c, op).suite = s /\ Request(s, y, c, op).name = y
      BY DEF Request
    <3>2. Fits(x, Request(s, y, c, op))
      BY <2>1, <3>1 DEF Fits, Named, Ending
    <3> QED
      BY <1>0, <3>2, StageType DEF Named, Ending
  <2>3. at' \in [Procs -> Stage] /\ arg' \in [Procs -> Args] /\ Control'
    BY <2>1, <2>2, ArgsType, Move DEF GotoWith, Goto
  <2> QED
    BY <1>0, <1>1, <1>2, <2>3 DEF Receive, TypeOK
<1>3. ASSUME NEW p \in Procs, Step(p) PROVE TypeInv'
  <2>0. arg[p] \in Args /\ Fits(at[p], arg[p])
        /\ (at[p] \in Named => arg[p].suite \in Suites /\ arg[p].name \in Names)
        /\ (at[p] \in Ending => arg[p].suite \in Suites)
    BY <1>0 DEF TypeOK, Control, Fits
  <2>1. CASE CheckSuite(p)
    <3>1. at' \in [Procs -> Stage] /\ arg' \in [Procs -> Args] /\ Control'
      BY <2>0, <2>1, MoveOnly, MoveReply, StageType DEF CheckSuite, Fits, Named, Ending
    <3> QED
      BY <1>0, <1>1, <2>1, <3>1 DEF CheckSuite, TypeOK
  <2>2. CASE LockCreate(p) \/ LockRemove(p) \/ ReadLock(p)
    <3>1. PICK x \in Exclusive \cup Shared : Goto(p, x) /\ UNCHANGED arg /\ at[p] \in Named
      BY <2>2 DEF LockCreate, LockRemove, ReadLock, Exclusive, Shared, Named
    <3>2. Fits(x, arg[p]) /\ x \in Stage
      BY <2>0, <3>1, StageType DEF Fits, Named, Ending, Exclusive, Shared
    <3>3. at' \in [Procs -> Stage] /\ arg' \in [Procs -> Args] /\ Control'
      BY <3>1, <3>2, MoveOnly
    <3> QED
      BY <1>0, <1>1, <2>2, <3>3, LockType DEF LockCreate, LockRemove, ReadLock, TypeOK
  <2>3. CASE Create(p)
    <3>1. at' \in [Procs -> Stage] /\ arg' \in [Procs -> Args] /\ Control'
      BY <2>3, MoveReply DEF Create
    <3>2. arg[p].suite \in Suites /\ arg[p].name \in Names
      BY <2>0, <2>3 DEF Create, Named
    <3>3. CASE UNCHANGED <<created, docker, networks>>
      BY <1>0, <1>1, <2>3, <3>1, <3>3, LockType DEF Create, TypeOK
    <3>4. CASE ~UNCHANGED <<created, docker, networks>>
      <4>1. created + 1 \in Networks /\ created' = created + 1
            /\ docker' = [docker EXCEPT ![created + 1] =
                  [exists |-> TRUE, suite |-> arg[p].suite, name |-> arg[p].name, attached |-> {}]]
            /\ networks' = [networks EXCEPT ![arg[p].suite][arg[p].name] = created + 1]
        BY <1>0, <2>3, <3>4, NetworkAssumption
        DEF Create, Refused, CreatedID, TypeOK, Networks
      <4>2. docker' \in [Networks -> DockerNetwork]
        <5> DEFINE d == [exists |-> TRUE, suite |-> arg[p].suite, name |-> arg[p].name,
                         attached |-> {}]
        <5>1. d \in DockerNetwork
          BY <3>2, DockerType
        <5>2. docker' = [docker EXCEPT ![created + 1] = d] /\ docker \in [Networks -> DockerNetwork]
          BY <1>0, <4>1 DEF TypeOK
        <5> HIDE DEF d
        <5> QED
          BY <5>1, <5>2
      <4>3. networks' \in [Suites -> [Names -> Networks \cup {NoNetwork}]]
        BY <1>0, <3>2, <4>1 DEF TypeOK
      <4>4. created' \in 0 .. MaxNetworks
        BY <4>1 DEF Networks
      <4> QED
        BY <1>0, <1>1, <2>3, <3>1, <4>2, <4>3, <4>4, LockType DEF Create, TypeOK
    <3> QED
      BY <3>3, <3>4
  <2>4. CASE FindRemove(p)
    <3>0. at[p] = "findRemove" /\ arg[p].suite \in Suites /\ arg[p].name \in Names
      BY <2>0, <2>4 DEF FindRemove, Named
    <3> DEFINE i == networks[arg[p].suite][arg[p].name]
               a == [arg[p] EXCEPT !.id = i, !.toDisconnect = docker[i].attached]
    <3>1. CASE i # NoNetwork /\ GotoWith(p, "disconnectAll", a) /\ UNCHANGED networkMutex
      <4>1. i \in Networks /\ docker[i].attached \in SUBSET Containers
        <5>1. networks[arg[p].suite] \in [Names -> Networks \cup {NoNetwork}]
          BY <1>0, <3>0 DEF TypeOK
        <5>2. i \in Networks
          BY <3>0, <3>1, <5>1
        <5> HIDE DEF i
        <5>3. docker[i] \in DockerNetwork
          BY <1>0, <5>2 DEF TypeOK
        <5> QED
          BY <5>2, <5>3, DockerType
      <4>2. a \in Args /\ a.suite = arg[p].suite /\ a.name = arg[p].name
        <5> DEFINE S == docker[i].attached
        <5> HIDE DEF i, S
        <5>1. [arg[p] EXCEPT !.id = i, !.toDisconnect = S] \in Args
              /\ [arg[p] EXCEPT !.id = i, !.toDisconnect = S].suite = arg[p].suite
              /\ [arg[p] EXCEPT !.id = i, !.toDisconnect = S].name = arg[p].name
          <6>1. arg[p] \in Args /\ i \in Networks \cup {NoNetwork} /\ S \in SUBSET Containers
            BY <2>0, <4>1 DEF S
          <6> QED
            BY <6>1 DEF Args
        <5> QED
          BY <5>1 DEF S
      <4>3. Fits("disconnectAll", a) /\ "disconnectAll" \in Stage
        BY <3>0, <4>2, StageType DEF Fits, Named, Ending
      <4>4. at' \in [Procs -> Stage] /\ arg' \in [Procs -> Args] /\ Control'
        <5> HIDE DEF a
        <5> QED
          BY <3>1, <4>2, <4>3, Move DEF GotoWith, Goto
      <4> QED
        BY <1>0, <1>1, <2>4, <3>1, <4>4 DEF FindRemove, TypeOK
    <3>2. CASE RemoveReturns(p, TRUE)
      BY <1>0, <1>1, <2>4, <3>0, <3>2, RemoveReturnsType DEF FindRemove, TypeOK, Named
    <3> QED
      BY <2>4, <3>1, <3>2 DEF FindRemove
  <2>5. CASE DisconnectNext(p)
    <3>0. at[p] \in Named
      BY <2>5 DEF DisconnectNext, Named
    <3>1. CASE RemoveReturns(p, TRUE) /\ UNCHANGED docker
      BY <1>0, <1>1, <2>5, <3>0, <3>1, RemoveReturnsType DEF DisconnectNext, TypeOK
    <3>2. ASSUME NEW c \in arg[p].toDisconnect,
                 docker' = [docker EXCEPT ![arg[p].id].attached = @ \ {c}],
                 arg' = [arg EXCEPT ![p].toDisconnect = @ \ {c}],
                 UNCHANGED <<at, networkMutex>>
          PROVE  TypeInv'
      <4>1. docker' \in [Networks -> DockerNetwork]
        <5>1. CASE arg[p].id \in Networks
          <6>1. docker[arg[p].id] \in DockerNetwork
            BY <1>0, <5>1 DEF TypeOK
          <6>2. [docker[arg[p].id] EXCEPT !.attached = @ \ {c}] \in DockerNetwork
            BY <6>1, DockerType
          <6> QED
            BY <1>0, <3>2, <5>1, <6>2 DEF TypeOK
        <5>2. CASE arg[p].id \notin Networks
          BY <1>0, <3>2, <5>2 DEF TypeOK
        <5> QED
          BY <5>1, <5>2
      <4> DEFINE a == [arg[p] EXCEPT !.toDisconnect = @ \ {c}]
      <4>2. a \in Args /\ a.suite = arg[p].suite /\ a.name = arg[p].name /\ a.op = arg[p].op
        BY <2>0, ArgsType, ArgsDisconnect
      <4>3. arg' = [arg EXCEPT ![p] = a] /\ at' = [at EXCEPT ![p] = at[p]] /\ at[p] \in Stage
        BY <1>0, <3>2 DEF TypeOK
      <4>4. Fits(at[p], a)
        BY <2>0, <4>2 DEF Fits
      <4>5. at' \in [Procs -> Stage] /\ arg' \in [Procs -> Args] /\ Control'
        <5> HIDE DEF a
        <5> QED
          BY <4>2, <4>3, <4>4, Move
      <4> QED
        BY <1>0, <1>1, <2>5, <3>2, <4>1, <4>5 DEF DisconnectNext, TypeOK
    <3> QED
      BY <2>5, <3>1, <3>2 DEF DisconnectNext
  <2>6. CASE RemoveIt(p)
    <3>0. at[p] \in Named /\ arg[p].suite \in Suites /\ arg[p].name \in Names
      BY <2>0, <2>6 DEF RemoveIt, Named
    <3>1. PICK failed \in BOOLEAN : RemoveReturns(p, failed)
      BY <2>6 DEF RemoveIt
    <3>2. docker' \in [Networks -> DockerNetwork]
      BY <1>0, <2>6, DockerType DEF RemoveIt, TypeOK
    <3>3. networks' \in [Suites -> [Names -> Networks \cup {NoNetwork}]]
      <4>1. CASE UNCHANGED networks
        BY <1>0, <4>1 DEF TypeOK
      <4>2. CASE networks' = [networks EXCEPT ![arg[p].suite][arg[p].name] = NoNetwork]
        BY <1>0, <3>0, <4>2 DEF TypeOK
      <4> QED
        BY <2>6, <4>1, <4>2 DEF RemoveIt, Forgotten
    <3>4. /\ at' \in [Procs -> Stage] /\ arg' \in [Procs -> Args] /\ Control'
          /\ networkMutex' \in [writer: Procs \cup {None}, readers: SUBSET Procs]
      BY <3>0, <3>1, RemoveReturnsType
    <3> QED
      BY <1>0, <1>1, <2>6, <3>2, <3>3, <3>4 DEF RemoveIt, TypeOK
  <2>7. CASE CheckSuiteLocked(p)
    <3>0. at[p] \in Named /\ arg[p].suite \in Suites /\ arg[p].name \in Names
      BY <2>0, <2>7 DEF CheckSuiteLocked, Named
    <3> DEFINE i == networks[arg[p].suite][arg[p].name]
               a == [arg[p] EXCEPT !.id = i]
    <3>1. i \in Networks \cup {NoNetwork}
      BY <1>0, <3>0 DEF TypeOK
    <3>2. a \in Args /\ a.suite = arg[p].suite /\ a.name = arg[p].name
      BY <2>0, <3>1, ArgsSetID
    <3>3. Fits("call", a) /\ "call" \in Stage
      BY <3>0, <3>2, StageType DEF Fits, Named, Ending
    <3>4. GotoWith(p, "call", a) \/ Reply(p)
      BY <2>7 DEF CheckSuiteLocked
    <3>5. at' \in [Procs -> Stage] /\ arg' \in [Procs -> Args] /\ Control'
      <4> HIDE DEF a
      <4> QED
        BY <3>2, <3>3, <3>4, Move, MoveReply DEF GotoWith, Goto
    <3>6. networkMutex' \in [writer: Procs \cup {None}, readers: SUBSET Procs]
      BY <1>0, <2>7, LockType DEF CheckSuiteLocked, TypeOK
    <3> QED
      BY <1>0, <1>1, <2>7, <3>5, <3>6 DEF CheckSuiteLocked, TypeOK
  <2>8. CASE CallBackend(p)
    <3>1. at' \in [Procs -> Stage] /\ arg' \in [Procs -> Args] /\ Control'
      BY <2>8, MoveReply DEF CallBackend
    <3>2. docker' \in [Networks -> DockerNetwork]
      <4> DEFINE i == arg[p].id
      <4>1. ASSUME NEW S, docker' = [docker EXCEPT ![i].attached = S],
                   S \subseteq docker[i].attached \cup present
            PROVE  docker' \in [Networks -> DockerNetwork]
        <5>1. CASE i \in Networks
          <6>1. docker[i] \in DockerNetwork
            BY <1>0, <5>1 DEF TypeOK
          <6>2. S \in SUBSET Containers
            BY <1>0, <4>1, <6>1, DockerType DEF TypeOK
          <6>3. [docker[i] EXCEPT !.attached = S] \in DockerNetwork
            BY <6>1, <6>2, DockerType
          <6> HIDE DEF i
          <6> QED
            BY <1>0, <4>1, <5>1, <6>3 DEF TypeOK
        <5>2. CASE i \notin Networks
          BY <1>0, <4>1, <5>2 DEF TypeOK
        <5> QED
          BY <5>1, <5>2
      <4>2. CASE UNCHANGED docker
        BY <1>0, <4>2 DEF TypeOK
      <4> QED
        <5>1. \/ UNCHANGED docker
              \/ /\ arg[p].container \in present
                 /\ docker' = [docker EXCEPT ![i].attached = docker[i].attached \cup {arg[p].container}]
              \/ docker' = [docker EXCEPT ![i].attached = docker[i].attached \ {arg[p].container}]
          BY <2>8 DEF CallBackend
        <5>2. /\ docker[i].attached \ {arg[p].container} \subseteq docker[i].attached \cup present
              /\ arg[p].container \in present =>
                   docker[i].attached \cup {arg[p].container} \subseteq docker[i].attached \cup present
          OBVIOUS
        <5> HIDE DEF i
        <5> QED
          BY <4>1, <4>2, <5>1, <5>2
    <3> QED
      BY <1>0, <1>1, <2>8, <3>1, <3>2, LockType DEF CallBackend, TypeOK
  <2>9. CASE EndSuite(p)
    <3>1. at' \in [Procs -> Stage] /\ arg' \in [Procs -> Args] /\ Control'
      <4> DEFINE L == Recorded(arg[p].suite)
                 a == [arg[p] EXCEPT !.left = L]
      <4>0. arg[p].suite \in Suites
        BY <2>0, <2>9 DEF EndSuite, Ending
      <4>1. CASE GotoWith(p, "prune", a)
        <5>1. L \in SUBSET Names
          BY DEF Recorded
        <5>2. a \in Args /\ a.suite = arg[p].suite
          <6> HIDE DEF L
          <6> QED
            BY <2>0, <5>1 DEF Args
        <5>3. Fits("prune", a) /\ "prune" \in Stage
          BY <4>0, <5>2, StageType DEF Fits, Named, Ending
        <5> HIDE DEF a
        <5> QED
          BY <4>1, <5>2, <5>3, Move DEF GotoWith, Goto
      <4>2. CASE EndSuiteReturns(p)
        <5>1. Fits("suites", arg[p]) /\ "suites" \in Stage
          BY <4>0, StageType DEF Fits, Named, Ending
        <5> QED
          BY <4>2, <5>1, MoveOnly, MoveReply DEF EndSuiteReturns
      <4> QED
        BY <2>9, <4>1, <4>2 DEF EndSuite
    <3> QED
      BY <1>0, <1>1, <2>9, <3>1 DEF EndSuite, EndSuiteReturns, TypeOK
  <2>10. CASE Prune(p)
    <3>0. arg[p].suite \in Suites
      BY <2>0, <2>10 DEF Prune, Ending
    <3>1. at' \in [Procs -> Stage] /\ arg' \in [Procs -> Args] /\ Control'
      <4>1. ASSUME NEW x \in Recorded(arg[p].suite),
                   GotoWith(p, "lockRemove", [arg[p] EXCEPT !.name = x, !.left = @ \ {x}])
            PROVE  at' \in [Procs -> Stage] /\ arg' \in [Procs -> Args] /\ Control'
        <5> DEFINE L == arg[p].left \ {x}
                   a == [arg[p] EXCEPT !.name = x, !.left = L]
        <5>1. x \in Names /\ L \in SUBSET Names
          BY <2>0, ArgsType DEF Recorded
        <5>2. a \in Args /\ a.suite = arg[p].suite /\ a.name = x
          <6> HIDE DEF L
          <6> QED
            <7>1. arg[p] \in Args /\ x \in Names
              BY <2>0, <5>1
            <7> QED
              BY <5>1, <7>1 DEF Args
        <5>3. Fits("lockRemove", a) /\ "lockRemove" \in Stage
          BY <3>0, <5>1, <5>2, StageType DEF Fits, Named, Ending
        <5>4. GotoWith(p, "lockRemove", a)
          BY <2>0, <4>1
        <5> HIDE DEF a
        <5> QED
          BY <5>2, <5>3, <5>4, Move DEF GotoWith, Goto
      <4>2. CASE Goto(p, "forget") /\ UNCHANGED arg
        <5>1. Fits("forget", arg[p]) /\ "forget" \in Stage
          BY <3>0, StageType DEF Fits, Named, Ending
        <5> QED
          BY <4>2, <5>1, MoveOnly
      <4> QED
        BY <2>10, <4>1, <4>2 DEF Prune
    <3> QED
      BY <1>0, <1>1, <2>10, <3>1 DEF Prune, TypeOK
  <2>11. CASE Forget(p)
    <3>1. Fits("move", arg[p]) /\ "move" \in Stage /\ arg[p].suite \in Suites
      BY <2>0, <2>11, StageType DEF Forget, Fits, Named, Ending
    <3>2. at' \in [Procs -> Stage] /\ arg' \in [Procs -> Args] /\ Control'
      BY <2>11, <3>1, MoveOnly DEF Forget
    <3> QED
      BY <1>0, <1>1, <2>11, <3>1, <3>2 DEF Forget, TypeOK
  <2>12. CASE MoveToResults(p)
    <3>1. Fits("suites", arg[p]) /\ "suites" \in Stage
      BY <2>0, <2>12, StageType DEF MoveToResults, Fits, Named, Ending
    <3>2. at' \in [Procs -> Stage] /\ arg' \in [Procs -> Args] /\ Control'
      BY <2>12, <3>1, MoveOnly, MoveReply DEF MoveToResults, EndSuiteReturns
    <3> QED
      BY <1>0, <1>1, <2>12, <3>2 DEF MoveToResults, EndSuiteReturns, TypeOK
  <2> QED
    BY <1>3, <2>1, <2>2, <2>3, <2>4, <2>5, <2>6, <2>7, <2>8, <2>9, <2>10, <2>11, <2>12 DEF Step
<1>4. CASE Shutdown \/ TerminateBegin
  <2>1. PICK x \in {"terminate", "suites"} : Goto(Host, x) /\ UNCHANGED arg
    BY <1>4 DEF Shutdown, TerminateBegin
  <2>2. Fits(x, arg[Host]) /\ x \in Stage
    BY <1>0, <2>1, StageType DEF Control, Fits, Named, Ending
  <2>3. at' \in [Procs -> Stage] /\ arg' \in [Procs -> Args] /\ Control'
    BY <1>0, <2>1, <2>2, MoveOnly
  <2> QED
    BY <1>0, <1>1, <1>4, <2>3 DEF Shutdown, TerminateBegin, TypeOK
<1>5. CASE TerminateSuite
  <2>1. ASSUME NEW s \in Suites, GotoWith(Host, "endSuite", Request(s, None, None, "endSuite"))
        PROVE  at' \in [Procs -> Stage] /\ arg' \in [Procs -> Args] /\ Control'
    <3>1. /\ Request(s, None, None, "endSuite") \in Args
          /\ Fits("endSuite", Request(s, None, None, "endSuite")) /\ "endSuite" \in Stage
      BY ArgsType, StageType DEF Fits, Named, Ending
    <3> QED
      BY <1>0, <2>1, <3>1, Move DEF GotoWith, Goto
  <2>2. ASSUME NEW a \in Args, a.op = "none", GotoWith(Host, "done", a)
        PROVE  at' \in [Procs -> Stage] /\ arg' \in [Procs -> Args] /\ Control'
    <3>1. Fits("done", a) /\ "done" \in Stage
      BY <2>2, StageType DEF Fits, Named, Ending
    <3> QED
      BY <1>0, <2>2, <3>1, Move DEF GotoWith, Goto
  <2>3. at' \in [Procs -> Stage] /\ arg' \in [Procs -> Args] /\ Control'
    <3>1. CASE \E s \in suitesLeft : GotoWith(Host, "endSuite", Request(s, None, None, "endSuite"))
      <4>1. PICK s \in suitesLeft : GotoWith(Host, "endSuite", Request(s, None, None, "endSuite"))
        BY <3>1
      <4>2. s \in Suites
        BY <1>0 DEF TypeOK
      <4> QED
        BY <2>1, <4>1, <4>2
    <3>2. CASE GotoWith(Host, "done", NoArgs)
      BY <2>2, <3>2, ArgsType
    <3> QED
      BY <1>5, <3>1, <3>2 DEF TerminateSuite
  <2> QED
    BY <1>0, <1>1, <1>5, <2>3 DEF TerminateSuite, TypeOK
<1>6. ASSUME NEW c \in Containers, DeleteContainer(c) PROVE TypeInv'
  <2>1. docker' \in [Networks -> DockerNetwork]
    <3>1. \A i \in Networks : [docker[i] EXCEPT !.attached = @ \ {c}] \in DockerNetwork
      BY <1>0, DockerType DEF TypeOK
    <3> QED
      BY <1>6, <3>1 DEF DeleteContainer
  <2>2. Control'
    BY <1>0, <1>6 DEF DeleteContainer, Control, Fits
  <2> QED
    BY <1>0, <1>1, <1>6, <2>1, <2>2 DEF DeleteContainer, TypeOK
<1>7. CASE UNCHANGED vars
  <2>1. Control'
    BY <1>0, <1>7 DEF vars, Control, Fits
  <2> QED
    BY <1>0, <1>1, <1>7, <2>1 DEF vars, TypeOK
<1> QED
  BY <1>2, <1>3, <1>4, <1>5, <1>6, <1>7 DEF Next, Terminate, Finished

-----------------------------------------------------------------------------
(* The lock                                                                 *)

LEMMA StageLock ==
  /\ Exclusive \cap Shared = {}
  /\ {"idle", "checkSuite", "lockCreate", "lockRemove", "readLock", "endSuite", "prune",
      "forget", "move", "terminate", "suites", "done"} \cap (Exclusive \cup Shared) = {}
  /\ None \notin Procs
  BY NetworkAssumption DEF Exclusive, Shared, Procs

\* A goroutine moves, and the lock with it.
LEMMA MoveLock ==
  ASSUME TypeInv, NetworkLock, NEW p \in Procs, NEW x, at' = [at EXCEPT ![p] = x],
         \/ /\ UNCHANGED networkMutex
            /\ x \in Exclusive <=> at[p] \in Exclusive
            /\ x \in Shared <=> at[p] \in Shared
         \/ Lock(p) /\ x \in Exclusive
         \/ Unlock /\ at[p] \in Exclusive /\ x \notin Exclusive \cup Shared
         \/ RLock(p) /\ x \in Shared
         \/ RUnlock(p) /\ at[p] \in Shared /\ x \notin Exclusive \cup Shared
  PROVE  NetworkLock'
<1>1. /\ at'[p] = x /\ \A q \in Procs : q # p => at'[q] = at[q]
      /\ p # None /\ None \notin Procs
      /\ ~(x \in Exclusive /\ x \in Shared)
      /\ networkMutex \in [writer: Procs \cup {None}, readers: SUBSET Procs]
  BY StageLock DEF TypeInv, TypeOK
<1>2. CASE UNCHANGED networkMutex /\ (x \in Exclusive <=> at[p] \in Exclusive)
                                  /\ (x \in Shared <=> at[p] \in Shared)
  BY <1>1, <1>2 DEF NetworkLock
<1>3. CASE Lock(p) /\ x \in Exclusive
  <2>1. networkMutex'.writer = p /\ networkMutex'.readers = {} /\ networkMutex.writer = None
    BY <1>1, <1>3 DEF Lock
  <2> QED
    BY <1>1, <1>3, <2>1 DEF NetworkLock, Lock
<1>4. CASE Unlock /\ at[p] \in Exclusive /\ x \notin Exclusive \cup Shared
  <2>1. networkMutex.writer = p /\ networkMutex.readers = {}
    BY <1>1, <1>4 DEF NetworkLock
  <2>2. networkMutex'.writer = None /\ networkMutex'.readers = {}
    BY <1>1, <1>4, <2>1 DEF Unlock
  <2> QED
    BY <1>1, <1>4, <2>1, <2>2 DEF NetworkLock
<1>5. CASE RLock(p) /\ x \in Shared
  <2>1. /\ networkMutex'.writer = None /\ networkMutex.writer = None
        /\ networkMutex'.readers = networkMutex.readers \cup {p}
    BY <1>1, <1>5 DEF RLock
  <2> QED
    BY <1>1, <1>5, <2>1 DEF NetworkLock
<1>6. CASE RUnlock(p) /\ at[p] \in Shared /\ x \notin Exclusive \cup Shared
  <2>1. /\ networkMutex'.writer = networkMutex.writer
        /\ networkMutex'.readers = networkMutex.readers \ {p}
    BY <1>1, <1>6 DEF RUnlock
  <2>2. p \in networkMutex.readers /\ networkMutex.writer = None
    BY <1>1, <1>6 DEF NetworkLock
  <2> QED
    BY <1>1, <1>6, <2>1, <2>2 DEF NetworkLock
<1> QED
  BY <1>2, <1>3, <1>4, <1>5, <1>6

LEMMA LockNext == TypeInv /\ NetworkLock /\ [Next]_vars => NetworkLock'
<1> SUFFICES ASSUME TypeInv, NetworkLock, [Next]_vars PROVE NetworkLock'
  OBVIOUS
<1>0. /\ Host \in Procs /\ Handlers \subseteq Procs
      /\ {"idle", "checkSuite", "lockCreate", "lockRemove", "readLock", "endSuite", "prune",
          "forget", "move", "terminate", "suites", "done"} \cap (Exclusive \cup Shared) = {}
  BY StageLock DEF Procs
<1>1. ASSUME NEW p \in Procs, NEW x, Goto(p, x), UNCHANGED networkMutex,
             at[p] \notin Exclusive \cup Shared, x \notin Exclusive \cup Shared
      PROVE  NetworkLock'
  BY <1>1, MoveLock DEF Goto
<1>2. ASSUME NEW p \in Procs, NEW failed, RemoveReturns(p, failed), at[p] \in Exclusive
      PROVE  NetworkLock'
  <2>1. PICK x \in {"prune", "idle"} : Goto(p, x)
    BY <1>2 DEF RemoveReturns, Release, Reply, GotoWith
  <2> QED
    BY <1>0, <1>2, <2>1, MoveLock DEF RemoveReturns, Release, Goto
<1>3. CASE UNCHANGED <<at, networkMutex>>
  BY <1>3 DEF NetworkLock
<1>4. ASSUME NEW p \in Handlers, Receive(p) PROVE NetworkLock'
  <2>1. PICK x \in {"checkSuite", "lockRemove", "readLock", "endSuite"} : Goto(p, x)
    BY <1>4 DEF Receive, GotoWith
  <2> QED
    BY <1>0, <1>1, <1>4, <2>1 DEF Receive
<1>5. ASSUME NEW p \in Procs, Step(p) PROVE NetworkLock'
  <2>1. CASE CheckSuite(p)
    <3>1. PICK x \in {"lockCreate", "idle"} : Goto(p, x)
      BY <2>1 DEF CheckSuite, Reply, GotoWith
    <3> QED
      BY <1>0, <1>1, <2>1, <3>1 DEF CheckSuite
  <2>2. CASE LockCreate(p) \/ LockRemove(p)
    <3>1. PICK x \in Exclusive : Goto(p, x) /\ Lock(p)
      BY <2>2 DEF LockCreate, LockRemove, Exclusive
    <3> QED
      BY <3>1, MoveLock DEF Goto
  <2>3. CASE Create(p)
    <3>1. Goto(p, "idle") /\ Unlock /\ at[p] \in Exclusive
      BY <2>3 DEF Create, Reply, GotoWith, Exclusive
    <3> QED
      BY <1>0, <3>1, MoveLock DEF Goto
  <2>4. CASE FindRemove(p)
    <3>1. at[p] \in Exclusive /\ at[p] \notin Shared
          /\ "disconnectAll" \in Exclusive /\ "disconnectAll" \notin Shared
      BY <2>4 DEF FindRemove, Exclusive, Shared
    <3>2. CASE Goto(p, "disconnectAll") /\ UNCHANGED networkMutex
      BY <3>1, <3>2, MoveLock DEF Goto
    <3>3. CASE RemoveReturns(p, TRUE)
      BY <1>2, <3>1, <3>3
    <3> QED
      BY <2>4, <3>2, <3>3 DEF FindRemove, GotoWith
  <2>5. CASE DisconnectNext(p) \/ RemoveIt(p)
    <3>1. at[p] \in Exclusive
      BY <2>5 DEF DisconnectNext, RemoveIt, Exclusive
    <3>2. RemoveReturns(p, TRUE) \/ RemoveReturns(p, FALSE) \/ UNCHANGED <<at, networkMutex>>
      BY <2>5 DEF DisconnectNext, RemoveIt
    <3> QED
      BY <1>2, <1>3, <3>1, <3>2
  <2>6. CASE ReadLock(p)
    <3>1. Goto(p, "checkSuiteLocked") /\ RLock(p) /\ "checkSuiteLocked" \in Shared
      BY <2>6 DEF ReadLock, Shared
    <3> QED
      BY <3>1, MoveLock DEF Goto
  <2>7. CASE CheckSuiteLocked(p)
    <3>1. /\ at[p] \in Shared /\ at[p] \notin Exclusive
          /\ "call" \in Shared /\ "call" \notin Exclusive
      BY <2>7 DEF CheckSuiteLocked, Shared, Exclusive
    <3>2. CASE Goto(p, "call") /\ UNCHANGED networkMutex
      BY <3>1, <3>2, MoveLock DEF Goto
    <3>3. CASE Goto(p, "idle") /\ RUnlock(p)
      BY <1>0, <3>1, <3>3, MoveLock DEF Goto
    <3> QED
      BY <2>7, <3>2, <3>3 DEF CheckSuiteLocked, GotoWith, Reply
  <2>8. CASE CallBackend(p)
    <3>1. Goto(p, "idle") /\ RUnlock(p) /\ at[p] \in Shared
      BY <2>8 DEF CallBackend, Reply, GotoWith, Shared
    <3> QED
      BY <1>0, <3>1, MoveLock DEF Goto
  <2>9. CASE EndSuite(p) \/ Prune(p) \/ Forget(p) \/ MoveToResults(p)
    <3>1. at[p] \in {"endSuite", "prune", "forget", "move"} /\ UNCHANGED networkMutex
      BY <2>9 DEF EndSuite, Prune, Forget, MoveToResults
    <3>2. PICK x \in {"prune", "lockRemove", "forget", "move", "suites", "idle"} : Goto(p, x)
      BY <2>9 DEF EndSuite, Prune, Forget, MoveToResults, EndSuiteReturns, Reply, GotoWith
    <3> QED
      BY <1>0, <1>1, <3>1, <3>2
  <2> QED
    BY <1>5, <2>1, <2>2, <2>3, <2>4, <2>5, <2>6, <2>7, <2>8, <2>9 DEF Step
<1>6. CASE Shutdown \/ Terminate
  <2>1. /\ at[Host] \in {"idle", "terminate", "suites"} /\ UNCHANGED networkMutex
        /\ \E x \in {"terminate", "suites", "endSuite", "done"} : Goto(Host, x)
    BY <1>6 DEF Shutdown, Terminate, TerminateBegin, TerminateSuite, GotoWith
  <2> QED
    BY <1>0, <1>1, <2>1
<1>7. CASE \E c \in Containers : DeleteContainer(c)
  BY <1>3, <1>7 DEF DeleteContainer
<1>8. CASE UNCHANGED vars
  BY <1>3, <1>8 DEF vars
<1> QED
  BY <1>4, <1>5, <1>6, <1>7, <1>8 DEF Next, Finished

-----------------------------------------------------------------------------
(* The map and docker                                                       *)

\* Attaching and detaching containers leaves the network what it was.
LEMMA AttachedOnly ==
  ASSUME TypeOK, NEW i, NEW S, docker' = [docker EXCEPT ![i].attached = S]
  PROVE  \A j \in Networks : /\ docker'[j].exists = docker[j].exists
                             /\ docker'[j].suite = docker[j].suite
                             /\ docker'[j].name = docker[j].name
  BY DEF TypeOK, DockerNetwork

\* A step that at most attaches or detaches containers, and after which every
\* goroutine that acts on a network has looked it up.
LEMMA AgreeKept ==
  ASSUME TypeInv, Agree, UNCHANGED <<networks, created>>,
         \A i \in Networks : /\ docker'[i].exists = docker[i].exists
                             /\ docker'[i].suite = docker[i].suite
                             /\ docker'[i].name = docker[i].name,
         \A q \in Procs : at'[q] \in {"call", "disconnectAll"} => LookedUp(q)'
  PROVE  Agree'
<1>1. \A s \in Suites, x \in Names : networks[s][x] # NoNetwork => networks[s][x] \in Networks
  BY DEF TypeInv, TypeOK
<1> QED
  BY <1>1 DEF Agree, RecordedNetworkExists, Recorded

\* No other goroutine acts on a network while one holds networkMutex to write.
LEMMA Alone ==
  ASSUME TypeInv, NetworkLock, NEW p \in Procs,
         at[p] \in Exclusive \/ (networkMutex.writer = None /\ networkMutex.readers = {})
  PROVE  \A q \in Procs : q # p => at[q] \notin {"call", "disconnectAll"}
<1>1. "call" \in Shared /\ "disconnectAll" \in Exclusive
  BY DEF Exclusive, Shared
<1> QED
  BY <1>1, StageLock DEF NetworkLock

\* RemoveNetwork returns without having removed anything.
LEMMA AgreeReturns ==
  ASSUME TypeInv, Agree, NEW p \in Procs, NEW failed, RemoveReturns(p, failed)
  PROVE  \A q \in Procs : at'[q] \in {"call", "disconnectAll"} =>
           q # p /\ at'[q] = at[q] /\ arg'[q] = arg[q]
<1>1. PICK x, a : x \in {"prune", "idle"} /\ at' = [at EXCEPT ![p] = x] /\ arg' = [arg EXCEPT ![p] = a]
  BY DEF RemoveReturns, Release, Reply, GotoWith, Goto
<1> QED
  BY <1>1 DEF TypeInv, TypeOK

LEMMA AgreeNext == TypeInv /\ NetworkLock /\ Agree /\ [Next]_vars => Agree'
<1> SUFFICES ASSUME TypeInv, NetworkLock, Agree, [Next]_vars PROVE Agree'
  OBVIOUS
<1>0. /\ TypeOK /\ Host \in Procs /\ Handlers \subseteq Procs
      /\ \A q \in Procs : at[q] \in {"call", "disconnectAll"} => LookedUp(q)
  BY DEF TypeInv, Procs, Agree
\* Steps that leave the networks alone, after which p acts on none.
<1>1. ASSUME NEW p \in Procs, NEW x, NEW a, at' = [at EXCEPT ![p] = x], arg' = [arg EXCEPT ![p] = a],
             x \notin {"call", "disconnectAll"}, UNCHANGED <<networks, created, docker>>
      PROVE  Agree'
  <2>1. \A q \in Procs : at'[q] \in {"call", "disconnectAll"} =>
          at'[q] = at[q] /\ arg'[q] = arg[q]
    BY <1>0, <1>1 DEF TypeOK
  <2> QED
    BY <1>0, <1>1, <2>1, AgreeKept DEF LookedUp
<1>2. ASSUME NEW p \in Procs, NEW x, Goto(p, x), UNCHANGED arg,
             x \notin {"call", "disconnectAll"}, UNCHANGED <<networks, created, docker>>
      PROVE  Agree'
  <2>1. arg' = [arg EXCEPT ![p] = arg[p]]
    BY <1>0, <1>2 DEF TypeOK
  <2> QED
    BY <1>1, <1>2, <2>1 DEF Goto
<1>3. ASSUME NEW p \in Procs, Reply(p), UNCHANGED <<networks, created, docker>> PROVE Agree'
  <2>1. PICK x \in {"idle"} : at' = [at EXCEPT ![p] = x]
    BY <1>3 DEF Reply, GotoWith, Goto
  <2>2. PICK a : arg' = [arg EXCEPT ![p] = a]
    BY <1>3 DEF Reply, GotoWith
  <2> QED
    BY <1>1, <1>3, <2>1, <2>2
<1>4. ASSUME NEW p \in Handlers, Receive(p) PROVE Agree'
  <2>1. PICK x, a : x \in {"checkSuite", "lockRemove", "readLock", "endSuite"} /\ GotoWith(p, x, a)
    BY <1>4 DEF Receive
  <2> QED
    BY <1>0, <1>1, <1>4, <2>1 DEF Receive, GotoWith, Goto
<1>5. ASSUME NEW p \in Procs, Step(p) PROVE Agree'
  <2>0. at[p] \in Named => arg[p].suite \in Suites /\ arg[p].name \in Names
    BY DEF TypeInv, Control, Fits
  <2>1. CASE CheckSuite(p)
    BY <1>2, <1>3, <2>1 DEF CheckSuite
  <2>2. CASE LockCreate(p) \/ LockRemove(p) \/ ReadLock(p)
    <3>1. \E x \in {"create", "findRemove", "checkSuiteLocked"} : Goto(p, x)
      BY <2>2 DEF LockCreate, LockRemove, ReadLock
    <3> QED
      BY <1>2, <2>2, <3>1 DEF LockCreate, LockRemove, ReadLock
  <2>3. CASE Create(p)
    <3> DEFINE s == arg[p].suite
               x == arg[p].name
               i == created + 1
    <3>0. s \in Suites /\ x \in Names /\ at[p] \in Exclusive
      BY <2>0, <2>3 DEF Create, Named, Exclusive
    <3>1. CASE UNCHANGED <<created, docker, networks>>
      BY <1>3, <2>3, <3>1 DEF Create
    <3>2. CASE ~UNCHANGED <<created, docker, networks>>
      <4>1. /\ i \in Networks /\ created' = i /\ created \in Nat
            /\ docker' = [docker EXCEPT ![i] =
                  [exists |-> TRUE, suite |-> s, name |-> x, attached |-> {}]]
            /\ networks' = [networks EXCEPT ![s][x] = i]
        BY <1>0, <2>3, <3>2, NetworkAssumption DEF Create, Refused, CreatedID, TypeOK, Networks
      <4>2. \A q \in Procs : at'[q] \notin {"call", "disconnectAll"}
        <5>1. at' = [at EXCEPT ![p] = "idle"]
          BY <2>3 DEF Create, Reply, GotoWith, Goto
        <5> QED
          BY <1>0, <3>0, <5>1, Alone DEF TypeOK
      <4>3. ~docker[i].exists
        BY <4>1 DEF Agree
      <4>4. \A j \in Networks : docker'[j].exists => j <= created'
        <5>1. \A j \in Networks : j # i => docker'[j] = docker[j]
          BY <1>0, <4>1 DEF TypeOK
        <5> QED
          BY <4>1, <5>1 DEF Agree, Networks
      <4>5. ASSUME NEW t \in Suites, NEW y \in Names, networks'[t][y] # NoNetwork
            PROVE  LET j == networks'[t][y]
                   IN docker'[j].exists /\ docker'[j].suite = t /\ docker'[j].name = y
        <5>1. CASE t = s /\ y = x
          <6>1. networks'[s][x] = i
            BY <1>0, <3>0, <4>1 DEF TypeOK
          <6>2. docker'[i] = [exists |-> TRUE, suite |-> s, name |-> x, attached |-> {}]
            BY <1>0, <4>1 DEF TypeOK
          <6> HIDE DEF i, s, x
          <6> QED
            BY <5>1, <6>1, <6>2
        <5>2. CASE ~(t = s /\ y = x)
          <6>1. networks'[t][y] = networks[t][y]
            BY <1>0, <3>0, <4>1, <5>2 DEF TypeOK
          <6>2. LET j == networks[t][y]
                IN docker[j].exists /\ docker[j].suite = t /\ docker[j].name = y
            BY <4>5, <6>1 DEF Agree, RecordedNetworkExists, Recorded
          <6>3. networks[t][y] # i /\ docker'[networks[t][y]] = docker[networks[t][y]]
            BY <1>0, <4>1, <4>3, <4>5, <6>1, <6>2 DEF TypeOK
          <6> QED
            BY <6>1, <6>2, <6>3
        <5> QED
          BY <5>1, <5>2
      <4> QED
        BY <4>2, <4>4, <4>5 DEF Agree, RecordedNetworkExists, Recorded
    <3> QED
      BY <3>1, <3>2
  <2>4. CASE FindRemove(p)
    <3> DEFINE i == networks[arg[p].suite][arg[p].name]
               a == [arg[p] EXCEPT !.id = i, !.toDisconnect = docker[i].attached]
    <3>0. arg[p].suite \in Suites /\ arg[p].name \in Names
      BY <2>0, <2>4 DEF FindRemove, Named
    <3>1. CASE i # NoNetwork /\ GotoWith(p, "disconnectAll", a)
      <4>1. i \in Networks
        BY <1>0, <3>0, <3>1 DEF TypeOK
      <4>2. a.id = i /\ a.suite = arg[p].suite /\ a.name = arg[p].name
        <5>1. arg[p] \in Args
          BY <1>0 DEF TypeOK
        <5> HIDE DEF i
        <5> QED
          BY <5>1 DEF Args
      <4>3. arg'[p] = a /\ \A q \in Procs : q # p => at'[q] = at[q] /\ arg'[q] = arg[q]
        <5> HIDE DEF a
        <5> QED
          BY <1>0, <3>1 DEF GotoWith, Goto, TypeOK
      <4>4. UNCHANGED <<networks, created, docker>>
        BY <2>4 DEF FindRemove
      <4>5. LookedUp(p)'
        <5> HIDE DEF a
        <5> QED
          BY <4>1, <4>2, <4>3, <4>4 DEF LookedUp
      <4> HIDE DEF a
      <4> QED
        BY <1>0, <4>3, <4>4, <4>5, AgreeKept DEF LookedUp
    <3>2. CASE RemoveReturns(p, TRUE)
      BY <1>0, <2>4, <3>2, AgreeReturns, AgreeKept DEF FindRemove, LookedUp
    <3> QED
      BY <2>4, <3>1, <3>2 DEF FindRemove
  <2>5. CASE DisconnectNext(p)
    <3>1. CASE RemoveReturns(p, TRUE) /\ UNCHANGED docker
      BY <1>0, <2>5, <3>1, AgreeReturns, AgreeKept DEF DisconnectNext, LookedUp
    <3>2. ASSUME NEW c, docker' = [docker EXCEPT ![arg[p].id].attached = @ \ {c}],
                 arg' = [arg EXCEPT ![p].toDisconnect = @ \ {c}], UNCHANGED at
          PROVE  Agree'
      <4>1. \A q \in Procs : /\ arg'[q].id = arg[q].id /\ arg'[q].suite = arg[q].suite
                             /\ arg'[q].name = arg[q].name
        BY <1>0, <3>2 DEF TypeOK, Args
      <4>2. \A j \in Networks : /\ docker'[j].exists = docker[j].exists
                                /\ docker'[j].suite = docker[j].suite
                                /\ docker'[j].name = docker[j].name
        BY <1>0, <3>2, AttachedOnly
      <4>3. UNCHANGED <<networks, created>>
        BY <2>5 DEF DisconnectNext
      <4> QED
        BY <1>0, <3>2, <4>1, <4>2, <4>3, AgreeKept DEF LookedUp
    <3> QED
      BY <2>5, <3>1, <3>2 DEF DisconnectNext
  <2>6. CASE RemoveIt(p)
    <3> DEFINE s == arg[p].suite
               x == arg[p].name
               i == arg[p].id
    <3>0. /\ s \in Suites /\ x \in Names /\ at[p] \in Exclusive
          /\ i \in Networks /\ networks[s][x] = i
      BY <1>0, <2>0, <2>6 DEF RemoveIt, Named, Exclusive, LookedUp
    <3>1. \A q \in Procs : at'[q] \notin {"call", "disconnectAll"}
      <4>1. PICK failed : RemoveReturns(p, failed)
        BY <2>6 DEF RemoveIt
      <4> QED
        BY <3>0, <4>1, AgreeReturns, Alone
    <3>2. CASE UNCHANGED <<docker, networks>>
      BY <2>6, <3>1, <3>2, AgreeKept DEF RemoveIt
    <3>3. CASE /\ docker' = [docker EXCEPT ![i] = NoDocker]
               /\ networks' = [networks EXCEPT ![s][x] = NoNetwork]
      <4>1. \A j \in Networks : j # i => docker'[j] = docker[j]
        BY <1>0, <3>3 DEF TypeOK
      <4>2. docker'[i] = NoDocker /\ created' = created
        BY <1>0, <2>6, <3>0, <3>3 DEF TypeOK, RemoveIt
      <4>3. \A j \in Networks : docker'[j].exists => j <= created'
        BY <4>1, <4>2, DockerType DEF Agree
      <4>4. ASSUME NEW t \in Suites, NEW y \in Names, networks'[t][y] # NoNetwork
            PROVE  LET j == networks'[t][y]
                   IN docker'[j].exists /\ docker'[j].suite = t /\ docker'[j].name = y
        <5>1. ~(t = s /\ y = x) /\ networks'[t][y] = networks[t][y]
          BY <1>0, <3>0, <3>3, <4>4 DEF TypeOK
        <5>2. \A u \in Suites, z \in Names : networks[u][z] # NoNetwork =>
                LET j == networks[u][z]
                IN /\ j \in Networks
                   /\ docker[j].exists /\ docker[j].suite = u /\ docker[j].name = z
          BY <1>0 DEF TypeOK, Agree, RecordedNetworkExists, Recorded
        <5>3. i # NoNetwork
          BY <3>0 DEF Networks, NoNetwork
        <5>4. networks[t][y] # i
          BY <3>0, <5>1, <5>2, <5>3
        <5> QED
          BY <4>1, <4>4, <5>1, <5>2, <5>4
      <4> QED
        BY <3>1, <4>3, <4>4 DEF Agree, RecordedNetworkExists, Recorded
    <3> QED
      BY <2>6, <3>2, <3>3 DEF RemoveIt, Forgotten
  <2>7. CASE CheckSuiteLocked(p)
    <3> DEFINE i == networks[arg[p].suite][arg[p].name]
               a == [arg[p] EXCEPT !.id = i]
    <3>0. arg[p].suite \in Suites /\ arg[p].name \in Names
      BY <2>0, <2>7 DEF CheckSuiteLocked, Named
    <3>1. CASE i # NoNetwork /\ GotoWith(p, "call", a)
      <4>1. i \in Networks
        BY <1>0, <3>0, <3>1 DEF TypeOK
      <4>2. a.id = i /\ a.suite = arg[p].suite /\ a.name = arg[p].name
        <5>1. arg[p] \in Args
          BY <1>0 DEF TypeOK
        <5> QED
          BY <4>1, <5>1, ArgsSetID
      <4>3. arg'[p] = a /\ \A q \in Procs : q # p => at'[q] = at[q] /\ arg'[q] = arg[q]
        <5> HIDE DEF a
        <5> QED
          BY <1>0, <3>1 DEF GotoWith, Goto, TypeOK
      <4>4. UNCHANGED <<networks, created, docker>>
        BY <2>7 DEF CheckSuiteLocked
      <4>5. LookedUp(p)'
        <5> HIDE DEF a
        <5> QED
          BY <4>1, <4>2, <4>3, <4>4 DEF LookedUp
      <4> HIDE DEF a
      <4> QED
        BY <1>0, <4>3, <4>4, <4>5, AgreeKept DEF LookedUp
    <3>2. CASE Reply(p)
      BY <1>3, <2>7, <3>2 DEF CheckSuiteLocked
    <3> QED
      BY <2>7, <3>1, <3>2 DEF CheckSuiteLocked
  <2>8. CASE CallBackend(p)
    <3>1. \A j \in Networks : /\ docker'[j].exists = docker[j].exists
                              /\ docker'[j].suite = docker[j].suite
                              /\ docker'[j].name = docker[j].name
      <4>1. UNCHANGED docker \/ \E S : docker' = [docker EXCEPT ![arg[p].id].attached = S]
        BY <2>8 DEF CallBackend
      <4> QED
        BY <1>0, <4>1, AttachedOnly
    <3>2. \A q \in Procs : at'[q] \in {"call", "disconnectAll"} =>
            at'[q] = at[q] /\ arg'[q] = arg[q]
      BY <1>0, <2>8 DEF CallBackend, Reply, GotoWith, Goto, TypeOK
    <3>3. UNCHANGED <<networks, created>>
      BY <2>8 DEF CallBackend
    <3> QED
      BY <1>0, <3>1, <3>2, <3>3, AgreeKept DEF LookedUp
  <2>9. CASE EndSuite(p) \/ Prune(p) \/ MoveToResults(p)
    <3>1. \/ \E x \in {"prune", "lockRemove"} : \E a : GotoWith(p, x, a)
          \/ \E x \in {"suites", "forget"} : Goto(p, x) /\ UNCHANGED arg
          \/ Reply(p)
      BY <2>9 DEF EndSuite, Prune, MoveToResults, EndSuiteReturns
    <3>2. UNCHANGED <<networks, created, docker>>
      BY <2>9 DEF EndSuite, Prune, MoveToResults
    <3> QED
      BY <1>1, <1>2, <1>3, <3>1, <3>2 DEF GotoWith, Goto
  <2>10. CASE Forget(p)
    <3>0. arg[p].suite \in Suites /\ UNCHANGED <<docker, created>>
      BY <2>10 DEF Forget, TypeInv, Control, Fits, Ending
    <3>1. \A q \in Procs : at'[q] \notin {"call", "disconnectAll"}
      <4>1. at' = [at EXCEPT ![p] = "move"]
        BY <2>10 DEF Forget, Goto
      <4> QED
        BY <1>0, <2>10, <4>1, Alone DEF Forget, TypeOK
    <3>2. \A t \in Suites, y \in Names :
            networks'[t][y] = IF t = arg[p].suite THEN NoNetwork ELSE networks[t][y]
      BY <1>0, <2>10, <3>0 DEF Forget, TypeOK
    <3> QED
      BY <3>0, <3>1, <3>2 DEF Agree, RecordedNetworkExists, Recorded
  <2> QED
    BY <1>5, <2>1, <2>2, <2>3, <2>4, <2>5, <2>6, <2>7, <2>8, <2>9, <2>10 DEF Step
<1>6. CASE Shutdown \/ Terminate
  <2>1. \/ \E x \in {"terminate", "suites"} : Goto(Host, x) /\ UNCHANGED arg
        \/ \E x \in {"endSuite", "done"} : \E a : GotoWith(Host, x, a)
    BY <1>6 DEF Shutdown, Terminate, TerminateBegin, TerminateSuite
  <2>2. UNCHANGED <<networks, created, docker>>
    BY <1>6 DEF Shutdown, Terminate, TerminateBegin, TerminateSuite
  <2> QED
    BY <1>0, <1>1, <1>2, <2>1, <2>2 DEF GotoWith, Goto
<1>7. ASSUME NEW c \in Containers, DeleteContainer(c) PROVE Agree'
  <2>1. \A j \in Networks : /\ docker'[j].exists = docker[j].exists
                            /\ docker'[j].suite = docker[j].suite
                            /\ docker'[j].name = docker[j].name
    BY <1>0, <1>7 DEF DeleteContainer, TypeOK, DockerNetwork
  <2> QED
    BY <1>0, <1>7, <2>1, AgreeKept DEF DeleteContainer, LookedUp
<1>8. CASE UNCHANGED vars
  BY <1>0, <1>8, AgreeKept DEF vars, LookedUp
<1> QED
  BY <1>4, <1>5, <1>6, <1>7, <1>8 DEF Next, Finished

-----------------------------------------------------------------------------
(* No network of a running suite is lost                                    *)

Tracked == ~Duplicates => SuiteNetworksRecorded

\* The steps that disturb neither the map nor docker: one that ends a suite takes
\* the suite out of the running ones, others keep a goroutine that is about to.
LEMMA TrackedKept ==
  ASSUME TypeInv, Tracked, UNCHANGED networks, runningTestSuites' \subseteq runningTestSuites,
         \A i \in Networks : docker'[i].exists => docker[i].exists
                             /\ docker'[i].suite = docker[i].suite
                             /\ docker'[i].name = docker[i].name,
         \A q \in Procs : at[q] = "move" /\ arg[q].suite \in runningTestSuites' =>
           at'[q] = "move" /\ arg'[q] = arg[q]
  PROVE  Tracked'
<1> SUFFICES ASSUME ~Duplicates, NEW i \in Networks,
                    docker'[i].exists, docker'[i].suite \in runningTestSuites'
             PROVE  \/ networks'[docker'[i].suite][docker'[i].name] = i
                    \/ \E q \in Procs : at'[q] = "move" /\ arg'[q].suite = docker'[i].suite
  BY DEF Tracked, SuiteNetworksRecorded
<1>1. /\ docker[i].exists /\ docker[i].suite = docker'[i].suite /\ docker[i].name = docker'[i].name
      /\ docker[i].suite \in runningTestSuites
  OBVIOUS
<1>2. CASE networks[docker[i].suite][docker[i].name] = i
  BY <1>1, <1>2
<1>3. CASE \E q \in Procs : at[q] = "move" /\ arg[q].suite = docker[i].suite
  <2>1. PICK q \in Procs : at[q] = "move" /\ arg[q].suite = docker[i].suite
    BY <1>3
  <2>2. at'[q] = "move" /\ arg'[q] = arg[q]
    BY <1>1, <2>1
  <2> QED
    BY <1>1, <2>1, <2>2
<1> QED
  BY <1>1, <1>2, <1>3 DEF Tracked, SuiteNetworksRecorded

LEMMA TrackedNext == TypeInv /\ Agree /\ Tracked /\ [Next]_vars => Tracked'
<1> SUFFICES ASSUME TypeInv, Agree, Tracked, [Next]_vars PROVE Tracked'
  OBVIOUS
<1>0. TypeOK /\ Host \in Procs /\ Handlers \subseteq Procs
  BY DEF TypeInv, Procs
\* Steps of a goroutine that is not about to take its suite out of the running ones.
<1>1. ASSUME NEW p \in Procs, at[p] # "move",
             \A q \in Procs : q # p => at'[q] = at[q] /\ arg'[q] = arg[q],
             UNCHANGED <<networks, runningTestSuites>>,
             \A i \in Networks : docker'[i].exists => docker[i].exists
                                 /\ docker'[i].suite = docker[i].suite
                                 /\ docker'[i].name = docker[i].name
      PROVE  Tracked'
  BY <1>1, TrackedKept
\* A goroutine moves alone.
<1>2. ASSUME NEW p \in Procs,
             \E x : at' = [at EXCEPT ![p] = x],
             UNCHANGED arg \/ \E a : arg' = [arg EXCEPT ![p] = a]
      PROVE  \A q \in Procs : q # p => at'[q] = at[q] /\ arg'[q] = arg[q]
  BY <1>0, <1>2 DEF TypeOK
<1>3. ASSUME NEW p \in Handlers, Receive(p) PROVE Tracked'
  <2>1. \E x, a : GotoWith(p, x, a)
    BY <1>3 DEF Receive
  <2>2. \A q \in Procs : q # p => at'[q] = at[q] /\ arg'[q] = arg[q]
    BY <1>0, <1>2, <2>1 DEF GotoWith, Goto
  <2> QED
    BY <1>0, <1>1, <1>3, <2>2 DEF Receive
<1>4. ASSUME NEW p \in Procs, Step(p) PROVE Tracked'
  <2>0. /\ at[p] \in Named => arg[p].suite \in Suites /\ arg[p].name \in Names
        /\ at[p] \in Ending => arg[p].suite \in Suites
    BY DEF TypeInv, Control, Fits
  <2>1. CASE \/ CheckSuite(p) \/ LockCreate(p) \/ LockRemove(p) \/ ReadLock(p)
             \/ FindRemove(p) \/ CheckSuiteLocked(p) \/ EndSuite(p) \/ Prune(p)
    <3>1. /\ at[p] # "move" /\ UNCHANGED <<networks, runningTestSuites, docker>>
      BY <2>1 DEF CheckSuite, LockCreate, LockRemove, ReadLock, FindRemove,
                  CheckSuiteLocked, EndSuite, Prune
    <3>2. /\ \E x : Goto(p, x)
          /\ UNCHANGED arg \/ \E a : arg' = [arg EXCEPT ![p] = a]
      BY <2>1 DEF CheckSuite, LockCreate, LockRemove, ReadLock, FindRemove, RemoveReturns, Release,
                  CheckSuiteLocked, EndSuite, EndSuiteReturns, Prune, Reply, GotoWith
    <3>3. \A q \in Procs : q # p => at'[q] = at[q] /\ arg'[q] = arg[q]
      BY <1>2, <3>2 DEF Goto
    <3> QED
      BY <1>1, <3>1, <3>3
  <2>2. CASE Create(p)
    <3> DEFINE s == arg[p].suite
               x == arg[p].name
               n == created + 1
    <3>0. s \in Suites /\ x \in Names /\ at[p] = "create"
      BY <2>0, <2>2 DEF Create, Named
    <3>1. \A q \in Procs : q # p => at'[q] = at[q] /\ arg'[q] = arg[q]
      BY <1>2, <2>2 DEF Create, Reply, GotoWith, Goto
    <3>2. CASE UNCHANGED <<created, docker, networks>>
      BY <1>1, <2>2, <3>0, <3>1, <3>2 DEF Create
    <3>3. CASE ~UNCHANGED <<created, docker, networks>>
      <4>1. /\ n \in Networks /\ ~Refused(s, x)
            /\ docker' = [docker EXCEPT ![n] =
                  [exists |-> TRUE, suite |-> s, name |-> x, attached |-> {}]]
            /\ networks' = [networks EXCEPT ![s][x] = n]
        BY <1>0, <2>2, <3>3, NetworkAssumption DEF Create, Refused, CreatedID, TypeOK, Networks
      <4>2. networks'[s][x] = n /\ docker'[n].suite = s /\ docker'[n].name = x
        BY <1>0, <3>0, <4>1 DEF TypeOK
      <4>3. ASSUME ~Duplicates, NEW i \in Networks, i # n,
                   docker'[i].exists, docker'[i].suite \in runningTestSuites'
            PROVE  \/ networks'[docker'[i].suite][docker'[i].name] = i
                   \/ \E q \in Procs : at'[q] = "move" /\ arg'[q].suite = docker'[i].suite
        <5>1. docker'[i] = docker[i] /\ runningTestSuites' = runningTestSuites
          BY <1>0, <2>2, <4>1, <4>3 DEF TypeOK, Create
        <5>2. ~(docker[i].suite = s /\ docker[i].name = x)
          BY <4>1, <4>3, <5>1 DEF Refused
        <5>3. CASE networks[docker[i].suite][docker[i].name] = i
          <6>1. docker[i].suite \in Suites
            BY <1>0, <4>3, <5>1 DEF TypeOK
          <6>2. networks'[docker[i].suite][docker[i].name]
                  = networks[docker[i].suite][docker[i].name]
            BY <1>0, <3>0, <4>1, <5>2, <6>1 DEF TypeOK
          <6> QED
            BY <5>1, <5>3, <6>2
        <5>4. CASE \E q \in Procs : at[q] = "move" /\ arg[q].suite = docker[i].suite
          BY <3>0, <3>1, <5>1, <5>4
        <5> QED
          BY <4>3, <5>1, <5>3, <5>4 DEF Tracked, SuiteNetworksRecorded
      <4> HIDE DEF n, s, x
      <4> QED
        BY <4>2, <4>3 DEF Tracked, SuiteNetworksRecorded
    <3> QED
      BY <3>2, <3>3
  <2>3. CASE DisconnectNext(p)
    <3>1. /\ at[p] = "disconnectAll" /\ UNCHANGED <<networks, runningTestSuites>>
          /\ UNCHANGED at \/ \E x : Goto(p, x)
      BY <2>3 DEF DisconnectNext, RemoveReturns, Release, Reply, GotoWith
    <3>2. \A q \in Procs : q # p => at'[q] = at[q] /\ arg'[q] = arg[q]
      <4>1. CASE UNCHANGED at /\ \E c : arg' = [arg EXCEPT ![p].toDisconnect = @ \ {c}]
        BY <1>0, <4>1 DEF TypeOK
      <4>2. CASE RemoveReturns(p, TRUE)
        BY <1>2, <4>2 DEF RemoveReturns, Release, Reply, GotoWith, Goto
      <4> QED
        BY <2>3, <4>1, <4>2 DEF DisconnectNext
    <3>3. ASSUME NEW i \in Networks PROVE /\ docker'[i].exists = docker[i].exists
                                          /\ docker'[i].suite = docker[i].suite
                                          /\ docker'[i].name = docker[i].name
      <4>1. UNCHANGED docker \/ \E S : docker' = [docker EXCEPT ![arg[p].id].attached = S]
        BY <2>3 DEF DisconnectNext
      <4> QED
        BY <1>0, <4>1, AttachedOnly
    <3> QED
      BY <1>1, <3>1, <3>2, <3>3
  <2>4. CASE RemoveIt(p)
    <3> DEFINE s == arg[p].suite
               x == arg[p].name
               n == arg[p].id
    <3>0. /\ s \in Suites /\ x \in Names /\ at[p] = "disconnectAll"
          /\ n \in Networks /\ networks[s][x] = n
      BY <2>0, <2>4 DEF RemoveIt, Named, Agree, LookedUp
    <3>1. \A q \in Procs : q # p => at'[q] = at[q] /\ arg'[q] = arg[q]
      BY <1>2, <2>4 DEF RemoveIt, RemoveReturns, Release, Reply, GotoWith, Goto
    <3>2. CASE UNCHANGED <<docker, networks>>
      BY <1>1, <2>4, <3>0, <3>1, <3>2 DEF RemoveIt
    <3>3. CASE docker' = [docker EXCEPT ![n] = NoDocker]
               /\ networks' = [networks EXCEPT ![s][x] = NoNetwork]
      <4>1. ASSUME ~Duplicates, NEW i \in Networks,
                   docker'[i].exists, docker'[i].suite \in runningTestSuites'
            PROVE  \/ networks'[docker'[i].suite][docker'[i].name] = i
                   \/ \E q \in Procs : at'[q] = "move" /\ arg'[q].suite = docker'[i].suite
        <5>1. i # n /\ docker'[i] = docker[i] /\ runningTestSuites' = runningTestSuites
          BY <1>0, <2>4, <3>3, <4>1, DockerType DEF TypeOK, RemoveIt
        <5>2. CASE networks[docker[i].suite][docker[i].name] = i
          <6>1. ~(docker[i].suite = s /\ docker[i].name = x)
            BY <3>0, <5>1, <5>2
          <6>2. docker[i].suite \in Suites
            BY <1>0, <4>1, <5>1 DEF TypeOK
          <6>3. networks'[docker[i].suite][docker[i].name]
                  = networks[docker[i].suite][docker[i].name]
            BY <1>0, <3>0, <3>3, <6>1, <6>2 DEF TypeOK
          <6> QED
            BY <5>1, <5>2, <6>3
        <5>3. CASE \E q \in Procs : at[q] = "move" /\ arg[q].suite = docker[i].suite
          BY <3>0, <3>1, <5>1, <5>3
        <5> QED
          BY <4>1, <5>1, <5>2, <5>3 DEF Tracked, SuiteNetworksRecorded
      <4> QED
        BY <4>1 DEF Tracked, SuiteNetworksRecorded
    <3> QED
      BY <2>4, <3>2, <3>3 DEF RemoveIt, Forgotten
  <2>5. CASE CallBackend(p)
    <3>1. at[p] = "call" /\ UNCHANGED <<networks, runningTestSuites>>
      BY <2>5 DEF CallBackend
    <3>2. \A q \in Procs : q # p => at'[q] = at[q] /\ arg'[q] = arg[q]
      BY <1>2, <2>5 DEF CallBackend, Reply, GotoWith, Goto
    <3>3. ASSUME NEW i \in Networks PROVE /\ docker'[i].exists = docker[i].exists
                                          /\ docker'[i].suite = docker[i].suite
                                          /\ docker'[i].name = docker[i].name
      <4>1. UNCHANGED docker \/ \E S : docker' = [docker EXCEPT ![arg[p].id].attached = S]
        BY <2>5 DEF CallBackend
      <4> QED
        BY <1>0, <4>1, AttachedOnly
    <3> QED
      BY <1>1, <3>1, <3>2, <3>3
  <2>6. CASE Forget(p)
    <3>0. /\ arg[p].suite \in Suites /\ at[p] = "forget" /\ UNCHANGED <<docker, arg, runningTestSuites>>
          /\ at'[p] = "move" /\ \A q \in Procs : q # p => at'[q] = at[q]
      BY <1>0, <2>0, <2>6 DEF Forget, Ending, Goto, TypeOK
    <3>1. ASSUME ~Duplicates, NEW i \in Networks,
                 docker'[i].exists, docker'[i].suite \in runningTestSuites'
          PROVE  \/ networks'[docker'[i].suite][docker'[i].name] = i
                 \/ \E q \in Procs : at'[q] = "move" /\ arg'[q].suite = docker'[i].suite
      <4>1. CASE docker[i].suite = arg[p].suite
        BY <3>0, <4>1
      <4>2. CASE docker[i].suite # arg[p].suite
        <5>1. networks'[docker[i].suite] = networks[docker[i].suite]
          BY <1>0, <2>6, <3>0, <3>1, <4>2 DEF Forget, TypeOK
        <5>2. \/ networks[docker[i].suite][docker[i].name] = i
              \/ \E q \in Procs : at[q] = "move" /\ arg[q].suite = docker[i].suite
          BY <3>0, <3>1 DEF Tracked, SuiteNetworksRecorded
        <5> QED
          BY <3>0, <5>1, <5>2
      <4> QED
        BY <4>1, <4>2
    <3> QED
      BY <3>1 DEF Tracked, SuiteNetworksRecorded
  <2>7. CASE MoveToResults(p)
    <3>1. /\ runningTestSuites' = runningTestSuites \ {arg[p].suite}
          /\ UNCHANGED <<networks, docker>>
      BY <2>7 DEF MoveToResults
    <3>2. \A q \in Procs : q # p => at'[q] = at[q] /\ arg'[q] = arg[q]
      BY <1>2, <2>7 DEF MoveToResults, EndSuiteReturns, Reply, GotoWith, Goto
    <3> QED
      BY <3>1, <3>2, TrackedKept
  <2> QED
    BY <1>4, <2>1, <2>2, <2>3, <2>4, <2>5, <2>6, <2>7 DEF Step
<1>5. CASE Shutdown \/ Terminate
  <2>1. /\ at[Host] # "move" /\ UNCHANGED <<networks, runningTestSuites, docker>>
        /\ \E x : Goto(Host, x)
        /\ UNCHANGED arg \/ \E a : arg' = [arg EXCEPT ![Host] = a]
    BY <1>5 DEF Shutdown, Terminate, TerminateBegin, TerminateSuite, GotoWith
  <2>2. \A q \in Procs : q # Host => at'[q] = at[q] /\ arg'[q] = arg[q]
    BY <1>0, <1>2, <2>1 DEF Goto
  <2> QED
    BY <1>0, <1>1, <2>1, <2>2
<1>6. ASSUME NEW c \in Containers, DeleteContainer(c) PROVE Tracked'
  <2>1. \A i \in Networks : /\ docker'[i].exists = docker[i].exists
                            /\ docker'[i].suite = docker[i].suite
                            /\ docker'[i].name = docker[i].name
    BY <1>0, <1>6 DEF DeleteContainer, TypeOK, DockerNetwork
  <2> QED
    BY <1>6, <2>1, TrackedKept DEF DeleteContainer
<1>7. CASE UNCHANGED vars
  BY <1>7, TrackedKept DEF vars
<1> QED
  BY <1>3, <1>4, <1>5, <1>6, <1>7 DEF Next, Finished

-----------------------------------------------------------------------------
(* The theorems                                                             *)

Inv == TypeInv /\ NetworkLock /\ Agree /\ Tracked

LEMMA InvInit == Init => Inv
<1> SUFFICES ASSUME Init PROVE Inv
  OBVIOUS
<1>1. NetworkLock
  BY StageLock DEF Init, NetworkLock
<1>2. \A i \in Networks : ~docker[i].exists
  BY DockerType DEF Init
<1>3. Agree
  BY <1>2 DEF Init, Agree, RecordedNetworkExists, Recorded
<1>4. Tracked
  BY <1>2 DEF Tracked, SuiteNetworksRecorded
<1> QED
  BY <1>1, <1>3, <1>4, TypeInit DEF Inv

LEMMA InvInvariant == Spec => []Inv
<1>1. Inv /\ [Next]_vars => Inv'
  BY TypeNext, LockNext, AgreeNext, TrackedNext DEF Inv
<1> QED
  BY InvInit, <1>1, PTL DEF Spec

\* Every variable of the network model keeps its type.
THEOREM TypeCorrect == Spec => []TypeOK
<1>1. Inv => TypeOK
  BY DEF Inv, TypeInv
<1> QED
  BY InvInvariant, <1>1, PTL

\* No interleaving of creations, removals and the end of suites, and no failure
\* of the backend, leaves in manager.networks the ID of a network that docker does
\* not have under that name.
THEOREM RecordedNetworksExist == Spec => []RecordedNetworkExists
<1>1. Inv => RecordedNetworkExists
  BY DEF Inv, Agree
<1> QED
  BY InvInvariant, <1>1, PTL

\* ContainerIP, ConnectContainer and DisconnectContainer call docker with the ID
\* of a network that is still there, since they hold the read lock of
\* networkMutex from the lookup to the call.
THEOREM CallTargetsExist == Spec => []CallTargetExists
<1>1. Inv => CallTargetExists
  <2> SUFFICES ASSUME Inv, NEW p \in Procs, at[p] = "call"
               PROVE  /\ docker[arg[p].id].exists
                      /\ networks[arg[p].suite][arg[p].name] = arg[p].id
    BY DEF CallTargetExists
  <2>1. arg[p].suite \in Suites /\ arg[p].name \in Names
    BY DEF Inv, TypeInv, Control, Fits, Named
  <2>2. arg[p].id \in Networks /\ networks[arg[p].suite][arg[p].name] = arg[p].id
    BY DEF Inv, Agree, LookedUp
  <2>3. arg[p].id # NoNetwork
    BY <2>2 DEF Networks, NoNetwork
  <2>4. docker[arg[p].id].exists
    BY <2>1, <2>2, <2>3 DEF Inv, Agree, RecordedNetworkExists, Recorded
  <2> QED
    BY <2>2, <2>4
<1> QED
  BY InvInvariant, <1>1, PTL

\* If docker refuses a second network of the same name, no network of a running
\* suite is lost to the manager: until PruneNetworks has returned, the map has it.
THEOREM NoNetworkIsLost == Spec => [](~Duplicates => SuiteNetworksRecorded)
<1>1. Inv => (~Duplicates => SuiteNetworksRecorded)
  BY DEF Inv, Tracked
<1> QED
  BY InvInvariant, <1>1, PTL

-----------------------------------------------------------------------------
(* A suite that has ended has no networks: the simulator ends it after its  *)
(* other requests were answered (~Overlap), and nothing fails.              *)

\* The stages of RemoveNetwork, which PruneNetworks goes through too.
Removing == {"lockRemove", "findRemove", "disconnectAll"}
Ends(p) == Serving(p, {"endSuite"})

\* Who ends suites: a goroutine in doEndSuite serves the end of a suite, and
\* Terminate does nothing else.
Orderly(p) ==
  /\ p # Host => at[p] \in Named \cup Ending \cup {"idle"}
  /\ p = Host => /\ at[p] \in Removing \cup Ending \cup {"idle", "terminate", "suites", "done"}
                 /\ at[p] \in Removing => Ends(p)
  /\ at[p] \in Ending => Ends(p)
  /\ at[p] = "idle" => ~Ends(p)
  /\ Ends(p) /\ at[p] # "idle" => at[p] \in Removing \cup Ending \cup {"suites"}
\* ... and it is alone.
Solitude ==
  /\ \A p \in Handlers : Ends(p) => \A q \in Handlers \ {p} : at[q] = "idle"
  /\ at[Host] # "idle" => \A q \in Handlers : at[q] = "idle"
InOrder == (\A p \in Procs : Orderly(p)) /\ Solitude

\* What PruneNetworks has not removed it will still visit, so that nothing of the
\* suite is left when its map is deleted.
Unpruned(p) == arg[p].left \cup IF at[p] \in Removing THEN {arg[p].name} ELSE {}
PrunesAll(p) ==
  /\ at[p] = "endSuite" => arg[p].failed = {}
  /\ Ends(p) /\ at[p] \in Removing \cup {"prune"} =>
       /\ arg[p].suite \in runningTestSuites /\ arg[p].failed = {}
       /\ Recorded(arg[p].suite) \subseteq Unpruned(p)
       /\ at[p] \in {"lockRemove", "findRemove"} => arg[p].name \in Recorded(arg[p].suite)
  /\ at[p] \in {"forget", "move"} =>
       /\ arg[p].suite \in runningTestSuites
       /\ \A i \in Networks : docker[i].exists => docker[i].suite # arg[p].suite
\* What the other operations rely on.
KeepsPace(p) ==
  /\ at[p] = "disconnectAll" /\ Ends(p) =>
       arg[p].toDisconnect \subseteq docker[arg[p].id].attached
  /\ at[p] \in {"lockCreate", "create"} => arg[p].suite \in runningTestSuites

\* A network in docker was made for a request, which named it.
NetworksNamed == \A i \in Networks : docker[i].exists => docker[i].name \in Names

OrderedInv ==
  /\ Inv /\ InOrder /\ NetworksNamed /\ (\A p \in Procs : PrunesAll(p) /\ KeepsPace(p))
  /\ EndedSuiteHasNoNetwork

LEMMA HostApart == Host \in Procs /\ Handlers \subseteq Procs /\ \A p \in Handlers : p # Host
  BY NetworkAssumption DEF Procs

LEMMA StageKinds ==
  /\ Named = {"checkSuite", "lockCreate", "create", "lockRemove", "findRemove", "disconnectAll",
              "readLock", "checkSuiteLocked", "call"}
  /\ Ending = {"endSuite", "prune", "forget", "move"}
  /\ Removing = {"lockRemove", "findRemove", "disconnectAll"}
  BY DEF Named, Ending, Removing

\* A reply leaves an idle goroutine, whose request is over.
LEMMA OrderlyReply ==
  ASSUME TypeInv, NEW p \in Procs, Reply(p)
  PROVE  at'[p] = "idle" /\ arg'[p] = NoArgs /\ Orderly(p)'
<1>1. at'[p] = "idle" /\ arg'[p] = NoArgs
  BY DEF Reply, GotoWith, Goto, TypeInv, TypeOK
<1> QED
  BY <1>1, ArgsType, StageKinds DEF Orderly, Ends, Serving

\* A goroutine goes on at stage x, with request a.
LEMMA Goes ==
  ASSUME TypeInv, NEW p \in Procs, NEW x, NEW a, GotoWith(p, x, a)
  PROVE  /\ at'[p] = x /\ arg'[p] = a /\ at' = [at EXCEPT ![p] = x]
         /\ \A q \in Procs \ {p} : at'[q] = at[q] /\ arg'[q] = arg[q]
  BY DEF GotoWith, Goto, TypeInv, TypeOK

\* PruneNetworks collects the failure of RemoveNetwork.
LEMMA Collects ==
  ASSUME TypeInv, NEW p \in Procs, NEW failed \in BOOLEAN, RemoveReturns(p, failed), Ends(p),
         at[p] \in Removing
  PROVE  \E a \in Args :
           /\ GotoWith(p, "prune", a) /\ a.suite = arg[p].suite /\ a.op = arg[p].op
           /\ a.left = arg[p].left
           /\ a.failed = IF failed THEN arg[p].failed \cup {arg[p].name} ELSE arg[p].failed
<1> DEFINE F == IF failed THEN arg[p].failed \cup {arg[p].name} ELSE arg[p].failed
           a == [arg[p] EXCEPT !.name = None, !.id = NoNetwork, !.toDisconnect = {}, !.failed = F]
<1>1. arg[p] \in Args /\ arg[p].name \in Names
  BY DEF TypeInv, TypeOK, Control, Fits, Named, Removing
<1>2. F \in SUBSET Names
  BY <1>1, ArgsType
<1>3. a \in Args /\ a.suite = arg[p].suite /\ a.op = arg[p].op /\ a.left = arg[p].left
      /\ a.failed = F
  <2> HIDE DEF F
  <2> QED
    BY <1>1, <1>2, ArgsCollect
<1>4. GotoWith(p, "prune", a)
  BY <1>1 DEF RemoveReturns, Release, Ends
<1> HIDE DEF a
<1> QED
  BY <1>3, <1>4

LEMMA OrderlyReturns ==
  ASSUME TypeInv, NEW p \in Procs, Orderly(p), NEW failed \in BOOLEAN, RemoveReturns(p, failed),
         at[p] \in Removing
  PROVE  /\ Orderly(p)' /\ (Ends(p)' => Ends(p))
         /\ at' = [at EXCEPT ![p] = at'[p]] /\ \A q \in Procs \ {p} : arg'[q] = arg[q]
<1>0. arg[p] \in Args /\ TypeOK
  BY DEF TypeInv, TypeOK
<1>1. CASE Ends(p)
  <2>1. /\ at'[p] = "prune" /\ arg'[p].op = arg[p].op
        /\ at' = [at EXCEPT ![p] = "prune"] /\ \A q \in Procs \ {p} : arg'[q] = arg[q]
    <3>1. PICK a \in Args : GotoWith(p, "prune", a) /\ a.op = arg[p].op
      BY <1>1, Collects
    <3> QED
      BY <3>1, Goes
  <2> QED
    BY <1>1, <2>1, StageKinds DEF Orderly, Ends, Serving
<1>2. CASE ~Ends(p)
  <2>1. Reply(p)
    BY <1>2 DEF RemoveReturns, Release, Ends
  <2>2. at' = [at EXCEPT ![p] = "idle"] /\ \A q \in Procs \ {p} : arg'[q] = arg[q]
    BY <1>0, <2>1 DEF Reply, GotoWith, Goto, TypeOK
  <2> QED
    BY <2>1, <2>2, OrderlyReply, ArgsType DEF Ends, Serving
<1> QED
  BY <1>1, <1>2

\* A step of a goroutine that is serving a request begins no end of a suite.
LEMMA OrderlyStep ==
  ASSUME TypeInv, NEW p \in Procs, Orderly(p), Step(p)
  PROVE  /\ at[p] # "idle" /\ Orderly(p)' /\ (Ends(p)' => Ends(p))
         /\ at' = [at EXCEPT ![p] = at'[p]] /\ \A q \in Procs \ {p} : arg'[q] = arg[q]
<1>0. arg[p] \in Args /\ TypeOK
  BY DEF TypeInv, TypeOK
<1>12. at[p] # "idle"
  BY DEF Step, CheckSuite, LockCreate, Create, LockRemove, FindRemove, DisconnectNext, RemoveIt,
         ReadLock, CheckSuiteLocked, CallBackend, EndSuite, Prune, Forget, MoveToResults
<1>1. ASSUME Reply(p)
      PROVE  /\ Orderly(p)' /\ (Ends(p)' => Ends(p))
             /\ at' = [at EXCEPT ![p] = at'[p]] /\ \A q \in Procs \ {p} : arg'[q] = arg[q]
  <2>1. at' = [at EXCEPT ![p] = "idle"] /\ \A q \in Procs \ {p} : arg'[q] = arg[q]
    BY <1>0, <1>1 DEF Reply, GotoWith, Goto, TypeOK
  <2> QED
    BY <1>1, <2>1, OrderlyReply, ArgsType DEF Ends, Serving
\* Going on with the same operation.
<1>2. ASSUME NEW x, at' = [at EXCEPT ![p] = x], arg'[p].op = arg[p].op,
             \A q \in Procs \ {p} : arg'[q] = arg[q],
             \/ at[p] \in Named \ Removing /\ x \in Named \ Removing
             \/ at[p] \in Removing /\ x \in Removing
             \/ at[p] \in Ending /\ x \in Ending \cup {"lockRemove"}
             \/ at[p] \in Ending /\ p = Host /\ x = "suites"
      PROVE  /\ Orderly(p)' /\ (Ends(p)' => Ends(p))
             /\ at' = [at EXCEPT ![p] = at'[p]] /\ \A q \in Procs \ {p} : arg'[q] = arg[q]
  <2>1. at'[p] = x
    BY <1>0, <1>2 DEF TypeOK
  <2>2. Ends(p)' <=> Ends(p)
    BY <1>2 DEF Ends, Serving
  <2>3. CASE at[p] \in Named \ Removing /\ x \in Named \ Removing
    <3>1. p # Host /\ ~Ends(p)
      BY <2>3, StageKinds DEF Orderly
    <3> QED
      BY <1>2, <2>1, <2>2, <2>3, <3>1 DEF Orderly, Named, Ending, Removing
  <2>4. CASE at[p] \in Removing /\ x \in Removing
    BY <1>2, <2>1, <2>2, <2>4 DEF Orderly, Named, Ending, Removing
  <2>5. CASE at[p] \in Ending /\ x \in Ending \cup {"lockRemove"}
    BY <1>2, <2>1, <2>2, <2>5 DEF Orderly, Named, Ending, Removing
  <2>6. CASE at[p] \in Ending /\ p = Host /\ x = "suites"
    BY <1>2, <2>1, <2>2, <2>6 DEF Orderly, Named, Ending, Removing
  <2> QED
    BY <1>2, <2>3, <2>4, <2>5, <2>6
<1>13. ASSUME NEW x, NEW a, GotoWith(p, x, a), a.op = arg[p].op,
              \/ at[p] \in Named \ Removing /\ x \in Named \ Removing
              \/ at[p] \in Ending /\ x \in Ending \cup {"lockRemove"}
       PROVE  /\ Orderly(p)' /\ (Ends(p)' => Ends(p))
              /\ at' = [at EXCEPT ![p] = at'[p]] /\ \A q \in Procs \ {p} : arg'[q] = arg[q]
  BY <1>2, <1>13, Goes
<1>3. CASE CheckSuite(p) \/ LockCreate(p) \/ LockRemove(p) \/ ReadLock(p)
  BY <1>1, <1>2, <1>3, StageKinds DEF CheckSuite, LockCreate, LockRemove, ReadLock, Goto
<1>4. CASE Create(p) \/ CallBackend(p)
  BY <1>1, <1>4 DEF Create, CallBackend
<1>5. CASE FindRemove(p)
  <2>1. CASE RemoveReturns(p, TRUE)
    BY <1>5, <2>1, OrderlyReturns, StageKinds DEF FindRemove
  <2>2. ASSUME NEW i, GotoWith(p, "disconnectAll", [arg[p] EXCEPT !.id = i, !.toDisconnect = docker[i].attached])
        PROVE  arg'[p].op = arg[p].op /\ \A q \in Procs \ {p} : arg'[q] = arg[q]
    BY <1>0, <2>2 DEF GotoWith, TypeOK, Args
  <2> QED
    BY <1>2, <1>5, <2>1, <2>2, StageKinds DEF FindRemove, GotoWith, Goto
<1>6. CASE DisconnectNext(p)
  <2>1. CASE RemoveReturns(p, TRUE)
    BY <1>6, <2>1, OrderlyReturns, StageKinds DEF DisconnectNext
  <2>2. CASE ~RemoveReturns(p, TRUE)
    <3>1. PICK c : arg' = [arg EXCEPT ![p].toDisconnect = @ \ {c}] /\ at' = at /\ at[p] = "disconnectAll"
      BY <1>6, <2>2 DEF DisconnectNext
    <3>2. arg'[p].op = arg[p].op /\ at' = [at EXCEPT ![p] = "disconnectAll"]
          /\ \A q \in Procs \ {p} : arg'[q] = arg[q]
      BY <1>0, <3>1 DEF TypeOK, Args
    <3> QED
      BY <1>2, <3>1, <3>2, StageKinds
  <2> QED
    BY <2>1, <2>2
<1>7. CASE RemoveIt(p)
  BY <1>7, OrderlyReturns, StageKinds DEF RemoveIt
<1>8. CASE CheckSuiteLocked(p)
  <2>1. CASE Reply(p)
    BY <1>1, <1>12, <2>1
  <2>2. CASE ~Reply(p)
    <3>1. PICK i : GotoWith(p, "call", [arg[p] EXCEPT !.id = i]) /\ at[p] = "checkSuiteLocked"
      BY <1>8, <2>2 DEF CheckSuiteLocked
    <3>2. [arg[p] EXCEPT !.id = i].op = arg[p].op
      BY <1>0 DEF Args
    <3> QED
      BY <1>12, <1>13, <3>1, <3>2, StageKinds
  <2> QED
    BY <2>1, <2>2
<1>9. CASE EndSuite(p)
  <2>1. CASE EndSuiteReturns(p)
    BY <1>1, <1>2, <1>9, <2>1, StageKinds DEF EndSuite, EndSuiteReturns, Goto
  <2>2. CASE ~EndSuiteReturns(p)
    <3>1. PICK S : GotoWith(p, "prune", [arg[p] EXCEPT !.left = S]) /\ at[p] = "endSuite"
      BY <1>9, <2>2 DEF EndSuite
    <3>2. [arg[p] EXCEPT !.left = S].op = arg[p].op
      BY <1>0 DEF Args
    <3> QED
      BY <1>12, <1>13, <3>1, <3>2, StageKinds
  <2> QED
    BY <2>1, <2>2
<1>10. CASE Prune(p)
  <2>1. CASE Goto(p, "forget") /\ UNCHANGED arg
    BY <1>2, <1>10, <2>1, StageKinds DEF Prune, Goto
  <2>2. CASE ~(Goto(p, "forget") /\ UNCHANGED arg)
    <3>1. PICK x : GotoWith(p, "lockRemove", [arg[p] EXCEPT !.name = x, !.left = @ \ {x}])
                   /\ at[p] = "prune"
      BY <1>10, <2>2 DEF Prune
    <3>2. [arg[p] EXCEPT !.name = x, !.left = @ \ {x}].op = arg[p].op
      BY <1>0 DEF Args
    <3> QED
      BY <1>12, <1>13, <3>1, <3>2, StageKinds
  <2> QED
    BY <2>1, <2>2
<1>11. CASE Forget(p) \/ MoveToResults(p)
  BY <1>1, <1>2, <1>11, StageKinds DEF Forget, MoveToResults, EndSuiteReturns, Goto
<1> QED
  BY <1>3, <1>4, <1>5, <1>6, <1>7, <1>8, <1>9, <1>10, <1>11, <1>12 DEF Step

\* A request arrives: it is for the end of a suite if it goes there.
LEMMA Arrives ==
  ASSUME TypeInv, NEW p \in Handlers, Receive(p)
  PROVE  /\ at'[p] \in {"checkSuite", "lockRemove", "readLock", "endSuite"}
         /\ at'[p] = "endSuite" <=> Ends(p)'
         /\ Ends(p)' => Overlap \/ \A q \in Handlers : at[q] = "idle"
         /\ \A q \in Procs \ {p} : at'[q] = at[q] /\ arg'[q] = arg[q]
<1>1. \A op \in Call : op # "endSuite"
  BY DEF Call
<1>2. PICK s \in Suites :
        \/ \E x \in Names : GotoWith(p, "checkSuite", Request(s, x, None, "create"))
        \/ \E x \in Names : GotoWith(p, "lockRemove", Request(s, x, None, "remove"))
        \/ \E x \in Names, c \in Containers, op \in Call :
             GotoWith(p, "readLock", Request(s, x, c, op))
        \/ /\ Overlap \/ \A q \in Handlers : at[q] = "idle"
           /\ GotoWith(p, "endSuite", Request(s, None, None, "endSuite"))
  BY DEF Receive, TypeInv, TypeOK
<1>3. PICK y \in Names \cup {None}, c \in Containers \cup {None},
           op \in Call \cup {"create", "remove", "endSuite"},
           x \in {"checkSuite", "lockRemove", "readLock", "endSuite"} :
        /\ GotoWith(p, x, Request(s, y, c, op))
        /\ x = "endSuite" <=> op = "endSuite"
        /\ x = "endSuite" => Overlap \/ \A q \in Handlers : at[q] = "idle"
  BY <1>1, <1>2
<1>4. Request(s, y, c, op).op = op
  BY DEF Request
<1>5. /\ at'[p] = x /\ arg'[p] = Request(s, y, c, op)
      /\ \A q \in Procs \ {p} : at'[q] = at[q] /\ arg'[q] = arg[q]
  BY <1>3, HostApart, Goes
<1>6. Ends(p)' <=> op = "endSuite"
  BY <1>4, <1>5 DEF Ends, Serving
<1> QED
  BY <1>3, <1>5, <1>6

\* Terminate moves the host.
LEMMA HostGoes ==
  ASSUME TypeInv, Terminate
  PROVE  /\ at[Host] \in {"terminate", "suites"}
         /\ \/ at'[Host] = "suites" /\ arg'[Host] = arg[Host]
            \/ at'[Host] = "endSuite" /\ Ends(Host)'
            \/ at'[Host] = "done" /\ ~Ends(Host)'
         /\ \A q \in Procs \ {Host} : at'[q] = at[q] /\ arg'[q] = arg[q]
<1>1. CASE TerminateBegin
  <2>1. arg' = arg /\ at' = [at EXCEPT ![Host] = "suites"] /\ at[Host] = "terminate"
    BY <1>1 DEF TerminateBegin, Goto
  <2> QED
    BY <2>1, HostApart DEF TypeInv, TypeOK
<1>2. CASE TerminateSuite
  <2>1. PICK x, a : GotoWith(Host, x, a) /\ at[Host] = "suites"
                    /\ \/ x = "endSuite" /\ a.op = "endSuite"
                       \/ x = "done" /\ a.op = "none"
    <3>1. NoArgs.op = "none" /\ \A s : Request(s, None, None, "endSuite").op = "endSuite"
      BY DEF Request, NoArgs
    <3> QED
      BY <1>2, <3>1 DEF TerminateSuite
  <2> QED
    BY <2>1, HostApart, Goes DEF Ends, Serving
<1> QED
  BY <1>1, <1>2 DEF Terminate

\* Requests arrive, and the host acts, one at a time.
LEMMA OrderlyNext ==
  ASSUME TypeInv, \A p \in Procs : Orderly(p), [Next]_vars
  PROVE  \A p \in Procs : Orderly(p)'
<1>0. TypeOK
  BY DEF TypeInv
<1>1. ASSUME NEW p \in Procs, Orderly(p)',
             \A q \in Procs \ {p} : at'[q] = at[q] /\ arg'[q] = arg[q]
      PROVE  \A q \in Procs : Orderly(q)'
  BY <1>1 DEF Orderly, Ends, Serving
<1>2. ASSUME NEW p \in Handlers, Receive(p) PROVE \A q \in Procs : Orderly(q)'
  <2>1. Orderly(p)'
    BY <1>2, Arrives, StageKinds, HostApart DEF Orderly
  <2> QED
    BY <1>1, <1>2, <2>1, Arrives, HostApart
<1>3. ASSUME NEW p \in Procs, Step(p) PROVE \A q \in Procs : Orderly(q)'
  <2>1. \A q \in Procs \ {p} : at'[q] = at[q] /\ arg'[q] = arg[q]
    BY <1>0, <1>3, OrderlyStep DEF TypeOK
  <2> QED
    BY <1>1, <1>3, <2>1, OrderlyStep
<1>4. CASE Shutdown
  <2>1. /\ at'[Host] = "terminate" /\ arg' = arg /\ at[Host] = "idle"
        /\ \A q \in Procs \ {Host} : at'[q] = at[q]
    BY <1>0, <1>4, HostApart DEF Shutdown, Goto, TypeOK
  <2>2. ~Ends(Host)'
    BY <2>1, HostApart DEF Orderly, Ends, Serving
  <2> QED
    BY <1>1, <2>1, <2>2, StageKinds, HostApart DEF Orderly
<1>5. CASE Terminate
  <2>1. Orderly(Host)'
    BY <1>5, HostGoes, StageKinds, HostApart DEF Orderly, Ends, Serving
  <2> QED
    BY <1>1, <1>5, <2>1, HostGoes, HostApart
<1>6. ASSUME UNCHANGED <<at, arg>> PROVE \A q \in Procs : Orderly(q)'
  BY <1>6 DEF Orderly, Ends, Serving
<1> QED
  BY <1>2, <1>3, <1>4, <1>5, <1>6 DEF Next, DeleteContainer, Finished, vars

LEMMA InOrderNext ==
  ASSUME ~Overlap, TypeInv, InOrder, [Next]_vars PROVE InOrder'
<1>0. TypeOK /\ (\A q \in Procs : Orderly(q)) /\ \A q \in Procs : Orderly(q)'
  BY OrderlyNext DEF TypeInv, InOrder
<1> SUFFICES Solitude'
  BY <1>0 DEF InOrder
\* A goroutine p moves; what it serves, it served before.
<1>1. ASSUME NEW p \in Procs, at[p] # "idle", Ends(p)' => Ends(p),
             at' = [at EXCEPT ![p] = at'[p]], \A q \in Procs \ {p} : arg'[q] = arg[q]
      PROVE  Solitude'
  <2>1. \A q \in Procs \ {p} : at'[q] = at[q] /\ arg'[q] = arg[q]
    BY <1>0, <1>1 DEF TypeOK
  <2>2. ASSUME NEW q \in Handlers, Ends(q)', NEW r \in Handlers \ {q} PROVE at'[r] = "idle"
    <3>1. Ends(q)
      BY <1>1, <2>1, <2>2, HostApart DEF Ends, Serving
    <3>2. at[r] = "idle"
      BY <2>2, <3>1 DEF InOrder, Solitude
    <3> QED
      BY <1>1, <2>1, <3>2, HostApart
  <2>3. ASSUME at'[Host] # "idle", NEW r \in Handlers PROVE at'[r] = "idle"
    <3>1. at[Host] # "idle"
      BY <1>1, <2>1, <2>3, HostApart
    <3> QED
      BY <1>1, <2>1, <3>1, HostApart DEF InOrder, Solitude
  <2> QED
    BY <2>2, <2>3 DEF Solitude
<1>2. ASSUME NEW p \in Handlers, Receive(p) PROVE Solitude'
  <2>1. at[Host] = "idle" /\ \A q \in Handlers : ~Ends(q)
    BY <1>2 DEF Receive, Ends
  <2> QED
    BY <1>2, <2>1, Arrives, HostApart DEF Solitude, Ends, Serving
<1>3. ASSUME NEW p \in Procs, Step(p) PROVE Solitude'
  BY <1>0, <1>1, <1>3, OrderlyStep
<1>4. CASE Shutdown
  <2>1. /\ arg' = arg /\ \A q \in Procs \ {Host} : at'[q] = at[q]
        /\ \A q \in Handlers : at[q] = "idle"
    BY <1>0, <1>4, HostApart DEF Shutdown, Goto, TypeOK
  <2> QED
    BY <2>1, HostApart DEF Solitude
<1>5. CASE Terminate
  <2>1. at[Host] # "idle" /\ \A q \in Procs \ {Host} : at'[q] = at[q] /\ arg'[q] = arg[q]
    BY <1>5, HostGoes
  <2>2. \A q \in Handlers : at[q] = "idle" /\ at'[q] = "idle"
    BY <2>1, HostApart DEF InOrder, Solitude
  <2> QED
    BY <2>2 DEF Solitude
<1>6. ASSUME UNCHANGED <<at, arg>> PROVE Solitude'
  BY <1>6 DEF InOrder, Solitude, Ends, Serving
<1> QED
  BY <1>2, <1>3, <1>4, <1>5, <1>6 DEF Next, DeleteContainer, Finished, vars

\* While a suite is ended, or the program terminates, nobody else does anything.
Ender(q) == (Ends(q) \/ q = Host) /\ at[q] # "idle"
LEMMA Solo ==
  ASSUME ~Overlap, TypeInv, InOrder, [Next]_vars, NEW q \in Procs, Ender(q)
  PROVE  /\ Step(q) \/ (q = Host /\ Terminate) \/ UNCHANGED vars
         /\ \A p \in Procs \ {q} : at[p] = "idle" /\ at'[p] = "idle"
<1>0. /\ \A p \in Procs : Orderly(p)
      /\ q \in Handlers => Ends(q)
  BY HostApart DEF InOrder, Ender
<1>1. \A p \in Procs \ {q} : at[p] = "idle"
  <2>1. CASE q = Host
    BY <2>1 DEF InOrder, Solitude, Ender, Procs
  <2>2. CASE q \in Handlers
    BY <1>0, <2>2 DEF InOrder, Solitude, Ender, Procs
  <2> QED
    BY <2>1, <2>2 DEF Procs
<1>2. Step(q) \/ (q = Host /\ Terminate) \/ UNCHANGED vars
  <2>1. ASSUME NEW p \in Handlers, Receive(p) PROVE FALSE
    BY <1>0, <2>1 DEF Receive, Ender, Ends, Procs
  <2>2. ASSUME NEW p \in Procs, Step(p) PROVE Step(q)
    BY <1>0, <1>1, <2>2, OrderlyStep
  <2>3. CASE Shutdown
    BY <2>3 DEF Shutdown, Ender, Procs
  <2>4. CASE Terminate
    BY <1>1, <2>4, HostApart DEF Terminate, TerminateBegin, TerminateSuite
  <2>5. ASSUME NEW c \in Containers, DeleteContainer(c) PROVE FALSE
    BY <2>5 DEF DeleteContainer, EndsSuites, Ender, Ends
  <2> QED
    BY <2>1, <2>2, <2>3, <2>4, <2>5 DEF Next, Finished
<1>3. ASSUME NEW p \in Procs \ {q} PROVE at'[p] = "idle"
  <2>1. CASE Step(q)
    <3>1. at' = [at EXCEPT ![q] = at'[q]]
      BY <1>0, <2>1, OrderlyStep
    <3> QED
      BY <1>1, <3>1 DEF TypeInv, TypeOK
  <2>2. CASE q = Host /\ Terminate
    <3>1. PICK x : at' = [at EXCEPT ![q] = x]
      BY <2>2 DEF Terminate, TerminateBegin, TerminateSuite, GotoWith, Goto
    <3> QED
      BY <1>1, <3>1 DEF TypeInv, TypeOK
  <2>3. CASE UNCHANGED vars
    BY <1>1, <2>3 DEF vars
  <2> QED
    BY <1>2, <2>1, <2>2, <2>3
<1> QED
  BY <1>1, <1>2, <1>3

\* The network found is disconnected from the containers it has.
LEMMA Finds ==
  ASSUME ~Faulty, TypeInv, NEW p \in Procs, FindRemove(p),
         arg[p].name \in Recorded(arg[p].suite)
  PROVE  \E a \in Args :
           /\ GotoWith(p, "disconnectAll", a) /\ a.suite = arg[p].suite /\ a.name = arg[p].name
           /\ a.op = arg[p].op /\ a.left = arg[p].left /\ a.failed = arg[p].failed
<1> DEFINE i == networks[arg[p].suite][arg[p].name]
           S == docker[i].attached
           a == [arg[p] EXCEPT !.id = i, !.toDisconnect = S]
<1>1. i # NoNetwork
  BY DEF Recorded
<1>2. GotoWith(p, "disconnectAll", a)
  BY <1>1 DEF FindRemove
<1>3. arg[p] \in Args /\ arg[p].suite \in Suites /\ arg[p].name \in Names
  BY DEF TypeInv, TypeOK, Control, Fits, FindRemove, Named
<1>4. i \in Networks /\ S \in SUBSET Containers
  BY <1>1, <1>3, DockerType DEF TypeInv, TypeOK
<1>5. /\ a \in Args /\ a.suite = arg[p].suite /\ a.name = arg[p].name
      /\ a.op = arg[p].op /\ a.left = arg[p].left /\ a.failed = arg[p].failed
  <2> HIDE DEF i, S
  <2> QED
    BY <1>3, <1>4 DEF Args
<1> HIDE DEF a
<1> QED
  BY <1>2, <1>5

\* The goroutine that moves keeps pace.
LEMMA KeepsPaceStep ==
  ASSUME TypeInv, Agree, NEW p \in Procs, KeepsPace(p), Step(p)
  PROVE  KeepsPace(p)'
<1>0. TypeOK /\ arg[p] \in Args
  BY DEF TypeInv, TypeOK
<1>1. ASSUME NEW x, NEW a, GotoWith(p, x, a), x \notin {"disconnectAll", "lockCreate", "create"}
      PROVE  KeepsPace(p)'
  <2>1. at'[p] = x
    BY <1>1, Goes
  <2> QED
    BY <1>1, <2>1 DEF KeepsPace
<1>2. ASSUME NEW x, Goto(p, x), x \notin {"disconnectAll", "lockCreate", "create"}
      PROVE  KeepsPace(p)'
  <2>1. at'[p] = x
    BY <1>0, <1>2 DEF Goto, TypeOK
  <2> QED
    BY <1>2, <2>1 DEF KeepsPace
<1>3. ASSUME RemoveReturns(p, TRUE) \/ RemoveReturns(p, FALSE) PROVE KeepsPace(p)'
  BY <1>1, <1>3 DEF RemoveReturns, Release, Reply
<1>4. CASE CheckSuite(p) \/ LockCreate(p)
  <2>1. CASE Reply(p)
    BY <1>1, <2>1 DEF Reply
  <2>2. CASE ~Reply(p)
    <3>1. /\ at'[p] \in {"lockCreate", "create"} /\ arg' = arg
          /\ arg[p].suite \in runningTestSuites /\ UNCHANGED runningTestSuites
      BY <1>0, <1>4, <2>2 DEF CheckSuite, LockCreate, Goto, TypeOK, KeepsPace
    <3> QED
      BY <3>1 DEF KeepsPace
  <2> QED
    BY <2>1, <2>2
<1>5. CASE Create(p) \/ CallBackend(p)
  BY <1>1, <1>5 DEF Create, CallBackend, Reply
<1>6. CASE LockRemove(p) \/ ReadLock(p) \/ Forget(p)
  BY <1>2, <1>6 DEF LockRemove, ReadLock, Forget
<1>7. CASE FindRemove(p)
  <2>1. CASE RemoveReturns(p, TRUE)
    BY <1>3, <2>1
  <2>2. CASE ~RemoveReturns(p, TRUE)
    <3> DEFINE i == networks[arg[p].suite][arg[p].name]
               S == docker[i].attached
    <3>1. GotoWith(p, "disconnectAll", [arg[p] EXCEPT !.id = i, !.toDisconnect = S])
          /\ UNCHANGED docker
      BY <1>7, <2>2 DEF FindRemove
    <3>2. /\ at'[p] = "disconnectAll" /\ arg'[p].id = i
          /\ arg'[p].toDisconnect = S
      <4> DEFINE a == [arg[p] EXCEPT !.id = i, !.toDisconnect = S]
      <4>1. a.id = i /\ a.toDisconnect = S
        <5> HIDE DEF i, S
        <5> QED
          BY <1>0 DEF Args
      <4>2. GotoWith(p, "disconnectAll", a)
        BY <3>1
      <4> HIDE DEF a
      <4> QED
        BY <4>1, <4>2, Goes
    <3> QED
      BY <3>1, <3>2 DEF KeepsPace
  <2> QED
    BY <2>1, <2>2
<1>8. CASE DisconnectNext(p)
  <2>1. CASE RemoveReturns(p, TRUE)
    BY <1>3, <2>1
  <2>2. CASE ~RemoveReturns(p, TRUE)
    <3>1. PICK c : /\ docker' = [docker EXCEPT ![arg[p].id].attached = @ \ {c}]
                   /\ arg' = [arg EXCEPT ![p].toDisconnect = @ \ {c}]
                   /\ at' = at /\ at[p] = "disconnectAll"
      BY <1>8, <2>2 DEF DisconnectNext
    <3>2. /\ arg[p].id \in Networks
          /\ Ends(p) => arg[p].toDisconnect \subseteq docker[arg[p].id].attached
      BY <3>1 DEF Agree, LookedUp, KeepsPace
    <3>3. /\ arg'[p].id = arg[p].id /\ arg'[p].op = arg[p].op
          /\ arg'[p].toDisconnect = arg[p].toDisconnect \ {c}
      BY <1>0, <3>1 DEF TypeOK, Args
    <3>4. docker'[arg[p].id].attached = docker[arg[p].id].attached \ {c}
      BY <1>0, <3>1, <3>2 DEF TypeOK, DockerNetwork
    <3> QED
      BY <3>1, <3>2, <3>3, <3>4 DEF KeepsPace, Ends, Serving
  <2> QED
    BY <2>1, <2>2
<1>9. CASE RemoveIt(p)
  BY <1>3, <1>9 DEF RemoveIt
<1>10. CASE CheckSuiteLocked(p)
  BY <1>1, <1>10 DEF CheckSuiteLocked, Reply
<1>11. CASE EndSuite(p) \/ MoveToResults(p)
  BY <1>1, <1>2, <1>11 DEF EndSuite, MoveToResults, EndSuiteReturns, Reply
<1>12. CASE Prune(p)
  <2>1. CASE Goto(p, "forget")
    BY <1>2, <2>1
  <2>2. CASE ~Goto(p, "forget")
    <3>1. PICK a : GotoWith(p, "lockRemove", a)
      BY <1>12, <2>2 DEF Prune
    <3> QED
      BY <1>1, <3>1
  <2> QED
    BY <2>1, <2>2
<1> QED
  BY <1>4, <1>5, <1>6, <1>7, <1>8, <1>9, <1>10, <1>11, <1>12 DEF Step

LEMMA NamedNext ==
  ASSUME TypeInv, Agree, NetworksNamed, [Next]_vars PROVE NetworksNamed'
<1>0. TypeOK
  BY DEF TypeInv
<1>1. ASSUME \A i \in Networks : docker'[i].exists => docker[i].exists /\ docker'[i].name = docker[i].name
      PROVE  NetworksNamed'
  BY <1>1 DEF NetworksNamed
<1>2. ASSUME UNCHANGED docker PROVE NetworksNamed'
  BY <1>2 DEF NetworksNamed
<1>3. ASSUME NEW p \in Procs, Step(p) PROVE NetworksNamed'
  <2>1. CASE Create(p)
    <3>1. arg[p].name \in Names
      BY <2>1 DEF TypeInv, Control, Fits, Create, Named
    <3>2. CASE UNCHANGED docker
      BY <1>2, <3>2
    <3>3. CASE ~UNCHANGED docker
      <4>1. PICK i : docker' = [docker EXCEPT ![i] =
                  [exists |-> TRUE, suite |-> arg[p].suite, name |-> arg[p].name, attached |-> {}]]
        BY <2>1, <3>3 DEF Create
      <4>2. \A j \in Networks : docker'[j] = docker[j] \/ docker'[j].name = arg[p].name
        BY <1>0, <4>1 DEF TypeOK
      <4> QED
        BY <3>1, <4>2 DEF NetworksNamed
    <3> QED
      BY <3>2, <3>3
  <2>2. CASE DisconnectNext(p) \/ CallBackend(p)
    <3>1. CASE UNCHANGED docker
      BY <1>2, <3>1
    <3>2. CASE ~UNCHANGED docker
      <4>1. PICK S : docker' = [docker EXCEPT ![arg[p].id].attached = S]
        BY <2>2, <3>2 DEF DisconnectNext, CallBackend
      <4> QED
        BY <1>0, <1>1, <4>1, AttachedOnly
    <3> QED
      BY <3>1, <3>2
  <2>3. CASE RemoveIt(p)
    <3>1. UNCHANGED docker \/ docker' = [docker EXCEPT ![arg[p].id] = NoDocker]
      BY <2>3 DEF RemoveIt
    <3>2. \A j \in Networks : docker'[j].exists => docker'[j] = docker[j]
      BY <1>0, <3>1, DockerType DEF TypeOK
    <3> QED
      BY <1>1, <3>2
  <2> QED
    BY <1>2, <1>3, <2>1, <2>2, <2>3
    DEF Step, CheckSuite, LockCreate, LockRemove, FindRemove, ReadLock, CheckSuiteLocked,
        EndSuite, Prune, Forget, MoveToResults
<1>4. ASSUME NEW c \in Containers, DeleteContainer(c) PROVE NetworksNamed'
  <2>1. \A j \in Networks : docker'[j].exists = docker[j].exists /\ docker'[j].name = docker[j].name
    BY <1>0, <1>4 DEF DeleteContainer, TypeOK, DockerNetwork
  <2> QED
    BY <1>1, <2>1
<1> QED
  BY <1>2, <1>3, <1>4
  DEF Next, Receive, Shutdown, Terminate, TerminateBegin, TerminateSuite, Finished, vars

\* The end of a suite, step by step: what is recorded is pruned, then forgotten.
LEMMA PrunesAllStep ==
  ASSUME ~Overlap, ~Duplicates, ~Faulty, OrderedInv, NEW p \in Procs, Ender(p), Step(p),
         \A q \in Procs \ {p} : at[q] = "idle"
  PROVE  PrunesAll(p)' /\ EndedSuiteHasNoNetwork'
<1>0. /\ TypeInv /\ TypeOK /\ Control /\ NetworkLock /\ Agree /\ Tracked
      /\ PrunesAll(p) /\ KeepsPace(p) /\ Orderly(p) /\ EndedSuiteHasNoNetwork
      /\ arg[p] \in Args
  BY DEF OrderedInv, Inv, InOrder, TypeInv, TypeOK
<1>1. Ends(p) /\ at[p] \in Removing \cup Ending /\ arg[p].suite \in Suites
  <2>1. at[p] \notin {"suites", "terminate", "done", "idle"}
    BY DEF Step, CheckSuite, LockCreate, Create, LockRemove, FindRemove, DisconnectNext, RemoveIt,
           ReadLock, CheckSuiteLocked, CallBackend, EndSuite, Prune, Forget, MoveToResults
  <2>2. Ends(p) /\ at[p] \in Removing \cup Ending
    BY <1>0, <2>1 DEF Orderly, Ender, Named, Ending, Removing
  <2> QED
    BY <1>0, <2>2 DEF Control, Fits, Ends, Serving
\* Most steps leave the running suites and the networks of docker alone.
<1>2. ASSUME UNCHANGED runningTestSuites,
             \A i \in Networks : docker'[i].exists => docker[i].exists
                                 /\ docker'[i].suite = docker[i].suite
      PROVE  EndedSuiteHasNoNetwork'
  BY <1>0, <1>2 DEF EndedSuiteHasNoNetwork
<1>3. ASSUME at'[p] \notin Removing \cup Ending PROVE PrunesAll(p)'
  BY <1>3 DEF PrunesAll, Removing, Ending
<1>4. CASE LockRemove(p)
  <2>1. /\ at'[p] = "findRemove" /\ arg' = arg /\ at[p] = "lockRemove"
        /\ UNCHANGED <<networks, docker, runningTestSuites>>
    BY <1>0, <1>4 DEF LockRemove, Goto, TypeOK
  <2> QED
    BY <1>0, <1>1, <1>2, <2>1 DEF PrunesAll, Removing, Unpruned, Recorded
<1>5. CASE FindRemove(p)
  <2>1. arg[p].name \in Recorded(arg[p].suite) /\ at[p] = "findRemove"
        /\ UNCHANGED <<networks, docker, runningTestSuites>>
    BY <1>0, <1>1, <1>5 DEF FindRemove, PrunesAll, Removing
  <2>2. PICK a \in Args :
           /\ GotoWith(p, "disconnectAll", a) /\ a.suite = arg[p].suite /\ a.name = arg[p].name
           /\ a.op = arg[p].op /\ a.left = arg[p].left /\ a.failed = arg[p].failed
    BY <1>0, <1>5, <2>1, Finds
  <2>3. at'[p] = "disconnectAll" /\ arg'[p] = a
    BY <1>0, <2>2, Goes
  <2> QED
    BY <1>0, <1>1, <1>2, <2>1, <2>2, <2>3 DEF PrunesAll, Removing, Unpruned, Recorded
<1>6. CASE DisconnectNext(p)
  <2>1. PICK c : /\ docker' = [docker EXCEPT ![arg[p].id].attached = @ \ {c}]
                 /\ arg' = [arg EXCEPT ![p].toDisconnect = @ \ {c}]
                 /\ at' = at /\ at[p] = "disconnectAll"
                 /\ UNCHANGED <<networks, runningTestSuites>>
    BY <1>0, <1>1, <1>6 DEF DisconnectNext, KeepsPace
  <2>2. \A i \in Networks : docker'[i].exists = docker[i].exists /\ docker'[i].suite = docker[i].suite
    BY <1>0, <2>1, AttachedOnly
  <2>3. /\ arg'[p].suite = arg[p].suite /\ arg'[p].name = arg[p].name
        /\ arg'[p].left = arg[p].left /\ arg'[p].failed = arg[p].failed
    BY <1>0, <2>1 DEF TypeOK, Args
  <2> QED
    BY <1>0, <1>1, <1>2, <2>1, <2>2, <2>3 DEF PrunesAll, Removing, Unpruned, Recorded
<1>7. CASE RemoveIt(p)
  <2>1. /\ docker' = [docker EXCEPT ![arg[p].id] = NoDocker] /\ UNCHANGED runningTestSuites
        /\ networks' = [networks EXCEPT ![arg[p].suite][arg[p].name] = NoNetwork]
        /\ RemoveReturns(p, FALSE) /\ at[p] = "disconnectAll"
    BY <1>7 DEF RemoveIt, Forgotten
  <2>2. PICK a \in Args : /\ GotoWith(p, "prune", a) /\ a.suite = arg[p].suite
                          /\ a.left = arg[p].left /\ a.failed = arg[p].failed
    BY <1>0, <1>1, <2>1, Collects DEF Removing
  <2>3. at'[p] = "prune" /\ arg'[p] = a
    BY <1>0, <2>2, Goes
  <2>4. \A x \in Names : x = arg[p].name => networks'[arg[p].suite][x] = NoNetwork
    BY <1>0, <1>1, <2>1 DEF TypeOK
  <2>5. \A x \in Names : x # arg[p].name => networks'[arg[p].suite][x] = networks[arg[p].suite][x]
    BY <1>0, <1>1, <2>1 DEF TypeOK
  <2>6. /\ arg[p].suite \in runningTestSuites /\ arg[p].failed = {}
        /\ Recorded(arg[p].suite) \subseteq arg[p].left \cup {arg[p].name}
    BY <1>0, <1>1, <2>1 DEF PrunesAll, Unpruned, Removing
  <2>7. {x \in Names : networks'[arg[p].suite][x] # NoNetwork} \subseteq arg[p].left
    BY <2>4, <2>5, <2>6 DEF Recorded
  <2>8. PrunesAll(p)'
    BY <2>1, <2>2, <2>3, <2>6, <2>7 DEF PrunesAll, Unpruned, Removing, Recorded
  <2>9. \A i \in Networks : docker'[i].exists => docker'[i] = docker[i]
    BY <1>0, <2>1, DockerType DEF TypeOK
  <2> QED
    BY <1>2, <2>1, <2>8, <2>9
<1>8. CASE EndSuite(p)
  <2>1. UNCHANGED <<networks, docker, runningTestSuites>> /\ at[p] = "endSuite"
    BY <1>8 DEF EndSuite
  <2>2. CASE EndSuiteReturns(p)
    <3>1. at'[p] \in {"suites", "idle"}
      BY <1>0, <2>2 DEF EndSuiteReturns, Reply, GotoWith, Goto, TypeOK
    <3> QED
      BY <1>2, <1>3, <2>1, <3>1 DEF Removing, Ending
  <2>3. CASE ~EndSuiteReturns(p)
    <3> DEFINE L == Recorded(arg[p].suite)
               a == [arg[p] EXCEPT !.left = L]
    <3>1. arg[p].suite \in runningTestSuites /\ GotoWith(p, "prune", a)
      BY <1>8, <2>3 DEF EndSuite
    <3>2. a.suite = arg[p].suite /\ a.left = L /\ a.failed = arg[p].failed
      <4> HIDE DEF L
      <4> QED
        BY <1>0 DEF Args
    <3>3. at'[p] = "prune" /\ arg'[p] = a
      BY <1>0, <3>1, Goes
    <3>4. arg[p].failed = {}
      BY <1>0, <2>1 DEF PrunesAll
    <3> HIDE DEF a
    <3> QED
      BY <1>2, <2>1, <3>1, <3>2, <3>3, <3>4 DEF PrunesAll, Unpruned, Removing, Recorded
  <2> QED
    BY <2>2, <2>3
<1>9. CASE Prune(p)
  <2>1. /\ UNCHANGED <<networks, docker, runningTestSuites>> /\ at[p] = "prune"
        /\ arg[p].suite \in runningTestSuites /\ arg[p].failed = {}
        /\ Recorded(arg[p].suite) \subseteq arg[p].left
    BY <1>0, <1>1, <1>9 DEF Prune, PrunesAll, Unpruned, Removing
  <2>2. ASSUME NEW x \in Recorded(arg[p].suite),
               GotoWith(p, "lockRemove", [arg[p] EXCEPT !.name = x, !.left = @ \ {x}])
        PROVE  PrunesAll(p)'
    <3> DEFINE a == [arg[p] EXCEPT !.name = x, !.left = @ \ {x}]
    <3>1. /\ a.suite = arg[p].suite /\ a.name = x /\ a.left = arg[p].left \ {x}
          /\ a.failed = arg[p].failed
      BY <1>0 DEF Args
    <3>2. at'[p] = "lockRemove" /\ arg'[p] = a
      BY <1>0, <2>2, Goes
    <3> HIDE DEF a
    <3> QED
      BY <2>1, <2>2, <3>1, <3>2 DEF PrunesAll, Unpruned, Removing, Recorded
  <2>3. CASE arg[p].left \cap Recorded(arg[p].suite) = {} /\ Goto(p, "forget") /\ UNCHANGED arg
    <3>1. at'[p] = "forget" /\ Recorded(arg[p].suite) = {}
      BY <1>0, <2>1, <2>3 DEF Goto, TypeOK
    <3>2. ASSUME NEW i \in Networks, docker[i].exists, docker[i].suite = arg[p].suite
          PROVE  FALSE
      <4>1. ~\E q \in Procs : at[q] = "move"
        BY <2>1
      <4>2. networks[arg[p].suite][docker[i].name] = i
        BY <1>0, <2>1, <3>2, <4>1 DEF Tracked, SuiteNetworksRecorded
      <4>3. i # NoNetwork /\ docker[i].name \in Names
        <5>1. i # NoNetwork
          BY DEF Networks, NoNetwork
        <5> QED
          BY <3>2, <5>1 DEF OrderedInv, NetworksNamed
      <4> QED
        BY <3>1, <4>2, <4>3 DEF Recorded
    <3>3. \A i \in Networks : docker'[i].exists => docker'[i].suite # arg'[p].suite
      BY <2>1, <2>3, <3>2
    <3> QED
      BY <1>2, <2>1, <2>3, <3>1, <3>3 DEF PrunesAll, Removing
  <2> QED
    BY <1>2, <1>9, <2>1, <2>2, <2>3 DEF Prune
<1>10. CASE Forget(p)
  <2>1. at[p] = "forget" /\ at'[p] = "move" /\ UNCHANGED <<arg, docker, runningTestSuites>>
    BY <1>0, <1>10 DEF Forget, Goto, TypeOK
  <2> QED
    BY <1>0, <1>2, <2>1 DEF PrunesAll, Removing
<1>11. CASE MoveToResults(p)
  <2>1. /\ at[p] = "move" /\ UNCHANGED docker
        /\ runningTestSuites' = runningTestSuites \ {arg[p].suite}
    BY <1>11 DEF MoveToResults
  <2>2. at'[p] \in {"suites", "idle"}
    BY <1>0, <1>11 DEF MoveToResults, EndSuiteReturns, Reply, GotoWith, Goto, TypeOK
  <2>3. EndedSuiteHasNoNetwork'
    BY <1>0, <2>1 DEF EndedSuiteHasNoNetwork, PrunesAll
  <2> QED
    BY <1>3, <2>2, <2>3 DEF Removing, Ending
<1> QED
  BY <1>1, <1>4, <1>5, <1>6, <1>7, <1>8, <1>9, <1>10, <1>11
  DEF Step, CheckSuite, LockCreate, Create, ReadLock, CheckSuiteLocked, CallBackend,
      Removing, Ending

\* Nobody ends a suite: a step of a goroutine that holds networkMutex to write is
\* the only one that touches docker, and only a suite's end takes it out.
LEMMA OthersKeep ==
  ASSUME TypeInv, NetworkLock, NEW p \in Procs, ~Ends(p), Orderly(p), Step(p),
         NEW r \in Procs \ {p}, KeepsPace(r), at'[r] = at[r], arg'[r] = arg[r]
  PROVE  KeepsPace(r)'
<1>1. ~Forget(p) /\ ~MoveToResults(p) /\ UNCHANGED runningTestSuites
  BY DEF Orderly, Ending, Forget, MoveToResults, Step, CheckSuite, LockCreate, Create, LockRemove,
         FindRemove, DisconnectNext, RemoveIt, ReadLock, CheckSuiteLocked, CallBackend, EndSuite,
         Prune
<1>2. ASSUME at[r] = "disconnectAll" PROVE UNCHANGED docker
  <2>1. at[p] \notin Exclusive \cup Shared
    BY <1>2, StageLock DEF NetworkLock, Exclusive, Shared
  <2> QED
    BY <2>1 DEF Exclusive, Shared, Step, CheckSuite, LockCreate, Create, LockRemove, FindRemove,
                DisconnectNext, RemoveIt, ReadLock, CheckSuiteLocked, CallBackend, EndSuite,
                Prune, Forget, MoveToResults
<1> QED
  BY <1>1, <1>2 DEF KeepsPace, Ends, Serving

\* A request that does not end a suite creates networks of running suites only.
LEMMA RequestStep ==
  ASSUME TypeInv, NetworkLock, Agree, EndedSuiteHasNoNetwork, NEW p \in Procs, KeepsPace(p),
         ~Ends(p), Orderly(p), Step(p)
  PROVE  EndedSuiteHasNoNetwork'
<1>0. TypeOK
  BY DEF TypeInv
<1>1. UNCHANGED runningTestSuites
  BY DEF Orderly, Ending, MoveToResults, Step, CheckSuite, LockCreate, Create, LockRemove,
         FindRemove, DisconnectNext, RemoveIt, ReadLock, CheckSuiteLocked, CallBackend, EndSuite,
         Prune, Forget
<1>2. ASSUME \A i \in Networks : docker'[i].exists =>
               \/ docker'[i].suite \in runningTestSuites
               \/ docker[i].exists /\ docker'[i].suite = docker[i].suite
      PROVE  EndedSuiteHasNoNetwork'
  BY <1>1, <1>2 DEF EndedSuiteHasNoNetwork
<1>3. CASE UNCHANGED docker
  BY <1>2, <1>3
<1>4. CASE Create(p) /\ ~UNCHANGED docker
  <2>1. PICK i : docker' = [docker EXCEPT ![i] =
              [exists |-> TRUE, suite |-> arg[p].suite, name |-> arg[p].name, attached |-> {}]]
    BY <1>4 DEF Create
  <2>2. \A j \in Networks : docker'[j] = docker[j] \/ docker'[j].suite = arg[p].suite
    BY <1>0, <2>1 DEF TypeOK
  <2>3. arg[p].suite \in runningTestSuites
    BY <1>4 DEF Create, KeepsPace
  <2> QED
    BY <1>2, <2>2, <2>3
<1>5. CASE (DisconnectNext(p) \/ CallBackend(p)) /\ ~UNCHANGED docker
  <2>1. PICK S : docker' = [docker EXCEPT ![arg[p].id].attached = S]
    BY <1>5 DEF DisconnectNext, CallBackend
  <2> QED
    BY <1>0, <1>2, <2>1, AttachedOnly
<1>6. CASE RemoveIt(p) /\ ~UNCHANGED docker
  <2>1. docker' = [docker EXCEPT ![arg[p].id] = NoDocker]
    BY <1>6 DEF RemoveIt
  <2>2. \A j \in Networks : docker'[j].exists => docker'[j] = docker[j]
    BY <1>0, <2>1, DockerType DEF TypeOK
  <2> QED
    BY <1>2, <2>2
<1> QED
  BY <1>3, <1>4, <1>5, <1>6
  DEF Step, CheckSuite, LockCreate, LockRemove, FindRemove, ReadLock, CheckSuiteLocked,
      EndSuite, Prune, Forget, MoveToResults

LEMMA OrderedNext ==
  ASSUME ~Overlap, ~Duplicates, ~Faulty, OrderedInv, [Next]_vars PROVE OrderedInv'
<1>0. /\ Inv /\ TypeInv /\ TypeOK /\ NetworkLock /\ Agree /\ InOrder /\ EndedSuiteHasNoNetwork
      /\ \A q \in Procs : PrunesAll(q) /\ KeepsPace(q) /\ Orderly(q)
  BY DEF OrderedInv, Inv, TypeInv, InOrder
<1>1. Inv' /\ InOrder' /\ NetworksNamed'
  BY TypeNext, LockNext, AgreeNext, TrackedNext, InOrderNext, NamedNext DEF OrderedInv, Inv
<1>2. ASSUME UNCHANGED <<docker, runningTestSuites>> PROVE EndedSuiteHasNoNetwork'
  BY <1>0, <1>2 DEF EndedSuiteHasNoNetwork
<1>3. ASSUME NEW q \in Procs, at'[q] \in {"idle", "terminate", "suites", "done"}
      PROVE  PrunesAll(q)' /\ KeepsPace(q)'
  BY <1>3 DEF PrunesAll, KeepsPace, Removing
<1>4. CASE UNCHANGED vars
  <2>1. \A q \in Procs : PrunesAll(q)' /\ KeepsPace(q)'
    BY <1>0, <1>4 DEF vars, PrunesAll, KeepsPace, Ends, Serving, Unpruned, Recorded
  <2> QED
    BY <1>1, <1>2, <1>4, <2>1 DEF vars, OrderedInv
<1>5. ASSUME NEW q \in Procs, Ender(q), ~UNCHANGED vars PROVE OrderedInv'
  <2>1. /\ Step(q) \/ (q = Host /\ Terminate)
        /\ \A p \in Procs \ {q} : at[p] = "idle" /\ at'[p] = "idle"
    BY <1>0, <1>5, Solo
  <2>2. PrunesAll(q)' /\ KeepsPace(q)' /\ EndedSuiteHasNoNetwork'
    <3>1. CASE Step(q)
      BY <1>0, <1>5, <2>1, <3>1, PrunesAllStep, KeepsPaceStep
    <3>2. CASE q = Host /\ Terminate
      <4>1. UNCHANGED <<docker, runningTestSuites>>
        BY <3>2 DEF Terminate, TerminateBegin, TerminateSuite
      <4>2. CASE at'[q] \in {"suites", "done"}
        BY <1>2, <1>3, <4>1, <4>2
      <4>3. CASE at'[q] \notin {"suites", "done"}
        <5>1. PICK s : GotoWith(Host, "endSuite", Request(s, None, None, "endSuite"))
          BY <1>0, <3>2, <4>3 DEF Terminate, TerminateBegin, TerminateSuite, GotoWith, Goto, TypeOK
        <5>2. at'[q] = "endSuite" /\ arg'[q].failed = {}
          BY <1>0, <3>2, <5>1, Goes DEF Request
        <5> QED
          BY <1>2, <4>1, <5>2 DEF PrunesAll, KeepsPace, Removing
      <4> QED
        BY <4>2, <4>3
    <3> QED
      BY <2>1, <3>1, <3>2
  <2> QED
    BY <1>1, <1>3, <2>1, <2>2 DEF OrderedInv
<1>6. ASSUME \A q \in Procs : ~Ender(q) PROVE OrderedInv'
  <2>1. at[Host] = "idle" /\ \A q \in Procs : ~Ends(q)
    BY <1>0, <1>6, HostApart DEF Ender, Orderly
  <2>2. ASSUME NEW p \in Handlers, Receive(p) PROVE OrderedInv'
    <3>1. PICK stage \in {"checkSuite", "lockRemove", "readLock", "endSuite"} :
             \E s, x, c, op : GotoWith(p, stage, Request(s, x, c, op))
      <4>1. PICK s \in runningTestSuites :
              \/ \E x \in Names : GotoWith(p, "checkSuite", Request(s, x, None, "create"))
              \/ \E x \in Names : GotoWith(p, "lockRemove", Request(s, x, None, "remove"))
              \/ \E x \in Names, c \in Containers, op \in Call :
                   GotoWith(p, "readLock", Request(s, x, c, op))
              \/ GotoWith(p, "endSuite", Request(s, None, None, "endSuite"))
        BY <2>2 DEF Receive
      <4> QED
        BY <4>1
    <3>2. /\ at'[p] = stage /\ arg'[p].failed = {}
          /\ \A q \in Procs \ {p} : at'[q] = at[q] /\ arg'[q] = arg[q]
      BY <1>0, <3>1, Goes, HostApart DEF Request
    <3>3. UNCHANGED <<networks, docker, runningTestSuites>>
      BY <2>2 DEF Receive
    <3>4. \A q \in Procs : Orderly(q)'
      BY <1>1 DEF InOrder
    <3>5. PrunesAll(p)' /\ KeepsPace(p)'
      <4>1. stage = "lockRemove" => ~Ends(p)'
        BY <2>2, <3>2, <1>0 DEF Receive, GotoWith, Goto, Request, Ends, Serving, TypeOK
      <4> QED
        BY <3>1, <3>2, <4>1 DEF PrunesAll, KeepsPace, Removing
    <3>6. \A q \in Procs \ {p} : PrunesAll(q)' /\ KeepsPace(q)'
      BY <1>0, <3>2, <3>3 DEF PrunesAll, KeepsPace, Ends, Serving, Unpruned, Recorded
    <3> QED
      BY <1>1, <1>2, <3>3, <3>5, <3>6 DEF OrderedInv
  <2>3. ASSUME NEW p \in Procs, Step(p) PROVE OrderedInv'
    <3>1. /\ Orderly(p)' /\ ~Ends(p)'
          /\ at' = [at EXCEPT ![p] = at'[p]] /\ \A q \in Procs \ {p} : arg'[q] = arg[q]
      BY <1>0, <2>1, <2>3, OrderlyStep
    <3>2. \A q \in Procs \ {p} : at'[q] = at[q] /\ arg'[q] = arg[q]
      BY <1>0, <3>1 DEF TypeOK
    <3>3. \A q \in Procs : ~Ends(q)' /\ Orderly(q)'
      BY <1>1, <2>1, <3>1, <3>2 DEF Ends, Serving, InOrder
    <3>4. \A q \in Procs : PrunesAll(q)'
      BY <3>3 DEF PrunesAll, Orderly, Ending
    <3>5. KeepsPace(p)' /\ \A q \in Procs \ {p} : KeepsPace(q)'
      BY <1>0, <2>1, <2>3, <3>2, KeepsPaceStep, OthersKeep
    <3>6. EndedSuiteHasNoNetwork'
      BY <1>0, <2>1, <2>3, RequestStep
    <3> QED
      BY <1>1, <3>4, <3>5, <3>6 DEF OrderedInv
  <2>4. CASE Shutdown
    <3>1. UNCHANGED <<networks, docker, runningTestSuites, arg>> /\ at'[Host] = "terminate"
          /\ \A q \in Procs \ {Host} : at'[q] = "idle"
      BY <1>0, <2>4, HostApart DEF Shutdown, Goto, TypeOK, Procs
    <3> QED
      BY <1>1, <1>2, <1>3, <3>1 DEF OrderedInv
  <2>5. CASE Terminate
    BY <2>1, <2>5 DEF Terminate, TerminateBegin, TerminateSuite
  <2>6. ASSUME NEW c \in Containers, DeleteContainer(c) PROVE OrderedInv'
    <3>1. /\ UNCHANGED <<runningTestSuites, networks, at, arg>>
          /\ \A i \in Networks : docker'[i].exists = docker[i].exists
                                 /\ docker'[i].suite = docker[i].suite
      BY <1>0, <2>6 DEF DeleteContainer, TypeOK, DockerNetwork
    <3>2. EndedSuiteHasNoNetwork'
      BY <1>0, <3>1 DEF EndedSuiteHasNoNetwork
    <3>3. ASSUME NEW q \in Procs PROVE PrunesAll(q)' /\ KeepsPace(q)'
      BY <1>0, <2>1, <3>1 DEF PrunesAll, KeepsPace, Orderly, Ends, Serving, Ending
    <3> QED
      BY <1>1, <3>2, <3>3 DEF OrderedInv
  <2> QED
    BY <1>4, <2>2, <2>3, <2>4, <2>5, <2>6 DEF Next, Finished
<1> QED
  BY <1>4, <1>5, <1>6

LEMMA OrderedInit == Init => OrderedInv
<1> SUFFICES ASSUME Init PROVE OrderedInv
  OBVIOUS
<1>1. \A p \in Procs : at[p] = "idle" /\ ~Ends(p)
  BY ArgsType DEF Init, Ends, Serving
<1>2. \A i \in Networks : ~docker[i].exists
  BY DockerType DEF Init
<1>3. InOrder
  BY <1>1, HostApart DEF InOrder, Orderly, Solitude, Ending, Removing
<1>4. \A p \in Procs : PrunesAll(p) /\ KeepsPace(p)
  BY <1>1 DEF PrunesAll, KeepsPace, Removing
<1> QED
  BY <1>2, <1>3, <1>4, InvInit DEF OrderedInv, EndedSuiteHasNoNetwork, NetworksNamed

\* If the simulator ends a suite after its other requests were answered, docker
\* refuses a second network of the same name, and nothing fails, then no network
\* survives its suite: PruneNetworks visits all that was recorded, and nothing else
\* was created.
THEOREM EndedSuitesHaveNoNetwork ==
  ASSUME ~Overlap, ~Duplicates, ~Faulty PROVE Spec => []EndedSuiteHasNoNetwork
<1>1. OrderedInv /\ [Next]_vars => OrderedInv'
  BY OrderedNext
<1>2. OrderedInv => EndedSuiteHasNoNetwork
  BY DEF OrderedInv
<1> QED
  BY OrderedInit, <1>1, <1>2, PTL DEF Spec
-----------------------------------------------------------------------------
(* Deadlock: who holds testSuiteMutex, and what it can be waiting for.      *)

\* testSuiteMutex is held by a goroutine that ends a suite, or by Terminate.
Holding(p) ==
  IF p = Host THEN at[p] \in Removing \cup Ending \cup {"suites"}
              ELSE Ends(p) /\ at[p] \in Removing \cup {"prune", "forget", "move"}
SuiteHeld == \A p \in Procs : testSuiteMutex = p => Holding(p)

OrderInv == Inv /\ (\A p \in Procs : Orderly(p)) /\ SuiteHeld

\* The end of a suite goes on until doEndSuite returns.
LEMMA EndingGoesOn ==
  ASSUME TypeInv, NEW p \in Procs, Orderly(p), Ends(p), at[p] \in Removing \cup Ending, Step(p)
  PROVE  \/ EndSuiteReturns(p)
         \/ Ends(p)' /\ at'[p] \in Removing \cup {"prune", "forget", "move"}
<1>0. arg[p] \in Args /\ TypeOK
  BY DEF TypeInv, TypeOK
<1>1. ASSUME NEW failed \in BOOLEAN, RemoveReturns(p, failed), at[p] \in Removing
      PROVE  Ends(p)' /\ at'[p] = "prune"
  <2>1. PICK a \in Args : GotoWith(p, "prune", a) /\ a.op = arg[p].op
    BY <1>1, Collects
  <2> QED
    BY <2>1, Goes DEF Ends, Serving
<1>2. ASSUME NEW x, NEW a, GotoWith(p, x, a), a.op = arg[p].op
      PROVE  at'[p] = x /\ Ends(p)'
  BY <1>2, Goes DEF Ends, Serving
<1>3. ASSUME NEW x, Goto(p, x), UNCHANGED arg PROVE at'[p] = x /\ Ends(p)'
  BY <1>0, <1>3 DEF Goto, TypeOK, Ends, Serving
<1>4. CASE LockRemove(p)
  BY <1>3, <1>4, StageKinds DEF LockRemove
<1>5. CASE FindRemove(p)
  <2>1. CASE RemoveReturns(p, TRUE)
    BY <1>1, <1>5, <2>1, StageKinds DEF FindRemove
  <2>2. CASE ~RemoveReturns(p, TRUE)
    <3>1. PICK i, S : GotoWith(p, "disconnectAll", [arg[p] EXCEPT !.id = i, !.toDisconnect = S])
      BY <1>5, <2>2 DEF FindRemove
    <3>2. [arg[p] EXCEPT !.id = i, !.toDisconnect = S].op = arg[p].op
      BY <1>0 DEF Args
    <3> QED
      BY <1>2, <3>1, <3>2, StageKinds
  <2> QED
    BY <2>1, <2>2
<1>6. CASE DisconnectNext(p)
  <2>1. CASE RemoveReturns(p, TRUE)
    BY <1>1, <1>6, <2>1, StageKinds DEF DisconnectNext
  <2>2. CASE ~RemoveReturns(p, TRUE)
    <3>1. PICK c : arg' = [arg EXCEPT ![p].toDisconnect = @ \ {c}] /\ at' = at /\ at[p] = "disconnectAll"
      BY <1>6, <2>2 DEF DisconnectNext
    <3>2. arg'[p].op = arg[p].op
      BY <1>0, <3>1 DEF TypeOK, Args
    <3> QED
      BY <3>1, <3>2, StageKinds DEF Ends, Serving
  <2> QED
    BY <2>1, <2>2
<1>7. CASE RemoveIt(p)
  <2>1. at[p] \in Removing /\ (RemoveReturns(p, TRUE) \/ RemoveReturns(p, FALSE))
    BY <1>7, StageKinds DEF RemoveIt
  <2> QED
    BY <1>1, <2>1
<1>8. CASE EndSuite(p)
  <2>1. CASE ~EndSuiteReturns(p)
    <3>1. PICK S : GotoWith(p, "prune", [arg[p] EXCEPT !.left = S])
      BY <1>8, <2>1 DEF EndSuite
    <3>2. [arg[p] EXCEPT !.left = S].op = arg[p].op
      BY <1>0 DEF Args
    <3> QED
      BY <1>2, <3>1, <3>2
  <2> QED
    BY <2>1
<1>9. CASE Prune(p)
  <2>1. CASE Goto(p, "forget") /\ UNCHANGED arg
    BY <1>3, <2>1
  <2>2. CASE ~(Goto(p, "forget") /\ UNCHANGED arg)
    <3>1. PICK x, S : GotoWith(p, "lockRemove", [arg[p] EXCEPT !.name = x, !.left = S])
      BY <1>9, <2>2 DEF Prune
    <3>2. [arg[p] EXCEPT !.name = x, !.left = S].op = arg[p].op
      BY <1>0 DEF Args
    <3> QED
      BY <1>2, <3>1, <3>2, StageKinds
  <2> QED
    BY <2>1, <2>2
<1>10. CASE Forget(p)
  BY <1>3, <1>10 DEF Forget
<1>11. CASE MoveToResults(p)
  BY <1>11 DEF MoveToResults
<1>12. CASE CheckSuite(p) \/ LockCreate(p) \/ Create(p) \/ ReadLock(p) \/ CheckSuiteLocked(p)
            \/ CallBackend(p)
  BY <1>12, StageKinds DEF CheckSuite, LockCreate, Create, ReadLock, CheckSuiteLocked, CallBackend
<1> QED
  BY <1>4, <1>5, <1>6, <1>7, <1>8, <1>9, <1>10, <1>11, <1>12 DEF Step

\* A goroutine other than p neither moves nor gets the mutex.
LEMMA HeldKept ==
  ASSUME TypeInv, SuiteHeld, NEW p \in Procs,
         \A q \in Procs \ {p} : at'[q] = at[q] /\ arg'[q] = arg[q],
         testSuiteMutex' \in {testSuiteMutex, p, None},
         testSuiteMutex' = p => Holding(p)'
  PROVE  SuiteHeld'
<1> SUFFICES ASSUME NEW q \in Procs, testSuiteMutex' = q PROVE Holding(q)'
  BY DEF SuiteHeld
<1>1. CASE q = p
  BY <1>1
<1>2. CASE q # p
  <2>1. testSuiteMutex = q /\ at'[q] = at[q] /\ arg'[q] = arg[q]
    BY <1>2, StageLock
  <2> QED
    BY <2>1 DEF SuiteHeld, Holding, Ends, Serving
<1> QED
  BY <1>1, <1>2

LEMMA HeldStep ==
  ASSUME TypeInv, \A q \in Procs : Orderly(q), SuiteHeld, NEW p \in Procs, Step(p)
  PROVE  SuiteHeld'
<1>1. Orderly(p)' /\ \A q \in Procs \ {p} : at'[q] = at[q] /\ arg'[q] = arg[q]
  BY OrderlyStep DEF TypeInv, TypeOK
<1>2. \/ testSuiteMutex' = testSuiteMutex \/ EndSuiteReturns(p)
      \/ EndSuite(p) /\ testSuiteMutex' = p /\ at'[p] = "prune"
  <2>1. CASE EndSuite(p) /\ ~EndSuiteReturns(p)
    <3>1. PICK a : GotoWith(p, "prune", a) /\ testSuiteMutex' = p
      BY <2>1 DEF EndSuite
    <3> QED
      BY <2>1, <3>1, Goes
  <2>2. CASE ~EndSuite(p)
    BY <2>2 DEF Step, CheckSuite, LockCreate, Create, LockRemove, FindRemove, DisconnectNext,
       RemoveIt, ReadLock, CheckSuiteLocked, CallBackend, Prune, Forget, MoveToResults
  <2> QED
    BY <2>1, <2>2
<1>3. testSuiteMutex' \in {testSuiteMutex, p, None}
  BY <1>2 DEF EndSuiteReturns
<1>4. ASSUME testSuiteMutex' = p PROVE Holding(p)'
  <2>1. CASE EndSuite(p) /\ at'[p] = "prune"
    BY <1>1, <2>1, StageKinds DEF Holding, Orderly
  <2>2. CASE EndSuiteReturns(p)
    <3>1. p = Host /\ Goto(p, "suites")
      BY <1>4, <2>2, StageLock DEF EndSuiteReturns
    <3> QED
      BY <3>1 DEF Holding, Goto, TypeInv, TypeOK
  <2>3. CASE testSuiteMutex' = testSuiteMutex /\ ~EndSuiteReturns(p)
    <3>1. Holding(p)
      BY <1>4, <2>3 DEF SuiteHeld
    <3>2. at[p] # "suites"
      BY DEF Step, CheckSuite, LockCreate, Create, LockRemove, FindRemove, DisconnectNext,
         RemoveIt, ReadLock, CheckSuiteLocked, CallBackend, EndSuite, Prune, Forget, MoveToResults
    <3>3. Ends(p) /\ at[p] \in Removing \cup Ending
      BY <3>1, <3>2, StageKinds DEF Holding, Orderly
    <3>4. Ends(p)' /\ at'[p] \in Removing \cup {"prune", "forget", "move"}
      BY <2>3, <3>3, EndingGoesOn
    <3> QED
      BY <3>4, StageKinds DEF Holding
  <2> QED
    BY <1>2, <2>1, <2>2, <2>3
<1> QED
  BY <1>1, <1>3, <1>4, HeldKept

LEMMA HeldNext ==
  ASSUME TypeInv, \A q \in Procs : Orderly(q), SuiteHeld, [Next]_vars
  PROVE  SuiteHeld'
<1>1. ASSUME NEW p \in Handlers, Receive(p) PROVE SuiteHeld'
  <2>1. testSuiteMutex' = None
    BY <1>1 DEF Receive, SuiteMutexFree
  <2> QED
    BY <2>1, StageLock DEF SuiteHeld
<1>2. CASE Shutdown
  <2>1. /\ at[Host] = "idle" /\ arg' = arg /\ testSuiteMutex' = testSuiteMutex
        /\ \A q \in Procs \ {Host} : at'[q] = at[q]
    BY <1>2, HostApart DEF Shutdown, Goto, TypeInv, TypeOK
  <2>2. testSuiteMutex # Host
    BY <2>1, HostApart, StageKinds DEF SuiteHeld, Holding
  <2> QED
    BY <2>1, <2>2, HostApart, HeldKept
<1>3. CASE Terminate
  <2>1. /\ at[Host] \in {"terminate", "suites"}
        /\ \A q \in Procs \ {Host} : at'[q] = at[q] /\ arg'[q] = arg[q]
    BY <1>3, HostGoes
  <2>2. /\ testSuiteMutex' \in {testSuiteMutex, Host, None}
        /\ at'[Host] \in {"suites", "endSuite"} \/ testSuiteMutex' = None
    <3>1. CASE TerminateBegin
      BY <3>1, HostApart DEF TerminateBegin, Goto, TypeInv, TypeOK
    <3>2. CASE TerminateSuite
      BY <3>2, HostApart DEF TerminateSuite, GotoWith, Goto, TypeInv, TypeOK
    <3> QED
      BY <1>3, <3>1, <3>2 DEF Terminate
  <2>3. testSuiteMutex' = Host => Holding(Host)'
    BY <2>2, HostApart, StageLock, StageKinds DEF Holding
  <2> QED
    BY <2>1, <2>2, <2>3, HostApart, HeldKept
<1>4. ASSUME UNCHANGED <<at, arg, testSuiteMutex>> PROVE SuiteHeld'
  BY <1>4 DEF SuiteHeld, Holding, Ends, Serving
<1> QED
  BY <1>1, <1>2, <1>3, <1>4, HeldStep DEF Next, DeleteContainer, Finished, vars

LEMMA OrderInvariant == Spec => []OrderInv
<1>1. Init => OrderInv
  <2> SUFFICES ASSUME Init PROVE OrderInv
    OBVIOUS
  <2>1. \A p \in Procs : Orderly(p)
    BY OrderedInit DEF OrderedInv, InOrder
  <2>2. SuiteHeld
    BY StageLock DEF Init, SuiteHeld
  <2> QED
    BY <2>1, <2>2, InvInit DEF OrderInv
<1>2. OrderInv /\ [Next]_vars => OrderInv'
  <2> SUFFICES ASSUME OrderInv, [Next]_vars PROVE OrderInv'
    OBVIOUS
  <2>1. Inv'
    BY TypeNext, LockNext, AgreeNext, TrackedNext DEF OrderInv, Inv
  <2>2. (\A p \in Procs : Orderly(p)') /\ SuiteHeld'
    BY OrderlyNext, HeldNext DEF OrderInv, Inv
  <2> QED
    BY <2>1, <2>2 DEF OrderInv
<1> QED
  BY <1>1, <1>2, PTL DEF Spec

\* A goroutine in a critical section of networkMutex waits at most for testSuiteMutex.
LEMMA CriticalSections ==
  ASSUME OrderInv, NEW p \in Procs, at[p] \in Exclusive \cup Shared
  PROVE  Busy(p) /\ (Waits(p) => at[p] = "checkSuiteLocked" /\ ~SuiteMutexFree)
  BY DEF Exclusive, Shared, Busy, Waits

LEMMA InversionOnly ==
  ASSUME OrderInv, Deadlock
  PROVE  Inverted
<1>0. /\ TypeOK /\ NetworkLock /\ SuiteHeld
      /\ \A p \in Procs : Busy(p) => Waits(p)
  BY DEF OrderInv, Inv, TypeInv, Deadlock
<1>1. networkMutex.writer = None /\ networkMutex.readers \subseteq Procs
  <2>1. networkMutex.writer \in Procs \cup {None} /\ networkMutex.readers \subseteq Procs
    BY <1>0 DEF TypeOK
  <2>2. ASSUME networkMutex.writer \in Procs PROVE FALSE
    <3> DEFINE w == networkMutex.writer
    <3>1. at[w] \in Exclusive
      BY <1>0, <2>2 DEF NetworkLock
    <3>2. at[w] = "checkSuiteLocked"
      BY <1>0, <2>2, <3>1, CriticalSections
    <3> QED
      BY <3>1, <3>2 DEF Exclusive
  <2> QED
    BY <2>1, <2>2
<1>2. ASSUME NEW r \in networkMutex.readers
      PROVE  at[r] = "checkSuiteLocked" /\ ~SuiteMutexFree
  <2>1. r \in Procs /\ at[r] \in Shared
    BY <1>0, <1>1, <1>2 DEF NetworkLock
  <2> QED
    BY <1>0, <2>1, CriticalSections
<1>3. ~SuiteMutexFree
  <2> SUFFICES ASSUME SuiteMutexFree PROVE FALSE
    OBVIOUS
  <2>1. networkMutex.readers = {}
    BY <1>2
  <2>2. \A p \in Procs : at[p] \in {"lockCreate", "lockRemove", "forget"} => FALSE
    BY <1>0, <1>1, <2>1 DEF Busy, Waits
  <2>3. \A p \in Procs : ~Waits(p)
    BY <1>1, <2>1, <2>2 DEF Waits
  <2> QED
    BY <1>0, <2>3 DEF Deadlock
<1>4. PICK h \in Procs : testSuiteMutex = h
  BY <1>0, <1>3 DEF SuiteMutexFree, TypeOK
<1>5. at[h] \in {"lockRemove", "forget"} /\ networkMutex.readers # {}
  <2>1. Holding(h)
    BY <1>0, <1>4 DEF SuiteHeld
  <2>2. Busy(h)
    BY <2>1, StageKinds DEF Holding, Busy
  <2> QED
    BY <1>0, <1>1, <2>1, <2>2, StageKinds DEF Waits, Holding
<1> QED
  BY <1>1, <1>2, <1>4, <1>5 DEF Inverted

\* Whatever overlaps and whatever fails, goroutines come to wait for each other in one
\* way only: one ends a suite, with testSuiteMutex, and needs networkMutex, which an ip,
\* connect or disconnect request has that is about to check its suite.
THEOREM DeadlocksAreInversions == Spec => []OnlyInversionDeadlocks
<1>1. OrderInv => OnlyInversionDeadlocks
  BY InversionOnly DEF OnlyInversionDeadlocks
<1> QED
  BY OrderInvariant, <1>1, PTL

\* If the simulator ends a suite after its other requests were answered, there is no
\* deadlock at all.
THEOREM OrderlyRunsGoOn == ASSUME ~Overlap PROVE Spec => []~Deadlock
<1>1. Init => InOrder
  BY OrderedInit DEF OrderedInv
<1>2. OrderInv /\ InOrder /\ [Next]_vars => InOrder'
  BY InOrderNext DEF OrderInv, Inv
<1>3. OrderInv /\ InOrder => ~Deadlock
  <2> SUFFICES ASSUME OrderInv, InOrder, Deadlock PROVE FALSE
    OBVIOUS
  <2>1. PICK p \in Procs, q \in Procs : /\ testSuiteMutex = p /\ at[p] \in {"lockRemove", "forget"}
                                        /\ at[q] = "checkSuiteLocked"
    BY InversionOnly DEF Inverted, OrderInv, Inv, TypeInv, TypeOK
  <2>2. Holding(p)
    BY <2>1 DEF OrderInv, SuiteHeld
  <2>3. q \in Handlers \ {p}
    BY <2>1, StageKinds DEF InOrder, Orderly, Procs
  <2>4. at[q] = "idle"
    BY <2>1, <2>2, <2>3 DEF InOrder, Solitude, Holding, Procs
  <2> QED
    BY <2>1, <2>4
<1> QED
  BY OrderInvariant, <1>1, <1>2, <1>3, PTL DEF Spec
=============================================================================
