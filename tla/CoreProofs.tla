------------------------------ MODULE CoreProofs ------------------------------
(***************************************************************************)
(* Proofs about CoreService, for every set of cores and of connections.    *)
(*                                                                         *)
(* That a core launches its daemon once rests on the handle: it is valid   *)
(* from the launch on, so that a core without one has not launched         *)
(* (Guarded), and it is never given back while the program runs.           *)
(***************************************************************************)
EXTENDS CoreService, TLAPS

\* The launches so far are guarded by the handle.
Guarded ==
    \A k \in Cores : launched[k] \in {0, 1} /\ (launched[k] = 1 => handle[k])

IInv == TypeOK /\ InStep /\ Listed /\ Guarded /\ ConnectingToOwn

\* The types of what the operations of a core change.
CoreTypes ==
    /\ daemon \in [Cores -> {"down", "coming", "up", "stopping"}]
    /\ state \in [Cores -> ServiceState]
    /\ follows \in [Cores -> ServiceState]
    /\ handle \in [Cores -> BOOLEAN]
    /\ waiting \in [Cores -> BOOLEAN]
    /\ launched \in [Cores -> Nat]

-----------------------------------------------------------------------------
(* The operations of a core *)

\* Whatever the state a core is in, its wallet and chain are in it too.
LEMMA SetStateAll ==
  ASSUME CoreTypes, InStep,
         NEW k \in Cores, NEW s \in ServiceState, SetState(k, s)
  PROVE  /\ state' \in [Cores -> ServiceState] /\ follows' = state'
         /\ state'[k] = s
         /\ \A j \in Cores \ {k} : state'[j] = state[j]
  BY DEF CoreTypes, InStep, SetState

\* A launch happens with the first handle only, and a core that is connecting after it
\* has one.
LEMMA LaunchOnce ==
  ASSUME CoreTypes, InStep, Guarded, ConnectingToOwn,
         NEW k \in Cores, NEW s \in {"Started", "Connecting"}, NEW p, NEW arg,
         s = "Connecting" => handle[k] /\ launched[k] = 1,
         waiting' \in [Cores -> BOOLEAN],
         Launch(k, s, p, arg)
  PROVE  CoreTypes' /\ InStep' /\ Guarded' /\ ConnectingToOwn'
         /\ state'[k] # "Stopped" /\ \A j \in Cores \ {k} : state'[j] = state[j]
<1>1. CASE ~MayLaunch(k, p, arg)
  <2>1. SetState(k, s) /\ s \in ServiceState /\ UNCHANGED <<handle, launched, daemon>>
    BY <1>1 DEF Launch, ServiceState
  <2>2. /\ state' \in [Cores -> ServiceState] /\ follows' = state' /\ state'[k] = s
        /\ \A j \in Cores \ {k} : state'[j] = state[j]
    BY <2>1, SetStateAll
  <2>. QED
    BY <2>1, <2>2 DEF CoreTypes, InStep, Guarded, ConnectingToOwn
<1>2. CASE MayLaunch(k, p, arg)
  <2>1. handle' = [handle EXCEPT ![k] = TRUE] /\ ~handle[k] /\ launched[k] = 0
    BY <1>2 DEF Launch, MayLaunch, Guarded
  <2>2. handle' \in [Cores -> BOOLEAN] /\ handle'[k]
        /\ \A j \in Cores \ {k} : handle'[j] = handle[j]
    BY <2>1 DEF CoreTypes
  <2>3. CASE SetState(k, s) /\ UNCHANGED <<launched, daemon>>
    <3>1. /\ state' \in [Cores -> ServiceState] /\ follows' = state' /\ state'[k] = s
          /\ \A j \in Cores \ {k} : state'[j] = state[j]
      BY <2>3, SetStateAll DEF ServiceState
    <3>. QED
      BY <2>1, <2>2, <2>3, <3>1 DEF CoreTypes, InStep, Guarded, ConnectingToOwn
  <2>4. ASSUME launched' = [launched EXCEPT ![k] = @ + 1],
               NEW d \in AfterLaunch(k, p), daemon' = [daemon EXCEPT ![k] = d],
               NEW t \in {"Connected", "Connecting"}, SetState(k, t)
        PROVE  CoreTypes' /\ InStep' /\ Guarded' /\ ConnectingToOwn'
               /\ state'[k] # "Stopped" /\ \A j \in Cores \ {k} : state'[j] = state[j]
    <3>1. /\ state' \in [Cores -> ServiceState] /\ follows' = state' /\ state'[k] = t
          /\ \A j \in Cores \ {k} : state'[j] = state[j]
      BY <2>4, SetStateAll DEF ServiceState
    <3>2. d \in {"down", "coming", "up", "stopping"}
      BY DEF AfterLaunch, CoreTypes
    <3>3. launched' \in [Cores -> Nat] /\ launched'[k] = 1
          /\ \A j \in Cores \ {k} : launched'[j] = launched[j]
      BY <2>1, <2>4 DEF CoreTypes
    <3>4. daemon' \in [Cores -> {"down", "coming", "up", "stopping"}]
      BY <2>4, <3>2 DEF CoreTypes
    <3>5. CoreTypes' /\ InStep'
      BY <2>2, <3>1, <3>3, <3>4 DEF CoreTypes, InStep
    <3>6. Guarded' /\ ConnectingToOwn'
      BY <2>2, <3>1, <3>3 DEF Guarded, ConnectingToOwn
    <3>. QED
      BY <3>1, <3>5, <3>6
  <2>. QED
    BY <1>2, <2>3, <2>4 DEF Launch
<1>. QED
  BY <1>1, <1>2

\* Connecting, whether it starts the daemon or not, changes the state of one core, which
\* is not stopped afterwards.
LEMMA ConnectKeeps ==
  ASSUME CoreTypes, InStep, Guarded, ConnectingToOwn,
         NEW k \in Cores, NEW s \in {"Started", "Connecting"}, NEW p, NEW arg,
         s = "Connecting" => handle[k] /\ launched[k] = 1,
         ConnectAndStartDaemon(k, s, p, arg)
  PROVE  CoreTypes' /\ InStep' /\ Guarded' /\ ConnectingToOwn'
         /\ state'[k] # "Stopped" /\ \A j \in Cores \ {k} : state'[j] = state[j]
<1>1. ASSUME NEW t \in {s, "Connected"}, SetState(k, t),
             UNCHANGED <<handle, waiting, launched, daemon>>
      PROVE  CoreTypes' /\ InStep' /\ Guarded' /\ ConnectingToOwn'
             /\ state'[k] # "Stopped" /\ \A j \in Cores \ {k} : state'[j] = state[j]
  <2>1. /\ state' \in [Cores -> ServiceState] /\ follows' = state' /\ state'[k] = t
        /\ \A j \in Cores \ {k} : state'[j] = state[j]
    BY <1>1, SetStateAll DEF ServiceState
  <2>. QED
    BY <1>1, <2>1 DEF CoreTypes, InStep, Guarded, ConnectingToOwn
<1>2. ASSUME waiting' = [waiting EXCEPT ![k] = TRUE], Launch(k, s, p, arg)
      PROVE  CoreTypes' /\ InStep' /\ Guarded' /\ ConnectingToOwn'
             /\ state'[k] # "Stopped" /\ \A j \in Cores \ {k} : state'[j] = state[j]
  <2>1. waiting' \in [Cores -> BOOLEAN]
    BY <1>2 DEF CoreTypes
  <2>. QED
    BY <1>2, <2>1, LaunchOnce
<1>. QED
  BY <1>1, <1>2 DEF ConnectAndStartDaemon

-----------------------------------------------------------------------------
(* The steps *)

\* The rest of the type invariant.
ProgramTypes ==
    /\ auto \in [Cores -> BOOLEAN]
    /\ coin \in [Connections -> Cores]
    /\ starting \subseteq Cores
    /\ loaded \in BOOLEAN
    /\ wallet \in [Connections -> Cores \cup {NoCore}]

ListTypes ==
    /\ services \in [Cores -> {0, 1}]
    /\ params \in [Cores -> {"configured", "none"}]

LEMMA TypesSplit == TypeOK <=> CoreTypes /\ ProgramTypes /\ ListTypes
  BY DEF TypeOK, CoreTypes, ProgramTypes, ListTypes

LEMMA TypesJoined == CoreTypes' /\ ProgramTypes' /\ ListTypes' => TypeOK'
  BY DEF TypeOK, CoreTypes, ProgramTypes, ListTypes

\* The first state.
LEMMA InitInv == Init => IInv
<1> SUFFICES ASSUME Init PROVE IInv
  OBVIOUS
<1>1. CoreTypes /\ InStep /\ Guarded /\ ConnectingToOwn
  BY DEF Init, Fresh, CoreTypes, ServiceState, InStep, Guarded, ConnectingToOwn
<1>2. ProgramTypes /\ ListTypes /\ Listed
  BY DEF Init, Fresh, ProgramTypes, ListTypes, Listed
<1>. QED
  BY <1>1, <1>2, TypesSplit DEF IInv

\* Starting a core lists it.
LEMMA StartKeeps ==
  ASSUME IInv, NEW k \in Cores, NEW p \in {"configured", "none"}, Start(k, p), ProgramTypes'
  PROVE  IInv'
<1>1. CoreTypes /\ ListTypes /\ InStep /\ Listed /\ Guarded /\ ConnectingToOwn
  BY TypesSplit DEF IInv
<1>2. /\ CoreTypes' /\ InStep' /\ Guarded' /\ ConnectingToOwn'
      /\ state'[k] # "Stopped" /\ \A j \in Cores \ {k} : state'[j] = state[j]
  BY <1>1, ConnectKeeps DEF Start
<1>3. /\ services' = [services EXCEPT ![k] = @ + 1] /\ state[k] = "Stopped"
      /\ params' = [params EXCEPT ![k] = p]
  BY DEF Start
<1>4. services[k] = 0
  BY <1>1, <1>3 DEF Listed
<1>5. ListTypes' /\ Listed'
  BY <1>1, <1>2, <1>3, <1>4 DEF ListTypes, Listed
<1>. QED
  BY <1>2, <1>5, TypesJoined DEF IInv

\* Trying again keeps a core in the list.
LEMMA RetryKeeps ==
  ASSUME IInv, NEW k \in Cores, NEW arg, Retry(k, arg), ProgramTypes'
  PROVE  IInv'
<1>1. CoreTypes /\ ListTypes /\ InStep /\ Listed /\ Guarded /\ ConnectingToOwn
  BY TypesSplit DEF IInv
<1>2. /\ CoreTypes' /\ InStep' /\ Guarded' /\ ConnectingToOwn'
      /\ state'[k] # "Stopped" /\ \A j \in Cores \ {k} : state'[j] = state[j]
  <2>1. state[k] = "Connecting" => handle[k] /\ launched[k] = 1
    BY <1>1 DEF ConnectingToOwn
  <2>. QED
    BY <1>1, <2>1, ConnectKeeps DEF Retry
<1>3. ListTypes' /\ Listed'
  BY <1>1, <1>2 DEF Retry, ListTypes, Listed
<1>. QED
  BY <1>2, <1>3, TypesJoined DEF IInv

\* Stopping a core takes it out of the list and leaves the handle.
LEMMA StopKeeps ==
  ASSUME IInv, NEW k \in Cores, Stop(k), ProgramTypes'
  PROVE  IInv'
<1>1. CoreTypes /\ ListTypes /\ InStep /\ Listed /\ Guarded /\ ConnectingToOwn
  BY TypesSplit DEF IInv
<1>2. /\ state' \in [Cores -> ServiceState] /\ follows' = state' /\ state'[k] = "Stopped"
      /\ \A j \in Cores \ {k} : state'[j] = state[j]
  BY <1>1, SetStateAll DEF Stop, ServiceState
<1>3. daemon' \in [Cores -> {"down", "coming", "up", "stopping"}]
  BY <1>1 DEF Stop, CoreTypes
<1>4. CoreTypes' /\ InStep'
  BY <1>1, <1>2, <1>3 DEF Stop, CoreTypes, InStep
<1>5. Guarded' /\ ConnectingToOwn'
  BY <1>1, <1>2 DEF Stop, Guarded, ConnectingToOwn
<1>6. ListTypes' /\ Listed'
  BY <1>1, <1>2 DEF Stop, ListTypes, Listed
<1>. QED
  BY <1>4, <1>5, <1>6, TypesJoined DEF IInv

\* Every step keeps the invariant.
LEMMA StepInv == IInv /\ [Next]_vars => IInv'
<1> SUFFICES ASSUME IInv, [Next]_vars PROVE IInv'
  OBVIOUS
<1>0. CoreTypes /\ ProgramTypes /\ ListTypes /\ InStep /\ Listed /\ Guarded /\ ConnectingToOwn
  BY TypesSplit DEF IInv
<1>1. ASSUME NEW k \in Cores, StartCore(k) PROVE IInv'
  <2>1. ProgramTypes'
    BY <1>0, <1>1 DEF StartCore, outside, ProgramTypes
  <2>. QED
    BY <1>1, <2>1, StartKeeps DEF StartCore
<1>2. ASSUME NEW k \in Cores, Daemon(k) PROVE IInv'
  <2>1. daemon' \in [Cores -> {"down", "coming", "up", "stopping"}]
    BY <1>0, <1>2 DEF Daemon, CoreTypes
  <2>. QED
    BY <1>0, <1>2, <2>1
    DEF Daemon, program, IInv, TypeOK, CoreTypes, ProgramTypes, ListTypes, InStep, Listed,
        Guarded, ConnectingToOwn
<1>3. ASSUME NEW k \in Cores, Timeout(k) PROVE IInv'
  <2>1. waiting' \in [Cores -> BOOLEAN]
    BY <1>0, <1>3 DEF Timeout, CoreTypes
  <2>. QED
    BY <1>0, <1>3, <2>1
    DEF Timeout, program, IInv, TypeOK, CoreTypes, ProgramTypes, ListTypes, InStep, Listed,
        Guarded, ConnectingToOwn
<1>4. ASSUME NEW c \in Connections, NEW k \in Cores, Edit(c, k) PROVE IInv'
  <2>1. coin' \in [Connections -> Cores] /\ wallet' \in [Connections -> Cores \cup {NoCore}]
    BY <1>0, <1>4 DEF Edit, GetWallet, ProgramTypes
  <2>. QED
    BY <1>0, <1>4, <2>1
    DEF Edit, IInv, TypeOK, CoreTypes, ProgramTypes, ListTypes, InStep, Listed,
        Guarded, ConnectingToOwn
<1>5. CASE LoadConnections
  <2>1. wallet' \in [Connections -> Cores \cup {NoCore}]
    BY <1>0, <1>5 DEF LoadConnections, GetWallet, ProgramTypes
  <2>. QED
    BY <1>0, <1>5, <2>1
    DEF LoadConnections, outside, IInv, TypeOK, CoreTypes, ProgramTypes, ListTypes, InStep,
        Listed, Guarded, ConnectingToOwn
<1>6. CASE Restart
  <2>1. CoreTypes' /\ InStep' /\ Guarded' /\ ConnectingToOwn'
    BY <1>0, <1>6 DEF Restart, Fresh, CoreTypes, ServiceState, InStep, Guarded, ConnectingToOwn
  <2>2. ProgramTypes' /\ ListTypes' /\ Listed'
    BY <1>0, <1>6 DEF Restart, Fresh, outside, ProgramTypes, ListTypes, Listed
  <2>. QED
    BY <2>1, <2>2, TypesJoined DEF IInv
<1>7. ASSUME NEW c \in Connections, NEW k \in Cores,
             ClickStart(c, k) \/ ClickStop(c, k) \/ RetryTimer(c, k)
      PROVE  IInv'
  <2>1. ProgramTypes'
    BY <1>0, <1>7 DEF ClickStart, ClickStop, RetryTimer, program, ProgramTypes
  <2>2. \/ Start(k, "none") \/ Stop(k)
        \/ Retry(k, "start") \/ Retry(k, "stop") \/ Retry(k, "")
    BY <1>7 DEF ClickStart, ClickStop, RetryTimer
  <2>. QED
    BY <2>1, <2>2, StartKeeps, StopKeeps, RetryKeeps
<1>8. CASE UNCHANGED vars
  BY <1>0, <1>8 DEF vars, IInv, TypeOK, InStep, Listed, Guarded, ConnectingToOwn
<1>. QED
  BY <1>1, <1>2, <1>3, <1>4, <1>5, <1>6, <1>7, <1>8 DEF Next

\* The invariant holds of every behaviour.
LEMMA Invariance == Spec => []IInv
  BY InitInv, StepInv, PTL DEF Spec

\* Every variable of the cores and of the program keeps its type, in particular no core
\* is listed twice.
THEOREM TypeCorrect == Spec => []TypeOK
<1>1. IInv => TypeOK
  BY DEF IInv
<1>. QED
  BY <1>1, Invariance, PTL

\* The wallet and the chain of a core are in its state, and the list of running services
\* holds exactly the cores that run, however they are started and stopped (setState,
\* adviseStarted, adviseStopped).
THEOREM StateIsOne == Spec => []OneState
<1>1. IInv => OneState
  BY DEF IInv, OneState
<1>. QED
  BY <1>1, Invariance, PTL

\* No sequence of clicks, timers and timeouts launches a daemon twice in one run of the
\* program, and a core that is connecting launched the daemon itself (StartDaemon,
\* ConnectAndStartDaemon).
THEOREM LaunchedOnce == Spec => []OneLaunch
<1>1. IInv => Guarded /\ ConnectingToOwn
  BY DEF IInv
<1>2. Guarded /\ ConnectingToOwn => OneLaunch
  <2> SUFFICES ASSUME Guarded, NEW k \in Cores PROVE launched[k] <= 1
    BY DEF OneLaunch
  <2>1. launched[k] = 0 \/ launched[k] = 1
    BY DEF Guarded
  <2>. QED
    BY <2>1
<1>. QED
  BY <1>1, <1>2, Invariance, PTL
=============================================================================
