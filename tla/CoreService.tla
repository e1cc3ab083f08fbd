------------------------------ MODULE CoreService ------------------------------
(***************************************************************************)
(* The core daemons of the coins.                                          *)
(*                                                                         *)
(* A core is a service: it is started once when the program starts, with   *)
(* its section of the configuration, and from then on it is connected to   *)
(* the daemon of its coin, or waits for it.  The wallet and the chain of    *)
(* the coin are parts of the core.  A connection finds the wallet of its    *)
(* coin in the list of running services when it is loaded or edited; its   *)
(* panel has a start and a stop button for it and a timer that tries again *)
(* while it is not connected.                                              *)
(*                                                                         *)
(* The daemon is a process of its own: the core may launch it, somebody    *)
(* else may, it may be slow, lose its peers (it then counts as not         *)
(* answering) and end at any time; it survives the program.  A second      *)
(* process for the same data ends at once.                                 *)
(***************************************************************************)
EXTENDS Integers

CONSTANTS
    Cores,
    Connections,
    NoCore

ASSUME ConstantsOK == NoCore \notin Cores

VARIABLES
    daemon,    \* the daemon of every core
    auto,      \* whether the configuration of the core says daemon=start
    coin,      \* the core of every connection's coin
    starting,  \* the cores that are still to be started
    loaded,    \* whether the connections are loaded
    wallet,    \* m_coinWallet of every connection
    state,     \* m_state of every core
    follows,   \* m_state of its wallet and its chain
    services,  \* how often the core is in the list of running services
    params,    \* m_params and m_config: as configured, or none
    handle,    \* whether m_hprocess is valid
    waiting,   \* m_startTime + m_startTimeout is to come
    launched   \* the processes launched for the core since the program started

vars == <<daemon, auto, coin, starting, loaded, wallet, state, follows, services, params,
          handle, waiting, launched>>
outside == <<auto, coin>>
program == <<coin, starting, loaded, wallet>>

ServiceState == {"Stopped", "Started", "Connecting", "Connected"}

\* The state of a program that begins.
Fresh(v) == [k \in Cores |-> v]

Init ==
    /\ daemon \in [Cores -> {"down", "up"}]
    /\ auto \in [Cores -> BOOLEAN]
    /\ coin \in [Connections -> Cores]
    /\ starting = Cores
    /\ loaded = FALSE
    /\ wallet = [c \in Connections |-> NoCore]
    /\ state = Fresh("Stopped")
    /\ follows = Fresh("Stopped")
    /\ services = Fresh(0)
    /\ params = Fresh("none")
    /\ handle = Fresh(FALSE)
    /\ waiting = Fresh(FALSE)
    /\ launched = Fresh(0)

(***************************************************************************)
(* The core                                                                *)
(***************************************************************************)

\* A slip: the wallet and the chain are not told.
SetStateAlone(k, s) ==
    /\ state' = [state EXCEPT ![k] = s]
    /\ UNCHANGED follows

\* setState of the core: its wallet and its chain follow.
SetState(k, s) ==
    /\ state' = [state EXCEPT ![k] = s]
    /\ follows' = [follows EXCEPT ![k] = s]

\* getpeerinfo has a result; without parameters there is no host to ask.
Answers(k, p) == p = "configured" /\ daemon[k] = "up"

\* The parameter daemon of a call, where arg is what the call adds to the configuration.
StartAsked(k, p, arg) == arg = "start" \/ (arg = "" /\ p = "configured" /\ auto[k])

\* A slip: the handle is not looked at.
MayLaunchAlways(k, p, arg) == StartAsked(k, p, arg)

\* StartDaemon goes as far as OsProcessRun.
MayLaunch(k, p, arg) == StartAsked(k, p, arg) /\ ~handle[k]

\* What is to be seen of the daemon when OsProcessRun has returned: the program may not be
\* there (nor is it when there are no parameters), and it may answer at once.
AfterLaunch(k, p) ==
    IF p = "configured" /\ daemon[k] = "down" THEN {"down", "coming", "up"} ELSE {daemon[k]}

\* OsProcessRun makes the handle and forks: the fork may fail; otherwise the core is
\* connecting and asks the daemon again.
Launch(k, s, p, arg) ==
    \/ /\ ~MayLaunch(k, p, arg)
       /\ SetState(k, s)
       /\ UNCHANGED <<handle, launched, daemon>>
    \/ /\ MayLaunch(k, p, arg)
       /\ handle' = [handle EXCEPT ![k] = TRUE]
       /\ \/ /\ SetState(k, s)
             /\ UNCHANGED <<launched, daemon>>
          \/ /\ launched' = [launched EXCEPT ![k] = @ + 1]
             /\ \E d \in AfterLaunch(k, p) :
                  /\ daemon' = [daemon EXCEPT ![k] = d]
                  /\ SetState(k, IF p = "configured" /\ d = "up"
                                   THEN "Connected" ELSE "Connecting")

\* ConnectAndStartDaemon of a core in state s with parameters p.
ConnectAndStartDaemon(k, s, p, arg) ==
    \/ /\ Answers(k, p)
       /\ SetState(k, "Connected")
       /\ UNCHANGED <<handle, waiting, launched, daemon>>
    \/ /\ ~Answers(k, p) /\ s = "Connecting" /\ waiting[k]
       /\ SetState(k, s)
       /\ UNCHANGED <<handle, waiting, launched, daemon>>
    \/ /\ ~Answers(k, p) /\ ~(s = "Connecting" /\ waiting[k])
       /\ waiting' = [waiting EXCEPT ![k] = TRUE]
       /\ Launch(k, s, p, arg)

\* A slip: the service is listed when it starts and again when it has connected.
StartListsTwice(k, p) ==
    /\ state[k] = "Stopped"
    /\ params' = [params EXCEPT ![k] = p]
    /\ services' = [services EXCEPT ![k] = @ + 2]
    /\ ConnectAndStartDaemon(k, "Started", p, "")

\* Start: the core is listed and Started before it connects.
Start(k, p) ==
    /\ state[k] = "Stopped"
    /\ params' = [params EXCEPT ![k] = p]
    /\ services' = [services EXCEPT ![k] = @ + 1]
    /\ ConnectAndStartDaemon(k, "Started", p, "")

\* A slip: a core that is connecting is not tried again.
RetryStarted(k, arg) ==
    /\ state[k] = "Started"
    /\ ConnectAndStartDaemon(k, state[k], params[k], arg)
    /\ UNCHANGED <<params, services>>

\* Retry: with the parameters of the start.
Retry(k, arg) ==
    /\ state[k] \in {"Started", "Connecting"}
    /\ ConnectAndStartDaemon(k, state[k], params[k], arg)
    /\ UNCHANGED <<params, services>>

\* Stop, asked for with daemon=stop: the daemon is told if it can be, the service is
\* stopped in any case, and the handle stays as it is (OsHandleDestroy has no case for
\* processes).
Stop(k) ==
    /\ \E d \in {daemon[k]} \cup (IF params[k] = "configured" /\ daemon[k] \in {"coming", "up"}
                                    THEN {"stopping"} ELSE {}) :
          daemon' = [daemon EXCEPT ![k] = d]
    /\ SetState(k, "Stopped")
    /\ services' = [services EXCEPT ![k] = 0]
    /\ UNCHANGED <<params, handle, waiting, launched>>

(***************************************************************************)
(* The program: services first, then connections, then the user and the    *)
(* timers                                                                  *)
(***************************************************************************)

\* initServices.
StartCore(k) ==
    /\ k \in starting
    /\ starting' = starting \ {k}
    /\ Start(k, "configured")
    /\ UNCHANGED <<outside, loaded, wallet>>

\* getWallet, only among the running services; a wallet that is not found leaves the one
\* the connection has.
GetWallet(c, k) == IF services[k] > 0 THEN k ELSE wallet[c]

LoadConnections ==
    /\ starting = {} /\ ~loaded
    /\ loaded' = TRUE
    /\ wallet' = [c \in Connections |-> GetWallet(c, coin[c])]
    /\ UNCHANGED <<daemon, outside, starting, state, follows, services, params, handle,
                   waiting, launched>>

Holds(c, k) == loaded /\ wallet[c] = k

\* The wizard gives the connection another coin: loadSettings.
Edit(c, k) ==
    /\ loaded /\ k # coin[c]
    /\ coin' = [coin EXCEPT ![c] = k]
    /\ wallet' = [wallet EXCEPT ![c] = GetWallet(c, k)]
    /\ UNCHANGED <<daemon, auto, starting, loaded, state, follows, services, params, handle,
                   waiting, launched>>

\* startWalletService: without parameters when the service is stopped.
ClickStart(c, k) ==
    /\ Holds(c, k)
    /\ \/ follows[k] = "Stopped" /\ Start(k, "none")
       \/ follows[k] = "Started" /\ Retry(k, "start")
       \/ follows[k] = "Connecting" /\ Retry(k, "")
    /\ UNCHANGED <<program, auto>>

\* stopWalletService.
ClickStop(c, k) ==
    /\ Holds(c, k)
    /\ \/ follows[k] = "Connected" /\ Stop(k)
       \/ follows[k] \in {"Started", "Connecting"} /\ Retry(k, "stop")
    /\ UNCHANGED <<program, auto>>

\* onRetryTimer, every minute.
RetryTimer(c, k) ==
    /\ Holds(c, k) /\ follows[k] \in {"Started", "Connecting"}
    /\ Retry(k, "")
    /\ UNCHANGED <<program, auto>>

\* The program ends, or dies, and is started again.
Restart ==
    /\ loaded
    /\ starting' = Cores
    /\ loaded' = FALSE
    /\ wallet' = [c \in Connections |-> NoCore]
    /\ state' = Fresh("Stopped")
    /\ follows' = Fresh("Stopped")
    /\ services' = Fresh(0)
    /\ params' = Fresh("none")
    /\ handle' = Fresh(FALSE)
    /\ waiting' = Fresh(FALSE)
    /\ launched' = Fresh(0)
    /\ UNCHANGED <<daemon, outside>>

(***************************************************************************)
(* The daemon and the time                                                 *)
(***************************************************************************)

Daemon(k) ==
    /\ \/ daemon[k] = "down" /\ daemon' = [daemon EXCEPT ![k] = "coming"]
       \/ daemon[k] = "coming" /\ daemon' = [daemon EXCEPT ![k] = "up"]
       \/ daemon[k] = "up" /\ daemon' = [daemon EXCEPT ![k] = "coming"]
       \/ daemon[k] # "down" /\ daemon' = [daemon EXCEPT ![k] = "down"]
    /\ UNCHANGED <<program, auto, state, follows, services, params, handle, waiting, launched>>

Timeout(k) ==
    /\ waiting[k]
    /\ waiting' = [waiting EXCEPT ![k] = FALSE]
    /\ UNCHANGED <<program, auto, daemon, state, follows, services, params, handle, launched>>

Next ==
    \/ \E k \in Cores : StartCore(k) \/ Daemon(k) \/ Timeout(k)
    \/ LoadConnections
    \/ Restart
    \/ \E c \in Connections, k \in Cores :
          Edit(c, k) \/ ClickStart(c, k) \/ ClickStop(c, k) \/ RetryTimer(c, k)

Spec == Init /\ [][Next]_vars

\* The timers of the panels run.
FairSpec == Spec /\ \A c \in Connections, k \in Cores : WF_vars(RetryTimer(c, k))

(***************************************************************************)
(* Properties                                                              *)
(***************************************************************************)

TypeOK ==
    /\ daemon \in [Cores -> {"down", "coming", "up", "stopping"}]
    /\ auto \in [Cores -> BOOLEAN]
    /\ coin \in [Connections -> Cores]
    /\ starting \subseteq Cores
    /\ loaded \in BOOLEAN
    /\ wallet \in [Connections -> Cores \cup {NoCore}]
    /\ state \in [Cores -> ServiceState]
    /\ follows \in [Cores -> ServiceState]
    /\ services \in [Cores -> {0, 1}]
    /\ params \in [Cores -> {"configured", "none"}]
    /\ handle \in [Cores -> BOOLEAN]
    /\ waiting \in [Cores -> BOOLEAN]
    /\ launched \in [Cores -> Nat]

\* The wallet and the chain of a core are in its state.
InStep == follows = state

\* The running services are listed once, the others not.
Listed == \A k \in Cores : services[k] = (IF state[k] = "Stopped" THEN 0 ELSE 1)

\* Everybody sees the same state of a core, however it was started, stopped and started
\* again: its wallet, of which the buttons, the timer and the balance of a panel ask, and
\* the list in which the connections find it (setState, adviseStarted, adviseStopped).
OneState == InStep /\ Listed

\* A core that is connecting has launched a daemon.
ConnectingToOwn == \A k \in Cores : state[k] = "Connecting" => handle[k] /\ launched[k] = 1

\* However often the buttons are pressed, the timer fires, the timeout passes and the
\* configuration asks for the daemon, one program launches it at most once, never a second
\* process while the first comes up; and a core that says it is connecting has launched
\* it: it never waits for what nobody started (ConnectAndStartDaemon, StartDaemon).
OneLaunch == ConnectingToOwn /\ \A k \in Cores : launched[k] <= 1

\* A daemon that answers is connected to by the timers, whatever happened before, as long
\* as the core has its configuration and a panel shows it (onRetryTimer, Retry).
Reconnects ==
    \A c \in Connections, k \in Cores :
        (Holds(c, k) /\ params[k] = "configured" /\ daemon[k] = "up")
            ~> (state[k] \in {"Connected", "Stopped"} \/ daemon[k] # "up" \/ ~Holds(c, k))

\* A start asked for by the user tries to launch again a daemon that was launched and has
\* ended: it is refused only "if process is still alive" (StartDaemon).
StartsDead ==
    [][\A c \in Connections, k \in Cores :
          ClickStart(c, k) /\ state[k] = "Started" /\ launched[k] = 1 /\ daemon[k] = "down"
             => launched'[k] = 2]_vars
================================================================================
