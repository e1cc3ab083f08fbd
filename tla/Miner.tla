------------------------------- MODULE Miner -------------------------------
(***************************************************************************)
(* Starting and stopping miners.                                           *)
(*                                                                         *)
(* A connection that is started makes a miner, an object with a thread     *)
(* that runs the embedded application (CMinerXmrig::Main, AppExec).  The    *)
(* application works in the event loop of the process and calls the miner  *)
(* back, which sets the button of the connection's panel.  The user clicks *)
(* the button; automatic selection stops what is started and starts the    *)
(* best.  Both run in the main thread, which waits in Stop for the miner's *)
(* thread and deletes the object.                                          *)
(*                                                                         *)
(* A call of an application that is not there, or has no loop yet, and a   *)
(* step of a thread whose object is deleted may do anything: the model     *)
(* stops there (crashed).                                                  *)
(***************************************************************************)
EXTENDS Integers, FiniteSets

CONSTANTS
    Connections,
    Automatic,   \* the connections that are selected automatically
    MaxMiners    \* bound: miners made

ASSUME ConstantsOK ==
    /\ Automatic \subseteq Connections
    /\ MaxMiners \in Nat

VARIABLES
    miner,       \* m_miner of every connection, 0 for none
    started,     \* status.isStarted of every connection
    command,     \* miningCommand of every panel
    made,        \* the number of miners made
    thread,      \* where every miner's thread is
    registered,  \* the miners whose m_app.m_app is set
    running,     \* the miners whose m_app.m_running is set
    workState,   \* workState of every miner
    reported,    \* the miners that have reported a state
    deleted,     \* the miners whose object is deleted
    stopFlag,    \* the stop flag of the event loop
    main,        \* what the main thread does
    odd,         \* what happened that the panel does not prevent
    crashed

vars == <<miner, started, command, made, thread, registered, running, workState, reported,
          deleted, stopFlag, main, odd, crashed>>
objects == <<miner, started, made, deleted>>
app == <<thread, registered, running, workState, reported, stopFlag>>

Miners == 1..MaxMiners
States == {"idle", "connected", "mining", "paused"}

\* The main thread has nothing to do, or stops connection c (step, in which of the two
\* calls of Stop), has then todo to stop and next to start.
Idle == [step |-> "idle", c |-> {}, call |-> 0, todo |-> {}, next |-> {}]

Init ==
    /\ miner = [c \in Connections |-> 0]
    /\ started = [c \in Connections |-> FALSE]
    /\ command = [c \in Connections |-> "start"]
    /\ made = 0
    /\ thread = [m \in Miners |-> "none"]
    /\ registered = {}
    /\ running = {}
    /\ workState = [m \in Miners |-> "idle"]
    /\ reported = {}
    /\ deleted = {}
    /\ stopFlag = 0
    /\ main = Idle
    /\ odd = {}
    /\ crashed = FALSE

Alive(m) == thread[m] \notin {"none", "ended"}

ConnectionOf(m) == CHOOSE c \in Connections : miner[c] = m

(***************************************************************************)
(* Starting                                                                *)
(***************************************************************************)

\* CConnection::Start; the thread may not start (ok).
MakeMiner(c, ok) ==
    /\ made < MaxMiners
    /\ made' = made + 1
    /\ miner' = [miner EXCEPT ![c] = made + 1]
    /\ started' = [started EXCEPT ![c] = ok]
    /\ thread' = [thread EXCEPT ![made + 1] = IF ok THEN "begin" ELSE "none"]
    /\ odd' = IF \E m \in Miners : Alive(m) THEN odd \cup {"two"} ELSE odd
    /\ UNCHANGED <<command, registered, running, workState, reported, deleted, stopFlag, crashed>>

ClickStart(c, ok) ==
    /\ main = Idle
    /\ command[c] = "start"
    /\ ~started[c]
    /\ MakeMiner(c, ok)
    /\ UNCHANGED main

(***************************************************************************)
(* Stopping                                                                *)
(***************************************************************************)

Stopping(c, todo, next) ==
    /\ main' = [step |-> "call", c |-> {c}, call |-> 1, todo |-> todo, next |-> next]
    /\ odd' = IF miner[c] \in reported THEN odd ELSE odd \cup {"early"}

ClickStop(c) ==
    /\ main = Idle
    /\ command[c] = "stop"
    /\ miner[c] # 0 /\ started[c]
    /\ Stopping(c, {}, {})
    /\ UNCHANGED <<objects, app, command, crashed>>

Started == {c \in Connections : started[c]}

\* updateConnections finds that best earns more than the one that mines.
Select(best, first) ==
    /\ main = Idle
    /\ best \in Automatic
    /\ \E c \in Automatic \cap Started : c # best
    /\ first \in Started
    /\ Stopping(first, Started \ {first}, {best})
    /\ UNCHANGED <<objects, app, command, crashed>>

\* A slip: m_running is not looked at.
AnswersAlways(m) == m \in registered

\* Whether CAppXmrig::Stop calls the application.
Answers(m) == m \in registered /\ m \in running

\* Between two calls: the second one, by destroyMiner, then the deletion.
Next2(r) == [step |-> IF r.call = 1 THEN "call" ELSE "delete", c |-> r.c, call |-> 2,
             todo |-> r.todo, next |-> r.next]

\* A slip: only the flag of the application is reset, which nothing reads.
ToldNot == stopFlag

\* App::Stop tells the loop.
Told == stopFlag + 1

\* The loop is there while the application is in it; once it has left it is taken as gone.
CallStop(c) ==
    LET m == miner[c]
    IN  /\ main.step = "call" /\ main.c = {c}
        /\ IF Answers(m)
           THEN /\ running' = running \ {m}
                /\ crashed' = (thread[m] # "loop")
                /\ stopFlag' = IF thread[m] = "loop" THEN Told ELSE stopFlag
                /\ main' = [main EXCEPT !.step = "wait"]
           ELSE /\ main' = Next2(main)
                /\ UNCHANGED <<running, crashed, stopFlag>>
        /\ UNCHANGED <<objects, command, thread, registered, workState, reported, odd>>

\* A slip: the thread is not waited for.
JoinedNot(m) == TRUE

Joined(m) == ~Alive(m)

\* What onStatus makes of the button.
Button(state) ==
    CASE state = "idle" -> "start" [] state = "mining" -> "stop" [] OTHER -> "none"

\* A slip: the state is left as the thread has set it.
ReportIdleNot(c, m) == UNCHANGED <<workState, command>>

\* SetWorkState and onStatus, on a change only.
ReportIdle(c, m) ==
    /\ workState' = [workState EXCEPT ![m] = "idle"]
    /\ command' = IF workState[m] # "idle" THEN [command EXCEPT ![c] = Button("idle")]
                                           ELSE command

Wait(c) ==
    /\ main.step = "wait" /\ main.c = {c}
    /\ Joined(miner[c])
    /\ ReportIdle(c, miner[c])
    /\ main' = Next2(main)
    /\ UNCHANGED <<objects, thread, registered, running, reported, stopFlag, odd, crashed>>

\* A slip: isStarted is not reset.
ReleasedHalf(c) == started

Released(c) == [started EXCEPT ![c] = FALSE]

\* All are stopped, and next is started after a sleep.
Resting(next) == [step |-> "start", c |-> {}, call |-> 0, todo |-> {}, next |-> next]

\* The connection has no miner any more; on with the next one that is started.
Delete(c) ==
    /\ main.step = "delete" /\ main.c = {c}
    /\ deleted' = deleted \cup {miner[c]}
    /\ miner' = [miner EXCEPT ![c] = 0]
    /\ started' = Released(c)
    /\ IF main.todo # {}
       THEN \E d \in main.todo : Stopping(d, main.todo \ {d}, main.next)
       ELSE /\ main' = IF main.next = {} THEN Idle ELSE Resting(main.next)
            /\ UNCHANGED odd
    /\ UNCHANGED <<made, app, command, crashed>>

\* After the sleep; a Start that finds nothing to do is one that fails.
StartBest(c, ok) ==
    /\ main.step = "start" /\ main.next = {c}
    /\ MakeMiner(c, ok)
    /\ main' = Idle

(***************************************************************************)
(* The miner's thread                                                      *)
(***************************************************************************)

Steps(m, from, to) ==
    /\ thread[m] = from
    /\ thread' = [thread EXCEPT ![m] = to]
    /\ crashed' = (m \in deleted)
    /\ UNCHANGED <<objects, main, odd>>

\* AppExec registers the application.
Register(m) ==
    /\ Steps(m, "begin", "registered")
    /\ registered' = registered \cup {m}
    /\ running' = running \cup {m}
    /\ UNCHANGED <<command, workState, reported, stopFlag>>

\* Exec returns before the loop: the configuration is not good, or init fails.
ExecFails(m) ==
    /\ Steps(m, "registered", "left")
    /\ UNCHANGED <<command, registered, running, workState, reported, stopFlag>>

EnterLoop(m) ==
    /\ Steps(m, "registered", "loop")
    /\ UNCHANGED <<command, registered, running, workState, reported, stopFlag>>

\* onActive, onLogin, onJob, onResultAccepted, onPause.
Report(m, state) ==
    /\ Steps(m, "loop", "loop")
    /\ state # "idle"
    /\ workState' = [workState EXCEPT ![m] = state]
    /\ reported' = reported \cup {m}
    /\ command' = IF workState[m] # state /\ m \notin deleted
                  THEN [command EXCEPT ![ConnectionOf(m)] = Button(state)] ELSE command
    /\ UNCHANGED <<registered, running, stopFlag>>

\* uv_run resets the flag when it ends because of it.
FlagTaken == 0

LeaveLoop(m) ==
    /\ stopFlag > 0
    /\ Steps(m, "loop", "left")
    /\ stopFlag' = FlagTaken
    /\ UNCHANGED <<command, registered, running, workState, reported>>

End(m) ==
    /\ Steps(m, "left", "ended")
    /\ UNCHANGED <<command, registered, running, workState, reported, stopFlag>>

Thread(m) == Register(m) \/ ExecFails(m) \/ EnterLoop(m) \/ LeaveLoop(m) \/ End(m)

Main == \E c \in Connections : CallStop(c) \/ Wait(c) \/ Delete(c)

Next ==
    /\ ~crashed
    /\ \/ \E c \in Connections, ok \in BOOLEAN : ClickStart(c, ok) \/ StartBest(c, ok)
       \/ \E c \in Connections : ClickStop(c)
       \/ \E best, first \in Connections : Select(best, first)
       \/ Main
       \/ \E m \in Miners : Thread(m)
       \/ \E m \in Miners, state \in States : Report(m, state)

Spec == Init /\ [][Next]_vars

\* The system runs every thread that can go on, and a thread that runs the loop sees
\* the stop flag after the events at hand.
FairSpec ==
    /\ Spec
    /\ WF_vars(~crashed /\ Main)
    /\ \A m \in Miners : WF_vars(~crashed /\ Thread(m))

(***************************************************************************)
(* Properties                                                              *)
(***************************************************************************)

TypeOK ==
    /\ miner \in [Connections -> 0..made]
    /\ started \in [Connections -> BOOLEAN]
    /\ \A c \in Connections : started[c] => miner[c] # 0
    /\ command \in [Connections -> {"none", "start", "stop"}]
    /\ made \in 0..MaxMiners
    /\ thread \in [Miners -> {"none", "begin", "registered", "loop", "left", "ended"}]
    /\ registered \subseteq Miners
    /\ running \subseteq registered
    /\ workState \in [Miners -> States]
    /\ reported \subseteq Miners
    /\ deleted \subseteq 1..made
    /\ stopFlag \in 0..1
    /\ main \in [step: {"idle", "call", "wait", "delete", "start"}, call: 0..2,
                 c: SUBSET Connections, todo: SUBSET Connections, next: SUBSET Connections]
    /\ odd \subseteq {"two", "early"}
    /\ crashed \in BOOLEAN

\* The two ways into trouble: two miners at a time, by hand, and automatic selection
\* stopping a miner before it has reported anything.  In all other histories the
\* following hold.
Regular == odd = {}

\* No application is called that is not there or has no loop, and no thread goes on
\* without its object.  It is stopped twice, by CConnection::Stop and by destroyMiner.
NoDeadCall == Regular => ~crashed

\* Nothing is left of a miner that is deleted: its thread has ended and has told the panel
\* that it is idle, and the stop flag was taken by the loop it was meant for, so that it
\* does not end the next miner as soon as it starts.
EndsIdle ==
    Regular =>
        /\ \A m \in deleted : ~Alive(m) /\ workState[m] = "idle"
        /\ main.step \in {"idle", "start"} => stopFlag = 0

\* A button that says Stop belongs to a miner in its loop, which the click will stop.
\* The thread sets the button while the main thread may be stopping the miner.
StopFinds ==
    Regular /\ main = Idle =>
        \A c \in Connections : command[c] = "stop" =>
            started[c] /\ thread[miner[c]] = "loop" /\ Answers(miner[c])

\* Stop comes back: the main thread, and with it the window, does not wait for ever.
StopReturns == [](main.step \in {"call", "wait"} => <>(main.step \in {"idle", "start"} \/ ~Regular))
=============================================================================
