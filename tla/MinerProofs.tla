----------------------------- MODULE MinerProofs -----------------------------
(***************************************************************************)
(* Proofs about Miner, for every set of connections and number of miners.  *)
(*                                                                         *)
(* In a regular history one thread is alive at a time (OneAlive), and a    *)
(* miner that has reported is in one of three stages (Stage): it works in  *)
(* the loop; the main thread has told it and waits for it; or it has ended *)
(* idle and is about to be deleted, or is.  The stop flag is set only      *)
(* while the main thread waits for the miner that was told (Flag).         *)
(***************************************************************************)
EXTENDS Miner, TLAPS

-----------------------------------------------------------------------------
(* The invariant *)

\* The main thread is stopping miner m.
OnMain(m) == \E c \in main.c : miner[c] = m

\* A connection has a miner of its own, not yet deleted; a miner that is not made, or
\* whose thread did not start, has done nothing.
Own ==
    /\ \A c, d \in Connections : miner[c] = miner[d] /\ miner[c] # 0 => c = d
    /\ \A c \in Connections : miner[c] \notin deleted
    /\ \A m \in Miners : m > made => thread[m] = "none"

\* The main thread stops a connection that is started, once it is known which it stops
\* next; before it starts another one, all are stopped.
Busy ==
    /\ main.step \in {"call", "wait", "delete"} =>
          /\ \E c \in Connections : main.c = {c} /\ started[c] /\ c \notin main.todo
          /\ main.call \in {1, 2}
    /\ main.step = "delete" => main.call = 2
    /\ main.step \in {"idle", "start"} => main.c = {} /\ main.todo = {}
    /\ main.todo \subseteq Started
    /\ main.next # {} => Started \subseteq main.c \cup main.todo

\* The flag is for the miner that was told.
Flag ==
    stopFlag > 0 =>
        /\ main.step = "wait"
        /\ \A m \in Miners : OnMain(m) => thread[m] = "loop" /\ m \notin running

\* The miner has ended and the main thread is done with it, or nearly.
Past(m) ==
    /\ thread[m] = "ended" /\ m \notin running /\ workState[m] = "idle"
    /\ m \in deleted \/ (OnMain(m) /\ main.call = 2 /\ main.step \in {"call", "delete"})

Working(m) ==
    /\ thread[m] = "loop" /\ m \in running
    /\ OnMain(m) => main.step = "call" /\ main.call = 1

AskedToStop(m) ==
    thread[m] \in {"loop", "left", "ended"} /\ m \notin running /\ main.step = "wait" /\ OnMain(m)

OneAlive == \A m, n \in Miners : Alive(m) /\ Alive(n) => m = n
Owned == \A m \in Miners : Alive(m) => \E c \in Connections : miner[c] = m /\ started[c]
DeadIdle == \A m \in deleted : ~Alive(m) /\ workState[m] = "idle"
Stage == \A m \in reported : Working(m) \/ AskedToStop(m) \/ Past(m)
Unstopped ==
    \A m \in Miners : thread[m] \in {"registered", "loop"} /\ m \notin reported => m \in running
StopsReported == \A m \in Miners : OnMain(m) => m \in reported
Quiet == \A m \in Miners : workState[m] # "idle" => m \in reported
Shown == \A c \in Connections :
            command[c] = "stop" => started[c] /\ workState[miner[c]] = "mining"

RInv ==
    /\ ~crashed /\ OneAlive /\ Owned /\ DeadIdle
    /\ Stage /\ Unstopped /\ StopsReported /\ Quiet /\ Shown


Base == TypeOK /\ Own /\ Busy /\ Flag
IInv == Base /\ (Regular => RInv)

-----------------------------------------------------------------------------
(* The types *)

MainOK ==
    main \in [step: {"idle", "call", "wait", "delete", "start"}, call: 0..2,
              c: SUBSET Connections, todo: SUBSET Connections, next: SUBSET Connections]

ConnOK ==
    /\ miner \in [Connections -> 0..made]
    /\ started \in [Connections -> BOOLEAN]
    /\ \A c \in Connections : started[c] => miner[c] # 0
    /\ command \in [Connections -> {"none", "start", "stop"}]
    /\ made \in 0..MaxMiners
    /\ deleted \subseteq 1..made

AppOK ==
    /\ thread \in [Miners -> {"none", "begin", "registered", "loop", "left", "ended"}]
    /\ registered \subseteq Miners
    /\ running \subseteq registered
    /\ workState \in [Miners -> States]
    /\ reported \subseteq Miners

RestOK == stopFlag \in 0..1 /\ odd \subseteq {"two", "early"} /\ crashed \in BOOLEAN

LEMMA TypeParts == TypeOK <=> MainOK /\ ConnOK /\ AppOK /\ RestOK
  BY DEF TypeOK, MainOK, ConnOK, AppOK, RestOK

LEMMA TypePartsNext == MainOK' /\ ConnOK' /\ AppOK' /\ RestOK' => TypeOK'
  BY DEF TypeOK, MainOK, ConnOK, AppOK, RestOK

LEMMA IdleOK == Idle \in [step: {"idle"}, call: 0..2, c: {{}}, todo: {{}}, next: {{}}]
                /\ Idle.step = "idle" /\ Idle.c = {} /\ Idle.todo = {} /\ Idle.next = {}
  BY DEF Idle

-----------------------------------------------------------------------------
(* The first state *)

LEMMA InitInv == Init => IInv
<1> SUFFICES ASSUME Init PROVE IInv
  OBVIOUS
<1>1. MainOK
  BY DEF Init, MainOK, Idle
<1>2. ConnOK
  BY ConstantsOK DEF Init, ConnOK
<1>3. AppOK
  BY DEF Init, AppOK, States
<1>3a. RestOK
  <2>1. stopFlag \in 0..1 /\ odd \subseteq {"two", "early"}
    BY DEF Init
  <2>2. crashed \in BOOLEAN
    BY DEF Init
  <2>. QED
    BY <2>1, <2>2 DEF RestOK
<1>4. Own /\ Busy /\ Flag
  BY IdleOK, ConstantsOK DEF Init, Own, Busy, Flag, Started
<1>5. RInv
  BY IdleOK, ConstantsOK DEF Init, RInv, OneAlive, Owned, DeadIdle, Stage, Unstopped, StopsReported,
     Quiet, Shown, Alive, OnMain
<1>. QED
  BY <1>1, <1>2, <1>3, <1>3a, <1>4, <1>5, TypeParts DEF IInv, Base

-----------------------------------------------------------------------------
(* Starting a miner *)

LEMMA MakeMinerBase ==
  ASSUME Base, NEW c \in Connections, NEW ok \in BOOLEAN, MakeMiner(c, ok),
         ~started[c], MainOK', main.step \in {"idle", "start"},
         main' = Idle
  PROVE  Base'
<1>0. MainOK /\ ConnOK /\ AppOK /\ RestOK /\ Own /\ Busy /\ Flag
  BY TypeParts DEF Base
<1>1. made + 1 \in Miners /\ made \in Nat /\ MaxMiners \in Nat /\ made' = made + 1
  BY <1>0, ConstantsOK DEF ConnOK, MakeMiner, Miners
<1>2. /\ miner' \in [Connections -> 0..made'] /\ miner'[c] = made + 1
      /\ \A d \in Connections \ {c} : miner'[d] = miner[d]
  BY <1>0, <1>1 DEF ConnOK, MakeMiner
<1>3. /\ started' \in [Connections -> BOOLEAN] /\ started'[c] = ok
      /\ \A d \in Connections \ {c} : started'[d] = started[d]
  BY <1>0 DEF ConnOK, MakeMiner
<1>4. /\ thread' \in [Miners -> {"none", "begin", "registered", "loop", "left", "ended"}]
      /\ thread'[made + 1] = IF ok THEN "begin" ELSE "none"
      /\ \A m \in Miners \ {made + 1} : thread'[m] = thread[m]
  BY <1>0, <1>1 DEF AppOK, MakeMiner
<1>5. ConnOK'
  BY <1>0, <1>1, <1>2, <1>3 DEF ConnOK, MakeMiner, Miners
<1>6. AppOK' /\ RestOK'
  BY <1>0, <1>4 DEF AppOK, RestOK, MakeMiner
<1>7. Own'
  BY <1>0, <1>1, <1>2, <1>4 DEF Own, ConnOK, MakeMiner, Miners
<1>8. Busy'
  BY IdleOK DEF Busy, Started
<1>9. Flag'
  BY <1>0 DEF Flag, MakeMiner
<1>. QED
  BY <1>5, <1>6, <1>7, <1>8, <1>9, TypePartsNext DEF Base

LEMMA MakeMinerRegular ==
  ASSUME Base, RInv, NEW c \in Connections, NEW ok \in BOOLEAN, MakeMiner(c, ok),
         ~started[c], command[c] # "stop", main.step \in {"idle", "start"}, main' = Idle, odd' = {}
  PROVE  RInv'
<1>0. MainOK /\ ConnOK /\ AppOK /\ RestOK /\ Own /\ Busy /\ Flag
  BY TypeParts DEF Base
<1>1. made + 1 \in Miners /\ made \in Nat
  BY <1>0, ConstantsOK DEF ConnOK, MakeMiner, Miners
<1>2. miner'[c] = made + 1 /\ \A d \in Connections \ {c} : miner'[d] = miner[d]
  BY <1>0 DEF ConnOK, MakeMiner
<1>3. started'[c] = ok /\ \A d \in Connections \ {c} : started'[d] = started[d]
  BY <1>0 DEF ConnOK, MakeMiner
<1>4. /\ thread'[made + 1] = IF ok THEN "begin" ELSE "none"
      /\ \A m \in Miners \ {made + 1} : thread'[m] = thread[m]
  BY <1>0, <1>1 DEF AppOK, MakeMiner
<1>5. /\ thread[made + 1] = "none" /\ made + 1 \notin reported /\ made + 1 \notin deleted
      /\ workState[made + 1] = "idle"
  <2>1. thread[made + 1] = "none" /\ made + 1 \notin deleted
    BY <1>0, <1>1 DEF Own, ConnOK
  <2>2. made + 1 \notin reported
    BY <1>0, <1>1, <2>1 DEF RInv, Stage, Working, AskedToStop, Past, Busy
  <2>. QED
    BY <1>1, <2>1, <2>2 DEF RInv, Quiet
<1>6. \A m \in Miners : ~Alive(m)
  BY DEF MakeMiner
<1>7. \A m \in Miners : Alive(m)' => m = made + 1 /\ ok
  BY <1>4, <1>6 DEF Alive
<1>8. OneAlive' /\ Owned'
  BY <1>2, <1>3, <1>7 DEF OneAlive, Owned
<1>9. DeadIdle'
  <2> SUFFICES ASSUME NEW m \in deleted PROVE ~Alive(m)' /\ workState[m] = "idle"
    BY DEF DeadIdle, MakeMiner
  <2>1. m \in Miners
    BY <1>0, ConstantsOK DEF ConnOK, Miners
  <2>. QED
    BY <1>5, <1>7, <2>1 DEF RInv, DeadIdle
<1>10. Stage' /\ StopsReported'
  <2>1. \A m : ~OnMain(m)' /\ ~OnMain(m)
    BY <1>0, IdleOK DEF OnMain, Busy
  <2>2. ASSUME NEW m \in reported PROVE Working(m)' \/ Past(m)'
    <3>1. m # made + 1 /\ thread'[m] = thread[m]
      BY <1>0, <1>4, <1>5 DEF AppOK
    <3>2. Working(m) \/ Past(m)
      BY <2>1 DEF RInv, Stage, AskedToStop
    <3>. QED
      BY <2>1, <3>1, <3>2 DEF MakeMiner, Working, Past
  <2>. QED
    BY <2>1, <2>2 DEF MakeMiner, Stage, StopsReported
<1>11. Quiet' /\ ~crashed' /\ Unstopped'
  BY <1>4 DEF RInv, Quiet, Unstopped, MakeMiner
<1>12. Shown'
  BY <1>2, <1>3 DEF RInv, Shown, MakeMiner
<1>. QED
  BY <1>8, <1>9, <1>10, <1>11, <1>12 DEF RInv

-----------------------------------------------------------------------------
(* Stopping *)

LEMMA StoppingBase ==
  ASSUME ConnOK, NEW c \in Connections, NEW todo \in SUBSET Connections,
         NEW next \in SUBSET Connections, Stopping(c, todo, next), odd \subseteq {"two", "early"}
  PROVE  /\ MainOK' /\ odd' \subseteq {"two", "early"}
         /\ main'.step = "call" /\ main'.c = {c} /\ main'.call = 1 /\ main'.todo = todo
         /\ main'.next = next
  BY DEF Stopping, MainOK

\* A click, or automatic selection, begins to stop a connection.
LEMMA BeginStop ==
  ASSUME IInv, main = Idle, NEW c \in Started, NEW todo \in SUBSET Started,
         NEW next \in SUBSET Connections, Stopping(c, todo, next), c \notin todo,
         next # {} => Started \subseteq {c} \cup todo,
         UNCHANGED <<objects, app, command, crashed>>
  PROVE  IInv'
<1>0. MainOK /\ ConnOK /\ AppOK /\ RestOK /\ Own /\ Busy /\ Flag /\ c \in Connections
      /\ todo \in SUBSET Connections
  BY TypeParts DEF IInv, Base, Started
<1>1. /\ MainOK' /\ odd' \subseteq {"two", "early"}
      /\ main'.step = "call" /\ main'.c = {c} /\ main'.call = 1 /\ main'.todo = todo
      /\ main'.next = next
  BY <1>0, StoppingBase DEF RestOK
<1>2. ConnOK' /\ AppOK' /\ RestOK' /\ Own'
  BY <1>0, <1>1 DEF objects, app, ConnOK, AppOK, RestOK, Own
<1>3. Busy'
  BY <1>1 DEF Busy, Started, objects
<1>4. Flag'
  BY <1>0, IdleOK DEF Flag, app
<1>5. Base'
  BY <1>1, <1>2, <1>3, <1>4, TypePartsNext DEF Base
<1>6. ASSUME Regular' PROVE RInv'
  <2>1. odd' = odd /\ miner[c] \in reported /\ Regular
    BY <1>6 DEF Stopping, Regular
  <2>2. RInv
    BY <2>1 DEF IInv
  <2>3. \A m : ~OnMain(m)
    BY IdleOK DEF OnMain
  <2>4. \A m : OnMain(m)' => m = miner[c]
    BY <1>1 DEF OnMain, objects
  <2>5. Stage'
    <3> SUFFICES ASSUME NEW m \in reported PROVE Working(m)' \/ Past(m)'
      BY DEF app, Stage
    <3>1. Working(m) \/ Past(m)
      BY <2>2, <2>3 DEF RInv, Stage, AskedToStop
    <3>. QED
      BY <1>1, <2>3, <3>1 DEF Working, Past, app, objects
  <2>6. StopsReported'
    BY <2>1, <2>4 DEF StopsReported, app
  <2>7. OneAlive' /\ Owned' /\ DeadIdle' /\ Unstopped' /\ Quiet' /\ Shown' /\ ~crashed'
    BY <2>2 DEF RInv, Unstopped, OneAlive, Owned, DeadIdle, Quiet, Shown, Alive, objects, app
  <2>. QED
    BY <2>5, <2>6, <2>7 DEF RInv
<1>. QED
  BY <1>5, <1>6 DEF IInv

LEMMA Next2Facts ==
  ASSUME MainOK, main.call \in {1, 2}
  PROVE  /\ Next2(main) \in [step: {"idle", "call", "wait", "delete", "start"}, call: 0..2,
                             c: SUBSET Connections, todo: SUBSET Connections,
                             next: SUBSET Connections]
         /\ Next2(main).c = main.c /\ Next2(main).todo = main.todo
         /\ Next2(main).next = main.next /\ Next2(main).call = 2
         /\ Next2(main).step = IF main.call = 1 THEN "call" ELSE "delete"
  BY DEF Next2, MainOK

\* The miner that is stopped.
LEMMA OnMainIs ==
  ASSUME Base, NEW c, main.c = {c}, main.step \in {"call", "wait", "delete"}
  PROVE  /\ c \in Connections /\ started[c] /\ c \notin main.todo /\ main.call \in {1, 2}
         /\ miner[c] \in Miners /\ miner[c] \in 1..made /\ miner[c] \notin deleted
         /\ \A m : OnMain(m) <=> m = miner[c]
<1>0. MainOK /\ ConnOK /\ AppOK /\ RestOK /\ Own /\ Busy /\ Flag
  BY TypeParts DEF Base
<1>1. c \in Connections /\ started[c] /\ c \notin main.todo /\ main.call \in {1, 2}
  BY <1>0 DEF Busy
<1>2. miner[c] \in 1..made /\ miner[c] \in Miners
  BY <1>0, <1>1, ConstantsOK DEF ConnOK, Miners
<1>. QED
  BY <1>0, <1>1, <1>2 DEF Own, OnMain

LEMMA CallStopInv == ASSUME IInv, NEW c \in Connections, CallStop(c) PROVE IInv'
<1> DEFINE m == miner[c]
<1>0. MainOK /\ ConnOK /\ AppOK /\ RestOK /\ Own /\ Busy /\ Flag
  BY TypeParts DEF IInv, Base
<1>1. /\ c \in Connections /\ started[c] /\ c \notin main.todo /\ main.call \in {1, 2}
      /\ m \in Miners /\ m \notin deleted
      /\ \A n : OnMain(n) <=> n = m
      /\ main.step = "call" /\ main.c = {c}
  BY OnMainIs DEF CallStop, IInv
<1>2. ConnOK' /\ Own'
  BY <1>0 DEF CallStop, objects, ConnOK, Own
<1>3. ASSUME Regular PROVE (main.call = 1 => Working(m)) /\ (main.call = 2 => Past(m))
  <2>1. m \in reported
    BY <1>1, <1>3 DEF IInv, RInv, StopsReported
  <2>2. Working(m) \/ Past(m)
    BY <1>1, <1>3, <2>1 DEF IInv, RInv, Stage, AskedToStop
  <2>. QED
    BY <1>1, <2>2 DEF Working, Past
<1>4. Regular' <=> Regular
  BY DEF CallStop, Regular
<1>5. CASE Answers(m)
  <2>1. /\ running' = running \ {m} /\ crashed' = (thread[m] # "loop")
        /\ stopFlag' = IF thread[m] = "loop" THEN stopFlag + 1 ELSE stopFlag
        /\ main' = [main EXCEPT !.step = "wait"]
        /\ UNCHANGED <<objects, command, thread, registered, workState, reported, odd>>
    BY <1>5 DEF CallStop, Told
  <2>2. /\ MainOK' /\ main'.step = "wait" /\ main'.c = {c} /\ main'.call = main.call
        /\ main'.todo = main.todo /\ main'.next = main.next
    BY <1>0, <1>1, <2>1 DEF MainOK
  <2>3. \A n : OnMain(n)' <=> n = m
    BY <1>1, <2>1, <2>2 DEF OnMain, objects
  <2>4. stopFlag = 0 /\ stopFlag' \in 0..1
    BY <1>0, <1>1, <2>1 DEF Flag, RestOK
  <2>5. crashed' \in BOOLEAN
    BY <2>1
  <2>6. AppOK' /\ RestOK'
    BY <1>0, <2>1, <2>4, <2>5 DEF AppOK, RestOK
  <2>7. Busy'
    BY <1>0, <1>1, <2>1, <2>2 DEF Busy, objects, Started
  <2>8. Flag'
    BY <2>1, <2>2, <2>3, <2>4 DEF Flag
  <2>9. Base'
    BY <1>2, <2>2, <2>6, <2>7, <2>8, TypePartsNext DEF Base
  <2>10. ASSUME Regular PROVE RInv'
    <3>1. RInv /\ Working(m)
      BY <1>1, <1>3, <1>5, <2>10 DEF IInv, Past, Answers
    <3>2. ~crashed'
      BY <2>1, <3>1 DEF Working
    <3>3. Stage'
      <4> SUFFICES ASSUME NEW n \in reported PROVE Working(n)' \/ AskedToStop(n)' \/ Past(n)'
        BY <2>1 DEF Stage
      <4>1. CASE n = m
        BY <2>1, <2>2, <2>3, <3>1, <4>1 DEF Working, AskedToStop
      <4>2. CASE n # m
        <5>1. Working(n) \/ Past(n)
          BY <1>1, <3>1 DEF RInv, Stage, AskedToStop
        <5>. QED
          BY <1>1, <2>1, <2>3, <4>2, <5>1 DEF Working, Past, objects
      <4>. QED
        BY <4>1, <4>2
    <3>4. StopsReported'
      BY <1>1, <2>1, <2>3, <3>1 DEF RInv, StopsReported
    <3>5. Unstopped'
      BY <1>1, <2>1, <3>1, <1>3 DEF RInv, Unstopped, StopsReported
    <3>6. OneAlive' /\ Owned' /\ DeadIdle' /\ Quiet' /\ Shown'
      BY <2>1, <3>1 DEF RInv, OneAlive, Owned, DeadIdle, Quiet, Shown, Alive, objects
    <3>. QED
      BY <3>2, <3>3, <3>4, <3>5, <3>6 DEF RInv
  <2>. QED
    BY <1>4, <2>9, <2>10 DEF IInv
<1>6. CASE ~Answers(m)
  <2>1. /\ main' = Next2(main)
        /\ UNCHANGED <<objects, command, thread, registered, workState, reported, odd, running,
                       crashed, stopFlag>>
    BY <1>6 DEF CallStop
  <2>2. /\ MainOK' /\ main'.step \in {"call", "delete"} /\ main'.c = {c} /\ main'.call = 2
        /\ main'.todo = main.todo /\ main'.next = main.next
    BY <1>0, <1>1, <2>1, Next2Facts DEF MainOK
  <2>3. \A n : OnMain(n)' <=> n = m
    BY <1>1, <2>1, <2>2 DEF OnMain, objects
  <2>4. AppOK' /\ RestOK'
    BY <1>0, <2>1 DEF AppOK, RestOK
  <2>5. Busy' /\ Flag'
    BY <1>0, <1>1, <2>1, <2>2 DEF Busy, Flag, objects, Started
  <2>6. Base'
    BY <1>2, <2>2, <2>4, <2>5, TypePartsNext DEF Base
  <2>7. ASSUME Regular PROVE RInv'
    <3>1. RInv /\ Past(m)
      BY <1>0, <1>1, <1>3, <1>6, <2>7 DEF IInv, Working, Answers, AppOK
    <3>2. Stage'
      <4> SUFFICES ASSUME NEW n \in reported PROVE Working(n)' \/ Past(n)'
        BY <2>1 DEF Stage
      <4>1. CASE n = m
        BY <2>1, <2>2, <2>3, <3>1, <4>1 DEF Past
      <4>2. CASE n # m
        <5>1. Working(n) \/ Past(n)
          BY <1>1, <3>1 DEF RInv, Stage, AskedToStop
        <5>. QED
          BY <1>1, <2>1, <2>3, <4>2, <5>1 DEF Working, Past, objects
      <4>. QED
        BY <4>1, <4>2
    <3>3. StopsReported'
      BY <1>1, <2>1, <2>3, <3>1 DEF RInv, StopsReported
    <3>4. OneAlive' /\ Owned' /\ DeadIdle' /\ Unstopped' /\ Quiet' /\ Shown' /\ ~crashed'
      BY <2>1, <3>1 DEF RInv, Unstopped, OneAlive, Owned, DeadIdle, Quiet, Shown, Alive, objects
    <3>. QED
      BY <3>2, <3>3, <3>4 DEF RInv
  <2>. QED
    BY <1>4, <2>6, <2>7 DEF IInv
<1>. QED
  BY <1>5, <1>6

\* The main thread has waited for the miner's thread.
LEMMA WaitInv == ASSUME IInv, NEW c \in Connections, Wait(c) PROVE IInv'
<1> DEFINE m == miner[c]
<1>0. MainOK /\ ConnOK /\ AppOK /\ RestOK /\ Own /\ Busy /\ Flag
  BY TypeParts DEF IInv, Base
<1>1. /\ started[c] /\ c \notin main.todo /\ main.call \in {1, 2}
      /\ m \in Miners /\ m \notin deleted
      /\ \A n : OnMain(n) <=> n = m
      /\ main.step = "wait" /\ main.c = {c}
  BY OnMainIs DEF Wait, IInv
<1>2. /\ main' = Next2(main) /\ ~Alive(m)
      /\ workState' = [workState EXCEPT ![m] = "idle"]
      /\ command' = IF workState[m] # "idle" THEN [command EXCEPT ![c] = "start"] ELSE command
      /\ UNCHANGED <<objects, thread, registered, running, reported, stopFlag, odd, crashed>>
  BY DEF Wait, Joined, ReportIdle, Button
<1>3. /\ MainOK' /\ main'.step \in {"call", "delete"} /\ main'.c = {c} /\ main'.call = 2
      /\ main'.todo = main.todo /\ main'.next = main.next
  BY <1>0, <1>1, <1>2, Next2Facts DEF MainOK
<1>4. /\ workState' \in [Miners -> States] /\ workState'[m] = "idle"
      /\ \A n \in Miners \ {m} : workState'[n] = workState[n]
  BY <1>0, <1>1, <1>2 DEF AppOK, States
<1>5. ConnOK' /\ Own'
  BY <1>0, <1>2 DEF objects, ConnOK, Own
<1>6. AppOK' /\ RestOK'
  BY <1>0, <1>2, <1>4 DEF AppOK, RestOK
<1>7. Busy'
  BY <1>0, <1>1, <1>2, <1>3 DEF Busy, objects, Started
<1>8. Flag'
  BY <1>0, <1>1, <1>2 DEF Flag, Alive, RestOK
<1>9. Base'
  BY <1>3, <1>5, <1>6, <1>7, <1>8, TypePartsNext DEF Base
<1>10. \A n : OnMain(n)' <=> n = m
  BY <1>1, <1>2, <1>3 DEF OnMain, objects
<1>11. ASSUME Regular' PROVE RInv'
  <2>1. RInv /\ m \in reported
    BY <1>1, <1>2, <1>11 DEF IInv, RInv, StopsReported, Regular
  <2>2. m \notin running /\ thread[m] = "ended"
    BY <1>0, <1>1, <1>2, <2>1 DEF RInv, Stage, Working, AskedToStop, Past, Alive, Quiet, AppOK
  <2>3. Stage'
    <3> SUFFICES ASSUME NEW n \in reported PROVE Working(n)' \/ Past(n)'
      BY <1>2 DEF Stage
    <3>1. CASE n = m
      BY <1>2, <1>3, <1>4, <1>10, <2>2, <3>1 DEF Past
    <3>2. CASE n # m
      <4>1. Working(n) \/ Past(n)
        BY <1>1, <2>1, <3>2 DEF RInv, Stage, AskedToStop
      <4>2. n \in Miners
        BY <1>0 DEF AppOK
      <4>. QED
        BY <1>1, <1>2, <1>4, <1>10, <3>2, <4>1, <4>2 DEF Working, Past, objects
    <3>. QED
      BY <3>1, <3>2
  <2>4. StopsReported'
    BY <1>1, <1>2, <1>10, <2>1 DEF RInv, StopsReported
  <2>5. OneAlive' /\ Owned' /\ Unstopped' /\ ~crashed'
    BY <1>2, <2>1 DEF RInv, Unstopped, OneAlive, Owned, Alive, objects
  <2>6. DeadIdle' /\ Quiet'
    BY <1>1, <1>2, <1>4, <2>1 DEF RInv, DeadIdle, Quiet, Alive, objects
  <2>7. Shown'
    <3> SUFFICES ASSUME NEW d \in Connections, command'[d] = "stop"
                 PROVE  started[d] /\ workState'[miner[d]] = "mining"
      BY <1>2 DEF Shown, objects
    <3>1. command[d] = "stop" /\ d # c
      BY <1>0, <1>2, <2>1 DEF RInv, Shown, ConnOK
    <3>2. started[d] /\ workState[miner[d]] = "mining"
      BY <2>1, <3>1 DEF RInv, Shown
    <3>3. miner[d] # m /\ miner[d] \in Miners
      BY <1>0, <3>1, <3>2, <1>1, ConstantsOK DEF Own, ConnOK, Miners
    <3>. QED
      BY <1>4, <3>2, <3>3
  <2>. QED
    BY <2>3, <2>4, <2>5, <2>6, <2>7 DEF RInv
<1>. QED
  BY <1>9, <1>11 DEF IInv

\* The object is deleted, and the main thread goes on with the next connection, if any.
LEMMA DeleteInv == ASSUME IInv, NEW c \in Connections, Delete(c) PROVE IInv'
<1> DEFINE m == miner[c]
<1>0. MainOK /\ ConnOK /\ AppOK /\ RestOK /\ Own /\ Busy /\ Flag
  BY TypeParts DEF IInv, Base
<1>1. /\ started[c] /\ c \notin main.todo /\ m \in 1..made /\ m \in Miners
      /\ \A n : OnMain(n) <=> n = m
      /\ main.step = "delete" /\ main.c = {c} /\ main.call = 2
  BY <1>0, OnMainIs DEF Delete, IInv, Busy
<1>2. /\ deleted' = deleted \cup {m} /\ miner' = [miner EXCEPT ![c] = 0]
      /\ started' = [started EXCEPT ![c] = FALSE]
      /\ UNCHANGED <<made, app, command, crashed>>
  BY DEF Delete, Released
<1>3. /\ miner' \in [Connections -> 0..made] /\ miner'[c] = 0 /\ ~started'[c]
      /\ started' \in [Connections -> BOOLEAN]
      /\ \A d \in Connections \ {c} : miner'[d] = miner[d] /\ started'[d] = started[d]
  BY <1>0, <1>2 DEF ConnOK
<1>4. ConnOK' /\ AppOK'
  BY <1>0, <1>1, <1>2, <1>3 DEF ConnOK, AppOK, app
<1>5. Own'
  BY <1>0, <1>1, <1>2, <1>3 DEF Own, ConnOK, app
<1>6. stopFlag = 0 /\ Flag' /\ stopFlag' = 0
  BY <1>0, <1>1, <1>2 DEF Flag, RestOK, app
<1>7. Started' = Started \ {c} /\ main.todo \subseteq Started \ {c}
      /\ main.todo \in SUBSET Connections
  BY <1>0, <1>1, <1>3 DEF Started, Busy, MainOK
\* What the main thread does next.
<1>8. /\ MainOK' /\ Busy' /\ odd' \subseteq {"two", "early"} /\ (odd' = {} => odd = {})
      /\ odd' = {} => \A n : OnMain(n)' => n \in reported /\ main'.step = "call"
                                          /\ main'.call = 1 /\ n # m
  <2>1. ASSUME NEW d \in main.todo, Stopping(d, main.todo \ {d}, main.next)
        PROVE  /\ MainOK' /\ Busy' /\ odd' \subseteq {"two", "early"} /\ (odd' = {} => odd = {})
               /\ odd' = {} => \A n : OnMain(n)' => n \in reported /\ main'.step = "call"
                                                   /\ main'.call = 1 /\ n # m
    <3>1. /\ MainOK' /\ odd' \subseteq {"two", "early"}
          /\ main'.step = "call" /\ main'.c = {d} /\ main'.call = 1 /\ main'.next = main.next
          /\ main'.todo = main.todo \ {d}
      BY <1>0, <2>1 DEF Stopping, MainOK, RestOK
    <3>2. d \in Connections /\ d # c /\ started'[d] /\ miner'[d] = miner[d]
      BY <1>1, <1>3, <1>7, <2>1 DEF Started
    <3>3. Busy'
      BY <1>0, <1>1, <1>7, <3>1, <3>2 DEF Busy
    <3>4. odd' = {} => odd = {} /\ miner[d] \in reported
      BY <2>1 DEF Stopping
    <3>5. \A n : OnMain(n)' => n = miner[d]
      BY <3>1, <3>2 DEF OnMain
    <3>6. miner[d] # m
      BY <1>0, <1>1, <3>2 DEF Own
    <3>. QED
      BY <3>1, <3>3, <3>4, <3>5, <3>6
  <2>2. ASSUME main.todo = {}, UNCHANGED odd,
               main' = IF main.next = {} THEN Idle ELSE Resting(main.next)
        PROVE  /\ MainOK' /\ Busy' /\ odd' \subseteq {"two", "early"} /\ (odd' = {} => odd = {})
               /\ odd' = {} => \A n : OnMain(n)' => n \in reported /\ main'.step = "call"
                                                   /\ main'.call = 1 /\ n # m
    <3>1. /\ MainOK' /\ main'.step \in {"idle", "start"} /\ main'.c = {} /\ main'.todo = {}
          /\ main'.next = main.next
      BY <1>0, <2>2 DEF MainOK, Idle, Resting
    <3>2. Busy'
      BY <1>0, <1>1, <1>7, <2>2, <3>1 DEF Busy
    <3>3. \A n : ~OnMain(n)'
      BY <3>1 DEF OnMain
    <3>. QED
      BY <1>0, <2>2, <3>1, <3>2, <3>3 DEF RestOK
  <2>. QED
    BY <2>1, <2>2 DEF Delete
<1>9. RestOK'
  BY <1>0, <1>2, <1>6, <1>8 DEF RestOK
<1>10. Base'
  BY <1>4, <1>5, <1>6, <1>8, <1>9, TypePartsNext DEF Base
<1>11. ASSUME Regular' PROVE RInv'
  <2>1. RInv
    BY <1>8, <1>11 DEF IInv, Regular
  <2>2. /\ \A n : OnMain(n)' => n \in reported /\ main'.step = "call" /\ main'.call = 1 /\ n # m
    BY <1>8, <1>11 DEF Regular
  <2>3. m \in reported /\ Past(m)
    BY <1>1, <2>1 DEF RInv, StopsReported, Stage, Working, AskedToStop
  <2>4. Stage'
    <3> SUFFICES ASSUME NEW n \in reported PROVE Working(n)' \/ Past(n)'
      BY <1>2 DEF Stage, app
    <3>1. Working(n) \/ Past(n)
      BY <1>1, <2>1 DEF RInv, Stage, AskedToStop
    <3>2. CASE Working(n)
      BY <1>1, <1>2, <2>2, <3>2 DEF Working, app
    <3>3. CASE Past(n)
      BY <1>1, <1>2, <3>3 DEF Past, app
    <3>. QED
      BY <3>1, <3>2, <3>3
  <2>5. StopsReported'
    BY <1>2, <2>2 DEF StopsReported, app
  <2>6. Owned'
    <3> SUFFICES ASSUME NEW n \in Miners, Alive(n)
                 PROVE  \E d \in Connections : miner'[d] = n /\ started'[d]
      BY <1>2 DEF Owned, Alive, app
    <3>1. PICK d \in Connections : miner[d] = n /\ started[d]
      BY <2>1 DEF RInv, Owned
    <3>2. d # c
      BY <2>3, <3>1 DEF Past, Alive
    <3>. QED
      BY <1>3, <3>1, <3>2
  <2>7. DeadIdle'
    BY <1>2, <2>1, <2>3 DEF RInv, DeadIdle, Past, Alive, app
  <2>8. Shown'
    <3> SUFFICES ASSUME NEW d \in Connections, command[d] = "stop"
                 PROVE  started'[d] /\ workState[miner'[d]] = "mining"
      BY <1>2 DEF Shown, app
    <3>1. started[d] /\ workState[miner[d]] = "mining"
      BY <2>1 DEF RInv, Shown
    <3>2. d # c
      BY <2>3, <3>1 DEF Past
    <3>. QED
      BY <1>3, <3>1, <3>2
  <2>9. OneAlive' /\ Unstopped' /\ Quiet' /\ ~crashed'
    BY <1>2, <2>1 DEF RInv, Unstopped, OneAlive, Quiet, Alive, app
  <2>. QED
    BY <2>4, <2>5, <2>6, <2>7, <2>8, <2>9 DEF RInv
<1>. QED
  BY <1>10, <1>11 DEF IInv

\* A miner is made, after a click or after the others are stopped.
LEMMA StartInv ==
  ASSUME IInv, NEW c \in Connections, NEW ok \in BOOLEAN, ClickStart(c, ok) \/ StartBest(c, ok)
  PROVE  IInv'
<1>0. MainOK /\ ConnOK /\ AppOK /\ RestOK /\ Own /\ Busy /\ Flag
  BY TypeParts DEF IInv, Base
<1>1. MakeMiner(c, ok) /\ main' = Idle /\ main.step \in {"idle", "start"}
  BY IdleOK DEF ClickStart, StartBest
<1>2. ~started[c]
  BY <1>0 DEF ClickStart, StartBest, Busy, Started
<1>3. MainOK'
  BY <1>1 DEF MainOK, Idle
<1>4. Base'
  BY <1>1, <1>2, <1>3, MakeMinerBase DEF IInv
<1>5. ASSUME Regular' PROVE RInv'
  <2>1. odd' = {} /\ RInv
    BY <1>1, <1>5 DEF Regular, MakeMiner, IInv
  <2>2. command[c] # "stop"
    BY <1>2, <2>1 DEF RInv, Shown
  <2>. QED
    BY <1>1, <1>2, <2>1, <2>2, MakeMinerRegular DEF IInv
<1>. QED
  BY <1>4, <1>5 DEF IInv

LEMMA StopInv ==
  ASSUME IInv, NEW c \in Connections,
         ClickStop(c) \/ \E best \in Connections : Select(best, c)
  PROVE  IInv'
<1>0. MainOK /\ ConnOK /\ AppOK /\ RestOK /\ Own /\ Busy /\ Flag
  BY TypeParts DEF IInv, Base
<1>1. CASE ClickStop(c)
  <2>1. c \in Started
    BY <1>1 DEF ClickStop, Started
  <2>. QED
    BY <1>1, <2>1, BeginStop DEF ClickStop
<1>2. ASSUME NEW best \in Connections, Select(best, c) PROVE IInv'
  <2>1. /\ main = Idle /\ c \in Started /\ Stopping(c, Started \ {c}, {best})
        /\ UNCHANGED <<objects, app, command, crashed>>
    BY <1>2 DEF Select
  <2>2. Started \ {c} \in SUBSET Started /\ {best} \in SUBSET Connections
        /\ Started \subseteq {c} \cup (Started \ {c}) /\ c \notin Started \ {c}
    OBVIOUS
  <2>. QED
    BY <2>1, <2>2, BeginStop
<1>. QED
  BY <1>1, <1>2

-----------------------------------------------------------------------------
(* The miner's thread *)

\* What all steps of a thread have in common; the flag may be taken.
LEMMA ThreadBase ==
  ASSUME Base, NEW m \in Miners, NEW from \in {"begin", "registered", "loop", "left"},
         NEW to \in {"registered", "loop", "left", "ended"}, Steps(m, from, to), AppOK', RestOK',
         command' \in [Connections -> {"none", "start", "stop"}],
         stopFlag' = stopFlag \/ stopFlag' = 0, from = "loop" /\ to # "loop" => stopFlag' = 0,
         running' = running \/ (from = "begin" /\ running' = running \cup {m})
  PROVE  Base' /\ \A n \in Miners \ {m} : thread'[n] = thread[n]
<1>0. MainOK /\ ConnOK /\ AppOK /\ RestOK /\ Own /\ Busy /\ Flag
  BY TypeParts DEF Base
<1>1. thread'[m] = to /\ \A n \in Miners \ {m} : thread'[n] = thread[n]
  BY <1>0 DEF Steps, AppOK
<1>2. MainOK' /\ ConnOK'
  BY <1>0 DEF Steps, objects, MainOK, ConnOK
<1>3. Own' /\ Busy'
  BY <1>0, <1>1 DEF Steps, objects, Own, Busy, Started
<1>4. \A n : OnMain(n)' <=> OnMain(n)
  BY DEF OnMain, Steps, objects
<1>5. Flag'
  <2> SUFFICES ASSUME stopFlag' > 0 PROVE Flag'
    BY DEF Flag
  <2>1. main.step = "wait" /\ \A n \in Miners : OnMain(n) => thread[n] = "loop" /\ n \notin running
    BY <1>0 DEF Flag
  <2>2. \A n \in Miners : OnMain(n) => thread'[n] = "loop" /\ n \notin running'
    BY <1>1, <2>1 DEF Steps
  <2>. QED
    BY <1>4, <2>1, <2>2 DEF Flag, Steps
<1>. QED
  BY <1>1, <1>2, <1>3, <1>4, <1>5, TypePartsNext DEF Base

\* A step of a thread that has not been in the loop, or has left it.
LEMMA ThreadRegular ==
  ASSUME Base, RInv, NEW m \in Miners, NEW from \in {"begin", "registered", "loop", "left"},
         NEW to \in {"registered", "loop", "left", "ended"}, Steps(m, from, to),
         \A n \in Miners \ {m} : thread'[n] = thread[n],
         thread'[m] = to, \A n : OnMain(n)' <=> OnMain(n),
         from = "loop" => to = "left" /\ m \notin running,
         from = "left" <=> to = "ended",
         running' = IF from = "begin" THEN running \cup {m} ELSE running,
         UNCHANGED <<command, workState, reported>>
  PROVE  RInv'
<1>0. MainOK /\ ConnOK /\ AppOK /\ RestOK /\ Own /\ Busy /\ Flag
  BY TypeParts DEF Base
<1>1. Alive(m) /\ \A n \in Miners \ {m} : ~Alive(n)
  BY DEF RInv, OneAlive, Alive, Steps
<1>2. \A n \in Miners : Alive(n)' => n = m
  BY <1>1 DEF Alive
<1>3. m \notin deleted /\ ~crashed'
  BY <1>1 DEF RInv, DeadIdle, Steps
<1>4. OneAlive' /\ Owned'
  BY <1>1, <1>2 DEF RInv, OneAlive, Owned, Steps, objects
<1>5. deleted \subseteq Miners
  BY <1>0, ConstantsOK DEF ConnOK, Miners
<1>6. DeadIdle'
  BY <1>2, <1>3, <1>5 DEF RInv, DeadIdle, Steps, objects
<1>7. Stage'
  <2> SUFFICES ASSUME NEW n \in reported PROVE Working(n)' \/ AskedToStop(n)' \/ Past(n)'
    BY DEF Stage
  <2>1. n \in Miners /\ (Working(n) \/ AskedToStop(n) \/ Past(n))
    BY <1>0 DEF RInv, Stage, AppOK
  <2>2. CASE n = m
    <3>1. ~Working(n)
      BY <2>2 DEF Working, Steps
    <3>2. ~Past(n)
      BY <2>2 DEF Past, Steps
    <3>3. AskedToStop(n)
      BY <2>1, <3>1, <3>2
    <3>4. running' = running
      BY <2>2, <3>3 DEF AskedToStop, Steps
    <3>. QED
      BY <2>2, <3>3, <3>4 DEF AskedToStop, Steps
  <2>3. CASE n # m
    <3>1. thread'[n] = thread[n] /\ (n \in running' <=> n \in running)
      BY <2>1, <2>3
    <3>. QED
      BY <2>1, <3>1 DEF Working, AskedToStop, Past, Steps, objects
  <2>. QED
    BY <2>2, <2>3
<1>8. StopsReported' /\ Quiet' /\ Shown'
  BY DEF RInv, StopsReported, Quiet, Shown, Steps, objects
<1>9. Unstopped'
  BY DEF RInv, Unstopped, Steps
<1>. QED
  BY <1>3, <1>4, <1>6, <1>7, <1>8, <1>9 DEF RInv

LEMMA ThreadInv == ASSUME IInv, NEW m \in Miners, Thread(m) PROVE IInv'
<1>0. MainOK /\ ConnOK /\ AppOK /\ RestOK /\ Own /\ Busy /\ Flag
  BY TypeParts DEF IInv, Base
<1>1. ASSUME NEW from \in {"begin", "registered", "loop", "left"},
             NEW to \in {"registered", "loop", "left", "ended"}, Steps(m, from, to),
             AppOK', stopFlag' = stopFlag \/ stopFlag' = 0,
             from = "loop" => to = "left" /\ stopFlag > 0 /\ stopFlag' = 0,
             from = "left" <=> to = "ended",
             running' = IF from = "begin" THEN running \cup {m} ELSE running,
             UNCHANGED <<command, workState, reported>>
      PROVE  IInv'
  <2>1. RestOK' /\ command' \in [Connections -> {"none", "start", "stop"}]
    <3>1. stopFlag' \in 0..1 /\ odd' \subseteq {"two", "early"} /\ crashed' \in BOOLEAN
      BY <1>0, <1>1 DEF RestOK, Steps
    <3>. QED
      BY <1>0, <1>1, <3>1 DEF RestOK, ConnOK
  <2>2. /\ Base' /\ \A n \in Miners \ {m} : thread'[n] = thread[n]
        /\ thread'[m] = to /\ \A n : OnMain(n)' <=> OnMain(n)
    <3>1. /\ Base /\ from # "none" /\ Steps(m, from, to) /\ AppOK'
          /\ stopFlag' = stopFlag \/ stopFlag' = 0
          /\ from = "loop" /\ to # "loop" => stopFlag' = 0
          /\ running' = running \/ (from = "begin" /\ running' = running \cup {m})
      BY <1>1 DEF IInv
    <3>2. Base' /\ \A n \in Miners \ {m} : thread'[n] = thread[n]
      BY <2>1, <3>1, ThreadBase
    <3>3. thread'[m] = to
      BY <1>0, <1>1 DEF Steps, AppOK
    <3>4. \A n : OnMain(n)' <=> OnMain(n)
      BY <1>1 DEF OnMain, Steps, objects
    <3>. QED
      BY <3>2, <3>3, <3>4
  <2>3. ASSUME Regular' PROVE RInv'
    <3>1. RInv
      BY <1>1, <2>3 DEF IInv, Regular, Steps
    <3>2. from = "loop" => m \notin running
      <4> SUFFICES ASSUME from = "loop" PROVE m \notin running
        OBVIOUS
      <4>1. main.step = "wait" /\ \A n \in Miners : OnMain(n) => thread[n] = "loop" /\ n \notin running
        BY <1>0, <1>1 DEF Flag
      <4>2. PICK c \in Connections : main.c = {c}
        BY <1>0, <4>1 DEF Busy
      <4>3. miner[c] \in Miners /\ OnMain(miner[c])
        BY <4>1, <4>2, OnMainIs DEF IInv
      <4>4. miner[c] = m
        BY <1>1, <3>1, <4>1, <4>3 DEF RInv, OneAlive, Alive, Steps
      <4>. QED
        BY <4>1, <4>3, <4>4
    <3>. QED
      BY <1>1, <2>2, <3>1, <3>2, ThreadRegular DEF IInv
  <2>. QED
    BY <2>2, <2>3 DEF IInv
<1>2. CASE Register(m)
  <2>1. AppOK'
    BY <1>0, <1>2 DEF Register, Steps, AppOK
  <2>. QED
    BY <1>1, <1>2, <2>1 DEF Register
<1>3. CASE ExecFails(m)
  <2>1. AppOK'
    BY <1>0, <1>3 DEF ExecFails, Steps, AppOK
  <2>. QED
    BY <1>1, <1>3, <2>1 DEF ExecFails
<1>4. CASE EnterLoop(m)
  <2>1. AppOK'
    BY <1>0, <1>4 DEF EnterLoop, Steps, AppOK
  <2>. QED
    BY <1>1, <1>4, <2>1 DEF EnterLoop
<1>5. CASE LeaveLoop(m)
  <2>1. AppOK'
    BY <1>0, <1>5 DEF LeaveLoop, Steps, AppOK
  <2>. QED
    BY <1>1, <1>5, <2>1 DEF LeaveLoop, FlagTaken
<1>6. CASE End(m)
  <2>1. AppOK'
    BY <1>0, <1>6 DEF End, Steps, AppOK
  <2>. QED
    BY <1>1, <1>6, <2>1 DEF End
<1>. QED
  BY <1>2, <1>3, <1>4, <1>5, <1>6 DEF Thread

\* The application reports a state.
LEMMA ReportInv == ASSUME IInv, NEW m \in Miners, NEW s \in States, Report(m, s) PROVE IInv'
<1> DEFINE d == ConnectionOf(m)
<1>0. MainOK /\ ConnOK /\ AppOK /\ RestOK /\ Own /\ Busy /\ Flag
  BY TypeParts DEF IInv, Base
<1>1. /\ s # "idle" /\ Steps(m, "loop", "loop")
      /\ workState' = [workState EXCEPT ![m] = s] /\ reported' = reported \cup {m}
      /\ command' = IF workState[m] # s /\ m \notin deleted
                    THEN [command EXCEPT ![d] = Button(s)] ELSE command
      /\ UNCHANGED <<registered, running, stopFlag>>
  BY DEF Report
<1>2. Button(s) \in {"none", "stop"} /\ (Button(s) = "stop" => s = "mining")
  BY <1>1 DEF Button
<1>3. /\ workState' \in [Miners -> States] /\ workState'[m] = s
      /\ \A n \in Miners \ {m} : workState'[n] = workState[n]
  BY <1>0, <1>1 DEF AppOK
<1>4. AppOK'
  BY <1>0, <1>1, <1>3 DEF AppOK, Steps
<1>5. command' \in [Connections -> {"none", "start", "stop"}]
  BY <1>0, <1>1, <1>2 DEF ConnOK
<1>6. RestOK'
  <2>1. stopFlag' \in 0..1 /\ odd' \subseteq {"two", "early"} /\ crashed' \in BOOLEAN
    BY <1>0, <1>1 DEF RestOK, Steps
  <2>. QED
    BY <2>1 DEF RestOK
<1>7. thread' = thread /\ UNCHANGED <<objects, main, odd>>
  BY <1>0, <1>1 DEF Steps, AppOK
<1>8. Base'
  <2>1. ConnOK' /\ MainOK'
    BY <1>0, <1>5, <1>7 DEF ConnOK, MainOK, objects
  <2>2. Own' /\ Busy' /\ Flag'
    BY <1>0, <1>1, <1>7 DEF Own, Busy, Flag, objects, Started, OnMain
  <2>. QED
    BY <1>4, <1>6, <2>1, <2>2, TypePartsNext DEF Base
<1>9. \A n : (OnMain(n)' <=> OnMain(n)) /\ (Alive(n)' <=> Alive(n))
  BY <1>7 DEF OnMain, Alive, objects
<1>10. ASSUME Regular' PROVE RInv'
  <2>1. RInv
    BY <1>7, <1>10 DEF IInv, Regular
  <2>2. thread[m] = "loop" /\ Alive(m) /\ m \notin deleted /\ ~crashed'
    BY <1>1, <2>1 DEF Steps, Alive, RInv, DeadIdle
  <2>3. d \in Connections /\ miner[d] = m /\ started[d]
    <3>1. PICK c \in Connections : miner[c] = m /\ started[c]
      BY <2>1, <2>2 DEF RInv, Owned
    <3>2. d \in Connections /\ miner[d] = m
      BY <3>1 DEF ConnectionOf
    <3>3. m # 0
      BY DEF Miners
    <3>. QED
      BY <1>0, <3>1, <3>2, <3>3 DEF Own
  <2>4. Stage'
    <3> SUFFICES ASSUME NEW n \in reported'
                 PROVE  Working(n)' \/ AskedToStop(n)' \/ Past(n)'
      BY DEF Stage
    <3>1. CASE n = m
      <4>1. m \in reported => Working(m) \/ AskedToStop(m)
        BY <2>1, <2>2 DEF RInv, Stage, Past
      <4>2. m \notin reported => Working(m)
        BY <2>1, <2>2 DEF RInv, Unstopped, StopsReported, Working
      <4>. QED
        BY <1>1, <1>7, <1>9, <3>1, <4>1, <4>2 DEF Working, AskedToStop
    <3>2. CASE n # m
      <4>1. n \in reported /\ n \in Miners
        BY <1>0, <1>1, <3>2 DEF AppOK
      <4>2. Working(n) \/ AskedToStop(n) \/ Past(n)
        BY <2>1, <4>1 DEF RInv, Stage
      <4>. QED
        BY <1>1, <1>3, <1>7, <1>9, <3>2, <4>1, <4>2 DEF Working, AskedToStop, Past, objects
    <3>. QED
      BY <3>1, <3>2
  <2>5. StopsReported' /\ Unstopped'
    BY <1>1, <1>7, <1>9, <2>1 DEF RInv, StopsReported, Unstopped
  <2>6. OneAlive' /\ Owned'
    BY <1>7, <1>9, <2>1 DEF RInv, OneAlive, Owned, objects
  <2>7. DeadIdle'
    <3>1. deleted \subseteq Miners
      BY <1>0, ConstantsOK DEF ConnOK, Miners
    <3>. QED
      BY <1>3, <1>7, <1>9, <2>1, <2>2, <3>1 DEF RInv, DeadIdle, objects
  <2>8. Quiet'
    BY <1>1, <1>3, <2>1 DEF RInv, Quiet
  <2>9. Shown'
    <3> SUFFICES ASSUME NEW c \in Connections, command'[c] = "stop"
                 PROVE  started[c] /\ workState'[miner[c]] = "mining"
      BY <1>7 DEF Shown, objects
    <3>1. CASE c = d
      <4>1. CASE workState[m] # s
        <5>1. command'[d] = Button(s)
          BY <1>0, <1>1, <2>2, <2>3, <4>1 DEF ConnOK
        <5>. QED
          BY <1>2, <1>3, <2>3, <3>1, <5>1
      <4>2. CASE workState[m] = s
        BY <1>1, <1>3, <2>1, <2>3, <3>1, <4>2 DEF RInv, Shown
      <4>. QED
        BY <4>1, <4>2
    <3>2. CASE c # d
      <4>1. command[c] = "stop"
        BY <1>0, <1>1, <3>2 DEF ConnOK
      <4>2. started[c] /\ workState[miner[c]] = "mining"
        BY <2>1, <4>1 DEF RInv, Shown
      <4>3. miner[c] # m /\ miner[c] \in Miners
        BY <1>0, <2>3, <3>2, <4>2, ConstantsOK DEF Own, ConnOK, Miners
      <4>. QED
        BY <1>3, <4>2, <4>3
    <3>. QED
      BY <3>1, <3>2
  <2>. QED
    BY <2>1, <2>2, <2>4, <2>5, <2>6, <2>7, <2>8, <2>9 DEF RInv
<1>. QED
  BY <1>8, <1>10 DEF IInv

-----------------------------------------------------------------------------
(* The theorems *)

LEMMA StepInv == IInv /\ [Next]_vars => IInv'
<1> SUFFICES ASSUME IInv, [Next]_vars PROVE IInv'
  OBVIOUS
<1>1. CASE Next
  <2>1. ASSUME NEW c \in Connections, NEW ok \in BOOLEAN, ClickStart(c, ok) \/ StartBest(c, ok)
        PROVE  IInv'
    BY <2>1, StartInv
  <2>2. ASSUME NEW c \in Connections, ClickStop(c) PROVE IInv'
    BY <2>2, StopInv
  <2>3. ASSUME NEW best \in Connections, NEW first \in Connections, Select(best, first)
        PROVE  IInv'
    BY <2>3, StopInv
  <2>4. ASSUME NEW c \in Connections, CallStop(c) \/ Wait(c) \/ Delete(c) PROVE IInv'
    BY <2>4, CallStopInv, WaitInv, DeleteInv
  <2>5. ASSUME NEW m \in Miners, Thread(m) PROVE IInv'
    BY <2>5, ThreadInv
  <2>6. ASSUME NEW m \in Miners, NEW s \in States, Report(m, s) PROVE IInv'
    BY <2>6, ReportInv
  <2>. QED
    BY <1>1, <2>1, <2>2, <2>3, <2>4, <2>5, <2>6 DEF Next, Main
<1>2. CASE UNCHANGED vars
  <2>1. Base'
    BY <1>2 DEF IInv, Base, TypeOK, Own, Busy, Flag, OnMain, Started, vars
  <2>2. ASSUME Regular' PROVE RInv'
    BY <1>2, <2>2
    DEF IInv, Regular, RInv, OneAlive, Owned, DeadIdle, Stage, Unstopped, StopsReported, Quiet,
        Shown, Alive, Working, AskedToStop, Past, OnMain, vars
  <2>. QED
    BY <2>1, <2>2 DEF IInv
<1>. QED
  BY <1>1, <1>2

LEMMA Invariance == Spec => []IInv
  BY InitInv, StepInv, PTL DEF Spec

\* Every variable keeps its type: in particular no miner beyond those made is deleted, and
\* the stop flag is never raised twice.
THEOREM TypeCorrect == Spec => []TypeOK
<1>1. IInv => TypeOK
  BY DEF IInv, Base
<1>. QED
  BY <1>1, Invariance, PTL

\* However many miners are made and stopped, no application is called that is not there or
\* has no loop, and no thread goes on without its object, unless two miners were started
\* by hand or one was stopped before it reported (CAppXmrig::Stop, destroyMiner).
THEOREM NoCallOfTheDead == Spec => []NoDeadCall
<1>1. IInv => NoDeadCall
  BY DEF IInv, RInv, NoDeadCall
<1>. QED
  BY <1>1, Invariance, PTL

\* A deleted miner leaves no thread, no state on the panel and no stop flag behind
\* (CMinerXmrig::Stop).
THEOREM NothingLeft == Spec => []EndsIdle
<1>1. IInv => EndsIdle
  BY TypeParts DEF IInv, Base, RInv, DeadIdle, EndsIdle, Flag, RestOK
<1>. QED
  BY <1>1, Invariance, PTL

\* A button that says Stop stops a miner that is in its loop (onMiningStatus).
THEOREM StopIsAnswered == Spec => []StopFinds
<1>1. IInv => StopFinds
  <2> SUFFICES ASSUME IInv, Regular, main = Idle, NEW c \in Connections, command[c] = "stop"
               PROVE  started[c] /\ thread[miner[c]] = "loop" /\ Answers(miner[c])
    BY DEF StopFinds
  <2>0. ConnOK /\ AppOK /\ Own
    BY TypeParts DEF IInv, Base
  <2>1. started[c] /\ workState[miner[c]] = "mining"
    BY DEF IInv, RInv, Shown
  <2>2. miner[c] \in Miners /\ miner[c] \notin deleted
    BY <2>0, <2>1, ConstantsOK DEF ConnOK, Own, Miners
  <2>3. miner[c] \in reported
    BY <2>1, <2>2 DEF IInv, RInv, Quiet
  <2>4. Working(miner[c])
    BY <2>2, <2>3, IdleOK DEF IInv, RInv, Stage, AskedToStop, Past
  <2>. QED
    BY <2>0, <2>1, <2>4 DEF Working, Answers, AppOK
<1>. QED
  BY <1>1, Invariance, PTL
=============================================================================
