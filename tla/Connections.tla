---------------------------- MODULE Connections ----------------------------
(***************************************************************************)
(* The list of configured connections, the config file it is kept in and   *)
(* the dashboard that edits, starts and stops them (connections.cpp,       *)
(* app-config.cpp, ui-dashboard.cpp, ui-wizard.cpp).  Everything happens   *)
(* on the main thread, one handler at a time: the handlers of the          *)
(* dashboard, and updateConnections, which the main loop calls and which   *)
(* may run while the wizard is open.  A miner is seen as the connection    *)
(* sees it; the thread behind it is not part of this module.               *)
(*                                                                         *)
(* A connection's text is what toManifest writes of its settings.  Of the  *)
(* settings four are told apart: the host, the percentage to trade (0 is   *)
(* written as nothing), the auto flag and the started flag.                *)
(***************************************************************************)
EXTENDS Integers, Sequences, FiniteSets, FiniteSetsExt, SequencesExt

CONSTANTS
    Objects,      \* CConnection objects; one is used again once nothing refers to it
    Hosts,        \* hosts a user may choose
    Percents,     \* percentages a user may choose, 0 for none
    Files,        \* config files the program may be started with first
    Base,         \* base the ids are written in (10 in the code)
    MaxListed,    \* bound: connections in the list
    MaxEdits,     \* bound: additions, edits and deletions
    MaxRestarts   \* bound: times the program ends and is started again

Info == [host: Hosts, percent: Percents, auto: BOOLEAN, started: BOOLEAN]

\* The text of settings: a member whose text would be empty is left out.
Text(info) ==
    [m \in {"host", "auto", "started"} \cup {p \in {"percent"} : info[p] > 0} |-> info[m]]

Texts == {Text(info) : info \in Info}

\* There is an object for every connection that the list or a file may have.
ASSUME ConstantsOK ==
    /\ Hosts # {}
    /\ 0 \in Percents
    /\ Percents \subseteq Nat
    /\ Base \in Nat \ 0..2
    /\ MaxListed \in Nat
    /\ MaxEdits \in Nat
    /\ MaxRestarts \in Nat
    /\ IsFiniteSet(Objects) /\ MaxListed <= Cardinality(Objects)
    /\ Files \subseteq Seq(Texts)
    /\ \A f \in Files : Len(f) <= MaxListed

VARIABLES
    list,       \* m_connections: the object of every key, key 0 first
    conn,       \* the state of every object
    listEdit,   \* CConnectionList::m_hasEdit
    section,    \* the section "connections" in memory: text by id
    file,       \* the same section on disk
    controls,   \* the connections on the dashboard, in the order they were added
    wizard,     \* the connection wizard, when it edits a connection
    edits,      \* edits made so far
    restarts    \* restarts so far

vars == <<list, conn, listEdit, section, file, controls, wizard, edits, restarts>>

Closed == [open |-> FALSE]
Listed == ToSet(list)

(***************************************************************************)
(* Settings                                                                *)
(***************************************************************************)

\* fromManifest sets the members the text has and leaves the others as they are.
Applied(info, text) ==
    [m \in DOMAIN info |-> IF m \in DOMAIN text THEN text[m] ELSE info[m]]

\* A new CConnection, with the defaults of Init( ConnectionInfo ); the host is one that
\* every text replaces.
NewConnection(i) ==
    [index |-> i, edited |-> FALSE, miner |-> "none",
     info |-> [host |-> CHOOSE h \in Hosts : TRUE, percent |-> 0,
               auto |-> FALSE, started |-> FALSE]]

IsMining(c) == c.miner # "none"

\* A slip: the settings are loaded while the miner runs.
LoadSettingsMining(c, text) == [c EXCEPT !.info = Applied(c.info, text), !.edited = FALSE]

LoadSettings(c, text) ==
    IF IsMining(c) THEN c
    ELSE [c EXCEPT !.info = Applied(c.info, text), !.edited = FALSE]

AdviseEdit(c) == [c EXCEPT !.edited = TRUE]

\* saveSettings succeeds for a connection with an edit that is not mining.
Saves(c) == ~IsMining(c) /\ c.edited

(***************************************************************************)
(* saveConfig, for a list l of objects in the states cs                    *)
(***************************************************************************)

\* A slip: the key of the list is taken for the id.
SectionsByKey(l, cs) ==
    LET saved == {id \in DOMAIN l : Saves(cs[l[id]])}
    IN  [id \in {i - 1 : i \in saved} |-> Text(cs[l[id + 1]].info)]

Sections(l, cs) ==
    LET saved == {id \in DOMAIN l : Saves(cs[l[id]])}
    IN  [id \in DOMAIN l \cap (DOMAIN section \cup saved) |->
            IF id \in saved THEN Text(cs[l[id]].info) ELSE section[id]]

SaveConfig(l, cs, hasEdit) ==
    /\ section' = Sections(l, cs)
    /\ conn' = [o \in Objects |->
                   IF o \in ToSet(l) /\ Saves(cs[o]) THEN [cs[o] EXCEPT !.edited = FALSE]
                   ELSE cs[o]]
    /\ file' = IF hasEdit \/ \E o \in ToSet(l) : Saves(cs[o]) THEN section' ELSE file
    /\ listEdit' = FALSE

(***************************************************************************)
(* loadConfig and the construction of the dashboard.  The ids are read in  *)
(* the order of their texts and one is skipped when the id before it was   *)
(* not read yet, so reading ends at the first id that is missing or that   *)
(* has a digit more than the one before it.                                *)
(***************************************************************************)

Consecutive(f) == {n \in 0..Cardinality(DOMAIN f) : n < Base /\ 1..n \subseteq DOMAIN f}
Readable(f) == Max(Consecutive(f))

\* The objects in the order they are made in a new session.
Fresh == SetToSeq(Objects)

Object(i) == Fresh[i + 1]

LoadedList(f) == [i \in 1..Readable(f) |-> Object(i - 1)]

LoadedConn(f) ==
    [o \in Objects |->
        LET at == {i \in 1..Readable(f) : Object(i - 1) = o}
        IN  IF at = {} THEN NewConnection(0)
            ELSE LET i == CHOOSE n \in at : TRUE
                 IN  LoadSettings(NewConnection(i - 1), f[i])]

\* A slip: the index counts the controls before this one and leaves the first out.
ControlBefore(o, i, named) == [of |-> o, index |-> IF i > 1 THEN i - 1 ELSE 0, named |-> named]

\* The dashboard names the controls it is built with; the index is part of a control's
\* commands, and of its name, from then on.
Control(o, i, named) == [of |-> o, index |-> i, named |-> named]

LoadedControls(f) == [i \in 1..Readable(f) |-> Control(Object(i - 1), i - 1, TRUE)]

LoadConfig(f) ==
    /\ list' = LoadedList(f)
    /\ conn' = LoadedConn(f)
    /\ listEdit' = FALSE
    /\ section' = f
    /\ file' = f
    /\ controls' = LoadedControls(f)
    /\ wizard' = Closed

Init ==
    /\ file \in Files
    /\ section = file
    /\ list = LoadedList(file)
    /\ conn = LoadedConn(file)
    /\ listEdit = FALSE
    /\ controls = LoadedControls(file)
    /\ wizard = Closed
    /\ edits = 0
    /\ restarts = 0

(***************************************************************************)
(* Adding, editing and deleting a connection                               *)
(***************************************************************************)

\* An object nothing refers to.
Free(o) ==
    /\ o \notin Listed
    /\ ~IsMining(conn[o])
    /\ \A k \in DOMAIN controls : controls[k].of # o

\* Settings the wizard can end with: what the user chooses, and what it leaves alone.
Chosen(started) ==
    [host: Hosts, percent: Percents, auto: BOOLEAN, started: {started}]

CanEdit == edits < MaxEdits
Count == edits' = edits + 1 /\ UNCHANGED restarts

AddConnection ==
    /\ CanEdit
    /\ ~wizard.open
    /\ Len(list) < MaxListed
    /\ \E o \in Objects, info \in Chosen(FALSE) :
          LET i == Len(list)
              c == AdviseEdit(LoadSettings(NewConnection(i), Text(info)))
          IN  /\ Free(o)
              /\ o = CHOOSE p \in Objects : Free(p)
              /\ list' = Append(list, o)
              /\ SaveConfig(list', [conn EXCEPT ![o] = c], listEdit)
              /\ controls' = Append(controls, Control(o, i, FALSE))
    /\ Count
    /\ UNCHANGED wizard

\* The wizard copies the settings when it opens.
OpenWizard(k) ==
    LET i == controls[k].index
    IN  /\ CanEdit
        /\ ~wizard.open
        /\ i < Len(list)
        /\ wizard' = [open |-> TRUE, index |-> i, info |-> conn[list[i + 1]].info]
        /\ UNCHANGED <<list, conn, listEdit, section, file, controls, edits, restarts>>

CancelWizard ==
    /\ wizard.open
    /\ wizard' = Closed
    /\ UNCHANGED <<list, conn, listEdit, section, file, controls, edits, restarts>>

EditConnection ==
    /\ wizard.open
    /\ \E info \in Chosen(wizard.info.started) :
          LET o == list[wizard.index + 1]
          IN  SaveConfig(list,
                  [conn EXCEPT ![o] = AdviseEdit(LoadSettings(@, Text(info)))], listEdit)
    /\ wizard' = Closed
    /\ Count
    /\ UNCHANGED <<list, controls>>

\* removeControl: the control of that name, if there is one.
Removed(i) ==
    LET found == {k \in DOMAIN controls : controls[k].named /\ controls[k].index = i}
    IN  IF found = {} THEN controls ELSE RemoveAt(controls, CHOOSE k \in found : TRUE)

\* A slip: the last connection is not moved.
MovedDownButLast(i) ==
    [o \in Objects |->
        IF \E j \in i + 2..Len(list) - 1 : list[j] = o
        THEN [AdviseEdit(conn[o]) EXCEPT !.index = @ - 1]
        ELSE conn[o]]

\* A slip: a connection that moves is not marked as edited.
MovedDownSilently(i) ==
    [o \in Objects |->
        IF \E j \in i + 2..Len(list) : list[j] = o
        THEN [conn[o] EXCEPT !.index = @ - 1]
        ELSE conn[o]]

\* deleteConnection moves every later connection down by one.
MovedDown(i) ==
    [o \in Objects |->
        IF \E j \in i + 2..Len(list) : list[j] = o
        THEN [AdviseEdit(conn[o]) EXCEPT !.index = @ - 1]
        ELSE conn[o]]

DeleteConnection(k) ==
    LET i == controls[k].index
    IN  /\ CanEdit
        /\ ~wizard.open
        /\ controls' = Removed(i)
        /\ IF i < Len(list)
           THEN /\ list' = RemoveAt(list, i + 1)
                /\ SaveConfig(list', MovedDown(i), TRUE)
           ELSE /\ SaveConfig(list, conn, listEdit)
                /\ UNCHANGED list
        /\ Count
        /\ UNCHANGED wizard

(***************************************************************************)
(* Starting and stopping miners                                            *)
(***************************************************************************)

\* What CConnection::Start may leave behind: the thread may fail to start.
Started(c) ==
    IF c.info.started THEN {c}
    ELSE {[c EXCEPT !.miner = "mining", !.info.started = TRUE], [c EXCEPT !.miner = "idle"]}

Stopped(c) ==
    IF ~IsMining(c) \/ ~c.info.started THEN c
    ELSE [c EXCEPT !.miner = "none", !.info.started = FALSE]

OnList == UNCHANGED <<list, listEdit, section, file, controls, wizard, edits, restarts>>

StartMining(k) ==
    LET o == controls[k].of
    IN  /\ ~wizard.open
        /\ o \in Listed
        /\ \E c \in Started(conn[o]) : conn' = [conn EXCEPT ![o] = c]
        /\ OnList

StopMining(k) ==
    LET o == controls[k].of
    IN  /\ ~wizard.open
        /\ o \in Listed
        /\ conn' = [conn EXCEPT ![o] = Stopped(@)]
        /\ OnList

\* onMiningAuto changes the flag and nothing else.
ToggleAuto(k) ==
    LET o == controls[k].of
    IN  /\ ~wizard.open
        /\ o \in Listed
        /\ conn' = [conn EXCEPT ![o].info.auto = ~@]
        /\ OnList

\* A slip: only auto connections are stopped.
StoppedAuto ==
    [o \in Objects |->
        IF o \in Listed /\ conn[o].info.auto THEN Stopped(conn[o]) ELSE conn[o]]

\* CConnectionList::Stop
StoppedAll == [o \in Objects |-> IF o \in Listed THEN Stopped(conn[o]) ELSE conn[o]]

Autos == {i \in DOMAIN list : conn[list[i]].info.auto}
Current == {i \in Autos : conn[list[i]].info.started}

\* updateConnections, when another auto connection earns more than the one that is
\* started (the last of them when there are several) by more than 2%.
UpdateConnections ==
    /\ Cardinality(Autos) >= 2
    /\ Current # {}
    /\ \E best \in Autos \ {Max(Current)} :
          \E c \in Started(StoppedAll[list[best]]) :
              conn' = [StoppedAll EXCEPT ![list[best]] = c]
    /\ OnList

(***************************************************************************)
(* The program ends, in order (cleanupConnections) or not, and is started  *)
(* again                                                                   *)
(***************************************************************************)

Restarted == restarts < MaxRestarts /\ restarts' = restarts + 1 /\ UNCHANGED edits

Exit ==
    /\ Restarted
    /\ LoadConfig(IF listEdit \/ \E o \in Listed : Saves(conn[o])
                  THEN Sections(list, conn) ELSE file)

Crash == Restarted /\ LoadConfig(file)

Next ==
    \/ AddConnection \/ EditConnection \/ CancelWizard
    \/ \E k \in DOMAIN controls :
          OpenWizard(k) \/ DeleteConnection(k) \/ StartMining(k) \/ StopMining(k)
          \/ ToggleAuto(k)
    \/ UpdateConnections
    \/ Exit \/ Crash

Spec == Init /\ [][Next]_vars

(***************************************************************************)
(* Properties                                                              *)
(***************************************************************************)

Miners == {"none", "idle", "mining"}
Connection == [index: Nat, edited: BOOLEAN, miner: Miners, info: Info]
Config(f) == \E n \in 0..MaxListed : f \in [1..n -> Texts]

\* The type of the state; no object is in the list twice, and a key of the config is
\* never one that no connection can have.
TypeOK ==
    /\ list \in Seq(Objects) /\ Len(list) <= MaxListed /\ IsInjective(list)
    /\ conn \in [Objects -> Connection]
    /\ listEdit \in BOOLEAN
    /\ Config(section) /\ Config(file)
    /\ controls \in Seq([of: Objects, index: Nat, named: BOOLEAN])
    /\ wizard = Closed \/ wizard \in [open: {TRUE}, index: 0..MaxListed - 1, info: Info]
    /\ edits \in 0..MaxEdits
    /\ restarts \in 0..MaxRestarts

\* The index an object has is the key it is listed under, whatever was deleted before
\* it: deleteConnection moves the later ones down one by one.
IndexOfList == \A i \in DOMAIN list : conn[list[i]].index = i - 1

\* The config on disk has an entry for every connection and for nothing else, although
\* saveConfig writes only what was edited, removes entries by looking ids up in the
\* list, and commits only when it believes that something has changed; and a connection
\* that is not mining and has no edit pending can be restored from it: the entry under
\* its present key is its own.  (The auto flag is left out, which onMiningAuto changes
\* without an edit.)
FileMatchesList ==
    LET Lasting(text) == [m \in DOMAIN text \ {"auto"} |-> text[m]]
    IN  /\ DOMAIN file = DOMAIN list
        /\ \A i \in DOMAIN list :
              LET c == conn[list[i]]
              IN  ~IsMining(c) /\ ~c.edited => Lasting(file[i]) = Lasting(Text(c.info))

\* A miner that runs can be stopped: Stop refuses a connection that is not started, and
\* an edit confirmed while it mines would take the flag from the wizard's old copy.
Stoppable == \A o \in Objects : conn[o].miner = "mining" => conn[o].info.started

\* When updateConnections changes the connection that mines, every other miner of the
\* list has been stopped before the best one is started.
SwitchLeavesOne ==
    [][UpdateConnections =>
          \A i, j \in DOMAIN list :
             conn'[list[i]].miner = "mining" /\ conn'[list[j]].miner = "mining" => i = j]_vars

\* The buttons of a control keep the index they were made with while deletions move their
\* connection down, so that they are about it or one after it: a click never edits or
\* deletes a connection that was listed before the one it was made for.
ButtonsNotBelow ==
    \A k \in DOMAIN controls :
        LET c == controls[k]
        IN  c.of \in Listed => conn[c.of].index <= c.index
=============================================================================
