-------------------------- MODULE ConnectionsProofs --------------------------
(***************************************************************************)
(* Proofs about Connections, for every set of objects, hosts and files and *)
(* every bound on the list, the edits and the restarts.                    *)
(*                                                                         *)
(* The inductive invariant IInv adds to the type, the indices and the      *)
(* buttons what they rest on: the section in memory has an entry for every *)
(* connection (it may have more, when ids were skipped on loading), an     *)
(* edit of the list is never left pending, the wizard is open on a         *)
(* connection of the list, and a connection with a miner is started        *)
(* exactly when the miner runs (MinerOK).                                  *)
(*                                                                         *)
(* FileInv is about the ids that are read back, all of them when the list  *)
(* is shorter than the base: memory and disk are the same, and what is     *)
(* written of a connection without an edit are the settings that it has    *)
(* or, while it mines, will have when it is stopped (Settings).            *)
(***************************************************************************)
EXTENDS Connections, FiniteSetTheorems, SequenceTheorems, WellFoundedInduction, TLAPS

\* A miner that runs belongs to a connection that is started, one whose thread did not
\* start to one that is not.
MinerOK(c) == c.miner # "none" => (c.info.started <=> c.miner = "mining")

\* The settings a connection has once it is stopped.
Settings(c) == IF c.miner = "mining" THEN [c.info EXCEPT !.started = FALSE] ELSE c.info

\* What lasts of a text, as FileMatchesList has it.
Lasting(text) == [m \in DOMAIN text \ {"auto"} |-> text[m]]

\* The entries of the section s are those of the connections of l that have no edit.
Entries(l, cs, s) ==
    \A i \in DOMAIN l :
        ~cs[l[i]].edited => Lasting(s[i]) = Lasting(Text(Settings(cs[l[i]])))

Button == [of: Objects, index: Nat, named: BOOLEAN]

WizardOK(w) == w = Closed \/ w \in [open: {TRUE}, index: 0..MaxListed - 1, info: Info]

IInv ==
    /\ TypeOK
    /\ IndexOfList
    /\ ButtonsNotBelow
    /\ listEdit = FALSE
    /\ wizard.open => wizard.index < Len(list) /\ edits < MaxEdits
    /\ DOMAIN list \subseteq DOMAIN section
    /\ \A o \in Objects : MinerOK(conn[o])

FileInv ==
    /\ DOMAIN section = DOMAIN list
    /\ file = section
    /\ Entries(list, conn, section)

-----------------------------------------------------------------------------
(* Numbers and sequences *)

NatOrder == OpToRel(<, Nat)

\* Every set of numbers has a least one.
LEMMA NatMin == ASSUME NEW T \in SUBSET Nat, T # {} PROVE \E x \in T : \A y \in T : x <= y
<1>1. IsWellFoundedOn(NatOrder, Nat)
  BY NatLessThanWellFounded, Zenon DEF NatOrder
<1>2. PICK x \in T : \A y \in T : ~(<<y, x>> \in NatOrder)
  BY <1>1, WFMin
<1>3. \A y, z \in Nat : y < z => <<y, z>> \in NatOrder
  BY Zenon DEF NatOrder, OpToRel
<1>4. ASSUME NEW y \in T PROVE x <= y
  <2>1. x \in Nat /\ y \in Nat
    OBVIOUS
  <2>2. ~(y < x)
    BY <1>2, <1>3, <2>1
  <2>. QED
    BY <2>1, <2>2
<1>. QED
  BY <1>4

\* Of a set of numbers up to n, the greatest is one of them.
LEMMA NatMax ==
  ASSUME NEW n \in Nat, NEW T \in SUBSET (0..n), T # {}
  PROVE  \E x \in T : \A y \in T : y <= x
<1>1. PICK D : D = {n - y : y \in T}
  OBVIOUS
<1>2. D \in SUBSET Nat /\ D # {}
  <2>1. \A y \in T : n - y \in Nat
    OBVIOUS
  <2>. QED
    BY <1>1, <2>1
<1>3. PICK d \in D : \A e \in D : d <= e
  BY <1>2, NatMin
<1>4. PICK x \in T : d = n - x
  BY <1>1, <1>3
<1>5. ASSUME NEW y \in T PROVE y <= x
  <2>1. n - y \in D
    BY <1>1
  <2>2. n - x <= n - y /\ x \in Int /\ y \in Int
    BY <1>3, <1>4, <2>1
  <2>. QED
    BY <2>2
<1>. QED
  BY <1>5

LEMMA AppendIs ==
  ASSUME NEW S, NEW s \in Seq(S), NEW x \in S
  PROVE  /\ Append(s, x) \in Seq(S) /\ Len(Append(s, x)) = Len(s) + 1 /\ Len(s) \in Nat
         /\ Append(s, x)[Len(s) + 1] = x
         /\ \A i \in 1..Len(s) : Append(s, x)[i] = s[i]
         /\ DOMAIN s = 1..Len(s) /\ DOMAIN Append(s, x) = 1..Len(s) + 1
OBVIOUS

LEMMA RemoveAtIs ==
  ASSUME NEW S, NEW s \in Seq(S), NEW c \in 1..Len(s)
  PROVE  /\ RemoveAt(s, c) \in Seq(S)
         /\ Len(RemoveAt(s, c)) = Len(s) - 1
         /\ \A i \in 1..Len(s) - 1 :
                RemoveAt(s, c)[i] = s[IF i < c THEN i ELSE i + 1]
<1> DEFINE a == SubSeq(s, 1, c - 1)
           z == SubSeq(s, c + 1, Len(s))
<1>1. Len(s) \in Nat /\ c \in Nat
  BY LenProperties
<1>2. a \in Seq(S) /\ Len(a) = c - 1 /\ \A i \in 1..c - 1 : a[i] = s[i]
  <2>1. \A i \in 1..c - 1 : s[i] \in S
    BY <1>1, ElementOfSeq
  <2>2. 1 \in Int /\ c - 1 \in Int
    BY <1>1
  <2>3. /\ a \in Seq(S) /\ Len(a) = IF 1 <= c - 1 THEN c - 1 - 1 + 1 ELSE 0
        /\ \A i \in 1..c - 1 - 1 + 1 : a[i] = s[1 + i - 1]
    BY <2>1, <2>2, SubSeqProperties
  <2>4. c - 1 - 1 + 1 = c - 1 /\ \A i \in 1..c - 1 : 1 + i - 1 = i
    BY <1>1
  <2>. QED
    BY <1>1, <2>3, <2>4
<1>3. /\ z \in Seq(S) /\ Len(z) = Len(s) - c
      /\ \A i \in 1..Len(s) - c : z[i] = s[c + i]
  <2>1. \A i \in c + 1..Len(s) : s[i] \in S
    BY <1>1, ElementOfSeq
  <2>2. Len(s) \in Int /\ c + 1 \in Int
    BY <1>1
  <2>3. /\ z \in Seq(S) /\ Len(z) = IF c + 1 <= Len(s) THEN Len(s) - (c + 1) + 1 ELSE 0
        /\ \A i \in 1..Len(s) - (c + 1) + 1 : z[i] = s[c + 1 + i - 1]
    BY <2>1, <2>2, SubSeqProperties
  <2> HIDE DEF z
  <2>4. Len(z) = Len(s) - c
    BY <1>1, <2>3
  <2>5. ASSUME NEW i \in 1..Len(s) - c PROVE z[i] = s[c + i]
    <3>1. i \in 1..Len(s) - (c + 1) + 1 /\ c + 1 + i - 1 = c + i
      BY <1>1
    <3>. QED
      BY <2>3, <3>1
  <2>. QED
    BY <2>3, <2>4, <2>5
<1> HIDE DEF a, z
<1>4. /\ a \o z \in Seq(S) /\ Len(a \o z) = Len(a) + Len(z)
      /\ \A i \in 1..Len(a) + Len(z) :
            (a \o z)[i] = IF i <= Len(a) THEN a[i] ELSE z[i - Len(a)]
  BY <1>2, <1>3, ConcatProperties
<1>5. RemoveAt(s, c) = a \o z
  BY DEF RemoveAt, a, z
<1>7. Len(a) + Len(z) = Len(s) - 1
  BY <1>1, <1>2, <1>3
<1>6. ASSUME NEW i \in 1..Len(s) - 1
      PROVE  (a \o z)[i] = s[IF i < c THEN i ELSE i + 1]
  <2>1. CASE i < c
    BY <1>1, <1>2, <1>3, <1>4, <2>1
  <2>2. CASE ~(i < c)
    <3>1. i - (c - 1) \in 1..Len(s) - c /\ c + (i - (c - 1)) = i + 1
      BY <1>1, <2>2
    <3>2. (a \o z)[i] = z[i - (c - 1)]
      BY <1>1, <1>2, <1>3, <1>4, <2>2
    <3>. QED
      BY <1>3, <2>2, <3>1, <3>2
  <2>. QED
    BY <2>1, <2>2
<1>. QED
  BY <1>4, <1>5, <1>6, <1>7

\* new is s without the element at c, the others in their order.
Without(S, s, c, new) ==
    /\ new \in Seq(S) /\ Len(new) = Len(s) - 1 /\ DOMAIN new = 1..Len(s) - 1
    /\ \A i \in DOMAIN new : \E j \in DOMAIN s \ {c} :
          /\ new[i] = s[j]
          /\ i < c => j = i
          /\ ~(i < c) => j = i + 1

LEMMA RemovedIs ==
  ASSUME NEW S, NEW s \in Seq(S), NEW c \in 1..Len(s)
  PROVE  Without(S, s, c, RemoveAt(s, c))
<1> DEFINE new == RemoveAt(s, c)
<1>1. Len(s) \in Nat /\ c \in Nat /\ DOMAIN s = 1..Len(s)
  BY LenProperties
<1>2. /\ new \in Seq(S) /\ Len(new) = Len(s) - 1
      /\ \A i \in 1..Len(s) - 1 : new[i] = s[IF i < c THEN i ELSE i + 1]
  BY RemoveAtIs
<1> HIDE DEF new
<1>3. DOMAIN new = 1..Len(s) - 1
  BY <1>2, LenProperties
<1>4. ASSUME NEW i \in DOMAIN new
      PROVE  \E j \in DOMAIN s \ {c} : /\ new[i] = s[j]
                                       /\ i < c => j = i
                                       /\ ~(i < c) => j = i + 1
  <2>1. CASE i < c
    BY <1>1, <1>2, <1>3, <2>1
  <2>2. CASE ~(i < c)
    BY <1>1, <1>2, <1>3, <2>2
  <2>. QED
    BY <2>1, <2>2
<1>. QED
  BY <1>2, <1>3, <1>4 DEF new, Without

LEMMA Constants ==
  /\ Hosts # {} /\ 0 \in Percents /\ Percents \subseteq Nat /\ Base \in Nat
  /\ MaxListed \in Nat /\ MaxEdits \in Nat /\ MaxRestarts \in Nat
  /\ Files \subseteq Seq(Texts) /\ \A f \in Files : Len(f) <= MaxListed
BY ConstantsOK DEF ConstantsOK

-----------------------------------------------------------------------------
(* Settings and their texts *)

LEMMA TextIs ==
  ASSUME NEW info \in Info
  PROVE  /\ Text(info) \in Texts
         /\ DOMAIN Text(info) = {"host", "auto", "started"}
                                  \cup (IF info.percent > 0 THEN {"percent"} ELSE {})
         /\ \A m \in DOMAIN Text(info) : Text(info)[m] = info[m]
<1>1. {p \in {"percent"} : info[p] > 0} = IF info.percent > 0 THEN {"percent"} ELSE {}
  OBVIOUS
<1>. QED
  BY <1>1 DEF Text, Texts

LEMMA AppliedType ==
  ASSUME NEW info \in Info, NEW text \in Texts
  PROVE  Applied(info, text) \in Info
<1>1. PICK new \in Info : text = Text(new)
  BY DEF Texts
<1>2. /\ DOMAIN text \subseteq {"host", "auto", "started", "percent"}
      /\ \A m \in DOMAIN text : text[m] = new[m]
  BY <1>1, TextIs
<1>3. info = [host |-> info.host, percent |-> info.percent, auto |-> info.auto,
              started |-> info.started]
  BY DEF Info
<1>4. DOMAIN info = {"host", "percent", "auto", "started"}
  BY <1>3
<1>5. \A m \in DOMAIN info : Applied(info, text)[m] \in {info[m], new[m]}
  BY <1>2 DEF Applied
<1>6. Applied(info, text) = [m \in {"host", "percent", "auto", "started"} |->
                               IF m \in DOMAIN text THEN text[m] ELSE info[m]]
  BY <1>4 DEF Applied
<1> DEFINE a == Applied(info, text)
<1>7. a = [host |-> a.host, percent |-> a.percent, auto |-> a.auto, started |-> a.started]
  BY <1>6
<1>8. /\ a.host \in Hosts /\ a.percent \in Percents
      /\ a.auto \in BOOLEAN /\ a.started \in BOOLEAN
  BY <1>4, <1>5 DEF Info
<1> HIDE DEF a
<1>9. a \in Info
  BY <1>7, <1>8 DEF Info
<1>. QED
  BY <1>9 DEF a

\* Settings that are read back into a new connection are those that were written.
LEMMA AppliedText ==
  ASSUME NEW old \in Info, old.percent = 0, NEW info \in Info
  PROVE  Applied(old, Text(info)) = info
<1>1. /\ DOMAIN Text(info) = {"host", "auto", "started"}
                               \cup (IF info.percent > 0 THEN {"percent"} ELSE {})
      /\ \A m \in DOMAIN Text(info) : Text(info)[m] = info[m]
  BY TextIs
<1>2. info.percent \in Nat
  BY Constants DEF Info
<1>3. ~(info.percent > 0) => info.percent = old.percent
  BY <1>2
<1>4. DOMAIN old = {"host", "percent", "auto", "started"} /\ DOMAIN info = DOMAIN old
  BY DEF Info
<1>5. \A m \in DOMAIN old : m \notin DOMAIN Text(info) => info[m] = old[m]
  BY <1>1, <1>3, <1>4
<1>6. Applied(old, Text(info)) = [m \in DOMAIN old |-> info[m]]
  BY <1>1, <1>5 DEF Applied
<1>7. info = [m \in DOMAIN info |-> info[m]]
  BY DEF Info
<1>. QED
  BY <1>4, <1>6, <1>7

LEMMA LastingIs ==
  ASSUME NEW x \in Info, NEW y \in Info,
         x.host = y.host, x.percent = y.percent, x.started = y.started
  PROVE  Lasting(Text(x)) = Lasting(Text(y))
<1>1. DOMAIN Text(x) = DOMAIN Text(y)
  BY TextIs
<1>2. \A m \in DOMAIN Text(x) \ {"auto"} : Text(x)[m] = Text(y)[m]
  <2>1. \A m \in DOMAIN Text(x) \ {"auto"} : m \in {"host", "started", "percent"}
    BY TextIs
  <2>. QED
    BY <1>1, <2>1, TextIs
<1>. QED
  BY <1>1, <1>2 DEF Lasting

-----------------------------------------------------------------------------
(* A connection *)

\* new is c with another miner or other settings.
SameKey(c, new) == new.index = c.index /\ new.edited = c.edited

LEMMA NewIs ==
  ASSUME NEW i \in Nat
  PROVE  /\ NewConnection(i) \in Connection /\ NewConnection(i).index = i
         /\ NewConnection(i).edited = FALSE /\ NewConnection(i).miner = "none"
         /\ NewConnection(i).info.percent = 0
<1> DEFINE host == CHOOSE h \in Hosts : TRUE
<1>1. host \in Hosts
  BY Constants
<1> HIDE DEF host
<1>2. [host |-> host, percent |-> 0, auto |-> FALSE, started |-> FALSE] \in Info
  BY <1>1, Constants DEF Info
<1>. QED
  BY <1>2 DEF NewConnection, Connection, Miners, host

LEMMA LoadIs ==
  ASSUME NEW c \in Connection, NEW text \in Texts
  PROVE  LET new == LoadSettings(c, text) IN
         /\ new \in Connection /\ new.index = c.index /\ new.miner = c.miner
         /\ MinerOK(c) => MinerOK(new)
         /\ c.miner = "none" => new.edited = FALSE /\ new.info = Applied(c.info, text)
         /\ c.miner # "none" => new = c
<1>1. /\ c.info \in Info
      /\ c = [index |-> c.index, edited |-> c.edited, miner |-> c.miner, info |-> c.info]
      /\ c.index \in Nat /\ c.miner \in Miners
  BY DEF Connection
<1>2. Applied(c.info, text) \in Info
  BY <1>1, AppliedType
<1>. QED
  BY <1>1, <1>2 DEF LoadSettings, Connection, MinerOK, IsMining

LEMMA EditIs ==
  ASSUME NEW c \in Connection
  PROVE  /\ AdviseEdit(c) \in Connection /\ AdviseEdit(c).edited = TRUE
         /\ AdviseEdit(c).index = c.index /\ AdviseEdit(c).miner = c.miner
         /\ AdviseEdit(c).info = c.info
         /\ MinerOK(c) => MinerOK(AdviseEdit(c))
BY DEF AdviseEdit, Connection, MinerOK

LEMMA SettingsType == ASSUME NEW c \in Connection PROVE Settings(c) \in Info
BY DEF Settings, Connection, Info

LEMMA StartedIs ==
  ASSUME NEW c \in Connection, MinerOK(c), NEW new \in Started(c)
  PROVE  /\ new \in Connection /\ MinerOK(new) /\ SameKey(c, new)
         /\ Settings(new) = Settings(c)
<1>1. CASE c.info.started
  <2>1. new = c
    BY <1>1 DEF Started
  <2>. QED
    BY <2>1 DEF SameKey
<1>2. CASE ~c.info.started
  <2>1. c.info \in Info /\ c.info.started = FALSE /\ c.miner # "mining"
    BY <1>2 DEF Connection, Info, MinerOK
  <2>2. CASE new = [c EXCEPT !.miner = "mining", !.info.started = TRUE]
    <3>1. [[c.info EXCEPT !.started = TRUE] EXCEPT !.started = FALSE] = c.info
      BY <2>1 DEF Info
    <3>2. /\ new.info = [c.info EXCEPT !.started = TRUE] /\ new.miner = "mining"
          /\ new.index = c.index /\ new.edited = c.edited
          /\ new.info \in Info /\ new \in Connection /\ new.info.started = TRUE
      BY <2>1, <2>2 DEF Connection, Info, Miners
    <3>. QED
      BY <2>1, <3>1, <3>2 DEF SameKey, Settings, MinerOK
  <2>3. CASE new = [c EXCEPT !.miner = "idle"]
    BY <2>1, <2>3 DEF SameKey, Settings, MinerOK, Connection, Miners
  <2>. QED
    BY <1>2, <2>2, <2>3 DEF Started
<1>. QED
  BY <1>1, <1>2

LEMMA StoppedIs ==
  ASSUME NEW c \in Connection, MinerOK(c)
  PROVE  /\ Stopped(c) \in Connection /\ MinerOK(Stopped(c)) /\ SameKey(c, Stopped(c))
         /\ Settings(Stopped(c)) = Settings(c) /\ Stopped(c).miner # "mining"
<1>1. CASE ~IsMining(c) \/ ~c.info.started
  <2>1. Stopped(c) = c
    BY <1>1 DEF Stopped
  <2>. QED
    BY <1>1, <2>1 DEF SameKey, MinerOK, IsMining
<1>2. CASE IsMining(c) /\ c.info.started
  <2>1. Stopped(c) = [c EXCEPT !.miner = "none", !.info.started = FALSE]
    BY <1>2 DEF Stopped
  <2>2. c.miner = "mining"
    BY <1>2 DEF MinerOK, IsMining
  <2>3. c.info \in Info /\ [c.info EXCEPT !.started = FALSE] \in Info
    BY DEF Connection, Info
  <2>4. /\ Stopped(c).info = [c.info EXCEPT !.started = FALSE] /\ Stopped(c).miner = "none"
        /\ Stopped(c).index = c.index /\ Stopped(c).edited = c.edited
    BY <2>1 DEF Connection
  <2>5. Stopped(c) \in Connection
    BY <2>1, <2>3, <2>4 DEF Connection, Miners
  <2>. QED
    BY <2>2, <2>4, <2>5 DEF SameKey, Settings, MinerOK
<1>. QED
  BY <1>1, <1>2

-----------------------------------------------------------------------------
(* saveConfig *)

\* What a list and the states of the objects are, when the section is saved.
ListOK(l, cs) ==
    /\ l \in Seq(Objects) /\ Len(l) <= MaxListed
    /\ cs \in [Objects -> Connection]
    /\ \A o \in Objects : MinerOK(cs[o])

\* Every connection of the list is in the section or about to be.
Covered(l, cs) == \A i \in DOMAIN l : i \in DOMAIN section \/ Saves(cs[l[i]])

LEMMA SectionsOK ==
  ASSUME NEW l, NEW cs, ListOK(l, cs), Covered(l, cs), Config(section)
  PROVE  LET s == Sections(l, cs) IN
         /\ Config(s) /\ DOMAIN s = DOMAIN l
         /\ \A i \in DOMAIN l :
                s[i] = IF Saves(cs[l[i]]) THEN Text(cs[l[i]].info) ELSE section[i]
<1> DEFINE saved == {i \in DOMAIN l : Saves(cs[l[i]])}
           s == Sections(l, cs)
<1>1. Len(l) \in Nat /\ DOMAIN l = 1..Len(l) /\ Len(l) \in 0..MaxListed
  BY LenProperties, Constants DEF ListOK
<1>2. DOMAIN l \cap (DOMAIN section \cup saved) = DOMAIN l
  BY DEF Covered
<1>3. s = [i \in DOMAIN l |-> IF i \in saved THEN Text(cs[l[i]].info) ELSE section[i]]
  BY <1>2 DEF Sections
<1>4. ASSUME NEW i \in DOMAIN l
      PROVE  (IF i \in saved THEN Text(cs[l[i]].info) ELSE section[i]) \in Texts
  <2>1. cs[l[i]].info \in Info
    BY <1>1 DEF ListOK, Connection
  <2>2. i \notin saved => i \in DOMAIN section
    BY DEF Covered
  <2>. QED
    BY <2>1, <2>2, TextIs DEF Config
<1> HIDE DEF s
<1>5. s \in [DOMAIN l -> Texts]
  BY <1>3, <1>4
<1>6. Config(s)
  BY <1>1, <1>5 DEF Config
<1>. QED
  BY <1>3, <1>5, <1>6 DEF s

\* saveConfig keeps keys, miners and settings.
Kept(cs) ==
    \A o \in Objects : /\ conn'[o].index = cs[o].index
                       /\ conn'[o].miner = cs[o].miner
                       /\ conn'[o].info = cs[o].info

LEMMA SaveConfigOK ==
  ASSUME NEW l, NEW cs, ListOK(l, cs), Covered(l, cs), Config(section), Config(file),
         NEW hasEdit, SaveConfig(l, cs, hasEdit)
  PROVE  /\ Config(section') /\ DOMAIN section' = DOMAIN l /\ Config(file')
         /\ listEdit' = FALSE
         /\ ListOK(l, conn') /\ Kept(cs)
<1>1. Config(section') /\ DOMAIN section' = DOMAIN l
  BY SectionsOK DEF SaveConfig
<1>2. file' = section' \/ file' = file
  BY DEF SaveConfig
<1>3. Config(file')
  BY <1>1, <1>2 DEF Config
<1>4. conn' = [o \in Objects |-> IF o \in ToSet(l) /\ Saves(cs[o])
                                 THEN [cs[o] EXCEPT !.edited = FALSE] ELSE cs[o]]
  BY DEF SaveConfig
<1>5. ASSUME NEW o \in Objects
      PROVE  /\ conn'[o] \in Connection /\ conn'[o].index = cs[o].index
             /\ conn'[o].miner = cs[o].miner /\ conn'[o].info = cs[o].info
             /\ MinerOK(conn'[o])
  <2>1. cs[o] \in Connection /\ MinerOK(cs[o])
    BY DEF ListOK
  <2>2. conn'[o] = [cs[o] EXCEPT !.edited = FALSE] \/ conn'[o] = cs[o]
    BY <1>4
  <2>. QED
    BY <2>1, <2>2 DEF Connection, MinerOK
<1>6. conn' \in [Objects -> Connection]
  BY <1>4, <1>5
<1>. QED
  BY <1>1, <1>3, <1>5, <1>6 DEF SaveConfig, ListOK, Kept

\* What was written before or is written now is what the connections have.
LEMMA SavedEntries ==
  ASSUME NEW l, NEW cs, ListOK(l, cs), Covered(l, cs), Config(section),
         NEW hasEdit, SaveConfig(l, cs, hasEdit), Entries(l, cs, section),
         hasEdit \/ (\E o \in ToSet(l) : Saves(cs[o]))
                 \/ (file = section /\ DOMAIN section = DOMAIN l)
  PROVE  file' = section' /\ Entries(l, conn', section')
<1>1. /\ section' = Sections(l, cs)
      /\ \A i \in DOMAIN l :
            section'[i] = IF Saves(cs[l[i]]) THEN Text(cs[l[i]].info) ELSE section[i]
  BY SectionsOK DEF SaveConfig
<1>2. /\ l \in Seq(Objects) /\ \A i \in DOMAIN l : l[i] \in Objects /\ l[i] \in ToSet(l)
      /\ \A o \in ToSet(l) : \E i \in DOMAIN l : l[i] = o
  BY DEF ListOK, ToSet
<1>3. file' = section'
  <2>1. CASE hasEdit \/ \E o \in ToSet(l) : Saves(cs[o])
    BY <2>1 DEF SaveConfig
  <2>2. CASE /\ ~(hasEdit \/ \E o \in ToSet(l) : Saves(cs[o]))
             /\ file = section /\ DOMAIN section = DOMAIN l
    <3>1. {i \in DOMAIN l : Saves(cs[l[i]])} = {}
      BY <1>2, <2>2
    <3>2. section' = [i \in DOMAIN section |-> section[i]]
      BY <1>1, <2>2, <3>1 DEF Sections
    <3>3. section' = section
      BY <3>2 DEF Config
    <3>. QED
      BY <2>2, <3>3 DEF SaveConfig
  <2>. QED
    BY <2>1, <2>2
<1>4. ASSUME NEW i \in DOMAIN l, ~conn'[l[i]].edited
      PROVE  Lasting(section'[i]) = Lasting(Text(Settings(conn'[l[i]])))
  <2>1. cs[l[i]] \in Connection
    BY <1>2 DEF ListOK
  <2>2. CASE Saves(cs[l[i]])
    <3>1. conn'[l[i]] = [cs[l[i]] EXCEPT !.edited = FALSE]
      BY <1>2, <2>2 DEF SaveConfig
    <3>2. Settings(conn'[l[i]]) = cs[l[i]].info
      BY <2>1, <2>2, <3>1 DEF Settings, Saves, IsMining, Connection
    <3>. QED
      BY <1>1, <2>2, <3>2
  <2>3. CASE ~Saves(cs[l[i]])
    <3>1. conn'[l[i]] = cs[l[i]]
      BY <1>2, <2>3 DEF SaveConfig
    <3>. QED
      BY <1>1, <1>4, <2>3, <3>1 DEF Entries
  <2>. QED
    BY <2>2, <2>3
<1>. QED
  BY <1>3, <1>4 DEF Entries

-----------------------------------------------------------------------------
(* loadConfig *)

LEMMA ObjectIs ==
  /\ \A i \in 1..MaxListed : Object(i - 1) \in Objects
  /\ \A i, j \in 1..MaxListed : Object(i - 1) = Object(j - 1) => i = j
<1> DEFINE n == Cardinality(Objects)
<1>1. n \in Nat /\ ExistsBijection(1..n, Objects) /\ MaxListed <= n /\ MaxListed \in Nat
  BY FS_CardinalityType, ConstantsOK DEF ConstantsOK
<1>2. \E f \in [1..n -> Objects] : IsInjective(f)
  BY <1>1 DEF ExistsBijection, Bijection, Injection
<1>3. Fresh \in [1..n -> Objects] /\ IsInjective(Fresh)
  <2>1. Fresh = CHOOSE f \in [1..n -> Objects] : IsInjective(f)
    BY DEF Fresh, SetToSeq
  <2> HIDE DEF n
  <2>. QED
    BY <1>2, <2>1
<1> HIDE DEF n
<1>4. ASSUME NEW i \in 1..MaxListed PROVE i \in 1..n /\ Object(i - 1) = Fresh[i]
  <2>1. i \in 1..n /\ (i - 1) + 1 = i
    BY <1>1
  <2>. QED
    BY <2>1 DEF Object
<1>. QED
  BY <1>3, <1>4 DEF IsInjective

LEMMA ReadableIs ==
  ASSUME NEW n \in 0..MaxListed, NEW f \in [1..n -> Texts]
  PROVE  /\ Readable(f) \in 0..n
         /\ MaxListed < Base => Readable(f) = n
<1>1. n \in Nat /\ n <= MaxListed /\ MaxListed \in Nat /\ Base \in Nat /\ 0 < Base
  BY ConstantsOK DEF ConstantsOK
<1>2. Cardinality(DOMAIN f) = n
  BY <1>1, FS_Interval
<1>3. Consecutive(f) = {m \in 0..n : m < Base /\ 1..m \subseteq 1..n}
  BY <1>2 DEF Consecutive
<1>4. Consecutive(f) \in SUBSET (0..n) /\ 0 \in Consecutive(f)
  <2>1. 1..0 = {} /\ 0 \in 0..n
    BY <1>1
  <2>. QED
    BY <1>1, <1>3, <2>1
<1>5. \E x \in Consecutive(f) : \A y \in Consecutive(f) : y <= x
  <2> HIDE DEF Consecutive
  <2>. QED
    BY <1>1, <1>4, NatMax
<1>6. /\ Readable(f) \in Consecutive(f)
      /\ \A y \in Consecutive(f) : Readable(f) >= y
  <2>1. Readable(f) = CHOOSE x \in Consecutive(f) : \A y \in Consecutive(f) : x >= y
    BY DEF Readable, Max
  <2>2. \E x \in Consecutive(f) : \A y \in Consecutive(f) : x >= y
    BY <1>1, <1>4, <1>5
  <2> HIDE DEF Consecutive
  <2>. QED
    BY <2>1, <2>2
<1>7. ASSUME MaxListed < Base PROVE Readable(f) = n
  <2>1. n \in Consecutive(f)
    BY <1>1, <1>3, <1>7
  <2>. QED
    BY <1>1, <1>4, <1>6, <2>1
<1>. QED
  BY <1>4, <1>6, <1>7

\* What a session starts with: the connections it reads, in the order of their ids.
LEMMA LoadedIs ==
  ASSUME NEW f, Config(f)
  PROVE  LET l == LoadedList(f)
             cs == LoadedConn(f)
             b == LoadedControls(f)
         IN  /\ ListOK(l, cs) /\ IsInjective(l)
             /\ DOMAIN l \subseteq DOMAIN f
             /\ \A i \in DOMAIN l : cs[l[i]].index = i - 1
             /\ b \in Seq(Button)
             /\ \A k \in DOMAIN b : cs[b[k].of].index = b[k].index
             /\ MaxListed < Base => DOMAIN l = DOMAIN f
             /\ MaxListed < Base => Entries(l, cs, f)
<1> DEFINE l == LoadedList(f)
           cs == LoadedConn(f)
           b == LoadedControls(f)
           r == Readable(f)
<1>1. PICK n \in 0..MaxListed : f \in [1..n -> Texts]
  BY DEF Config
<1>2. r \in 0..n /\ r \in Nat /\ r <= MaxListed /\ (MaxListed < Base => r = n)
  BY <1>1, ReadableIs, Constants
<1>l. l = [i \in 1..r |-> Object(i - 1)]
  BY DEF LoadedList
<1>b. b = [i \in 1..r |-> Control(Object(i - 1), i - 1, TRUE)]
  BY DEF LoadedControls
<1>c. cs = [o \in Objects |->
              LET at == {i \in 1..r : Object(i - 1) = o}
              IN  IF at = {} THEN NewConnection(0)
                  ELSE LET i == CHOOSE m \in at : TRUE
                       IN  LoadSettings(NewConnection(i - 1), f[i])]
  BY DEF LoadedConn
<1> HIDE DEF l, cs, b, r
<1>3. \A i \in 1..r : /\ i \in 1..n /\ i \in 1..MaxListed /\ i - 1 \in Nat
                      /\ Object(i - 1) \in Objects /\ f[i] \in Texts
  <2>1. \A i \in 1..r : i \in 1..n /\ i \in 1..MaxListed /\ i - 1 \in Nat
    BY <1>2, Constants
  <2>. QED
    BY <1>1, <2>1, ObjectIs
<1>4. \A i, j \in 1..r : Object(i - 1) = Object(j - 1) => i = j
  BY <1>3, ObjectIs
<1>5. /\ l \in Seq(Objects) /\ Len(l) = r /\ DOMAIN l = 1..r /\ IsInjective(l)
      /\ \A i \in 1..r : l[i] = Object(i - 1)
  <2>1. l \in [1..r -> Objects]
    BY <1>3, <1>l
  <2>2. l \in Seq(Objects)
    BY <1>2, <2>1, SeqDef
  <2>3. DOMAIN l = 1..r /\ Len(l) = r
    BY <1>2, <2>1, <2>2, LenProperties
  <2>. QED
    BY <1>4, <1>l, <2>2, <2>3 DEF IsInjective
<1>6. ASSUME NEW i \in 1..r
      PROVE  /\ cs[Object(i - 1)] = LoadSettings(NewConnection(i - 1), f[i])
             /\ NewConnection(i - 1) \in Connection
             /\ cs[Object(i - 1)] \in Connection /\ MinerOK(cs[Object(i - 1)])
             /\ cs[Object(i - 1)].index = i - 1 /\ cs[Object(i - 1)].miner = "none"
             /\ cs[Object(i - 1)].info = Applied(NewConnection(i - 1).info, f[i])
  <2>1. {j \in 1..r : Object(j - 1) = Object(i - 1)} = {i}
    BY <1>4
  <2>2. (CHOOSE m \in {i} : TRUE) = i
    OBVIOUS
  <2>3. cs[Object(i - 1)] = LoadSettings(NewConnection(i - 1), f[i])
    BY <1>3, <1>c, <2>1, <2>2
  <2>4. i - 1 \in Nat /\ f[i] \in Texts
    BY <1>3
  <2>5. /\ NewConnection(i - 1) \in Connection /\ NewConnection(i - 1).index = i - 1
        /\ NewConnection(i - 1).miner = "none"
    BY <2>4, NewIs
  <2>6. MinerOK(NewConnection(i - 1))
    BY <2>5 DEF MinerOK
  <2>7. LET new == LoadSettings(NewConnection(i - 1), f[i]) IN
        /\ new \in Connection /\ new.index = i - 1 /\ new.miner = "none"
        /\ MinerOK(new)
        /\ new.info = Applied(NewConnection(i - 1).info, f[i])
    BY <2>4, <2>5, <2>6, LoadIs
  <2>. QED
    BY <2>3, <2>5, <2>7
<1>7. ASSUME NEW o \in Objects PROVE cs[o] \in Connection /\ MinerOK(cs[o])
  <2>1. CASE \E i \in 1..r : Object(i - 1) = o
    BY <1>6, <2>1
  <2>2. CASE ~\E i \in 1..r : Object(i - 1) = o
    <3>1. {i \in 1..r : Object(i - 1) = o} = {}
      BY <2>2
    <3>2. cs[o] = NewConnection(0)
      BY <1>c, <3>1
    <3>3. 0 \in Nat
      OBVIOUS
    <3>4. NewConnection(0) \in Connection /\ NewConnection(0).miner = "none"
      BY <3>3, NewIs
    <3>. QED
      BY <3>2, <3>4 DEF MinerOK
  <2>. QED
    BY <2>1, <2>2
<1>8. ListOK(l, cs)
  <2>1. cs \in [Objects -> Connection]
    BY <1>7, <1>c
  <2>. QED
    BY <1>2, <1>5, <1>7, <2>1 DEF ListOK
<1>9. /\ b \in Seq(Button) /\ DOMAIN b = 1..r
      /\ \A k \in 1..r : b[k].of = Object(k - 1) /\ b[k].index = k - 1
  <2>1. b \in [1..r -> Button]
    BY <1>3, <1>b DEF Control, Button
  <2>2. b \in Seq(Button)
    BY <1>2, <2>1, SeqDef
  <2>3. DOMAIN b = 1..r
    BY <2>1
  <2>4. \A k \in 1..r : b[k].of = Object(k - 1) /\ b[k].index = k - 1
    BY <1>b DEF Control
  <2>. QED
    BY <2>2, <2>3, <2>4
<1>10. ASSUME NEW i \in DOMAIN l
       PROVE  Lasting(f[i]) = Lasting(Text(Settings(cs[l[i]])))
  <2>1. i \in 1..r /\ l[i] = Object(i - 1)
    BY <1>5
  <2>2. f[i] \in Texts /\ i - 1 \in Nat
    BY <1>3, <2>1
  <2>3. PICK info \in Info : f[i] = Text(info)
    BY <2>2 DEF Texts
  <2>4. NewConnection(i - 1).info \in Info /\ NewConnection(i - 1).info.percent = 0
    BY <2>2, NewIs DEF Connection
  <2>5. cs[l[i]].info = info /\ cs[l[i]].miner = "none"
    BY <1>6, <2>1, <2>3, <2>4, AppliedText
  <2>. QED
    BY <2>3, <2>5 DEF Settings
<1>11. \A k \in DOMAIN b : cs[b[k].of].index = b[k].index
  BY <1>6, <1>9
<1>12. \A i \in DOMAIN l : cs[l[i]].index = i - 1
  BY <1>5, <1>6
<1>13. DOMAIN l \subseteq DOMAIN f /\ (MaxListed < Base => DOMAIN l = DOMAIN f)
  BY <1>1, <1>2, <1>3, <1>5
<1>. QED
  BY <1>5, <1>8, <1>9, <1>10, <1>11, <1>12, <1>13 DEF Entries, l, cs, b

LEMMA ButtonIs ==
  ASSUME NEW b \in Seq(Button), NEW k \in DOMAIN b
  PROVE  b[k].of \in Objects /\ b[k].index \in Nat /\ b[k].named \in BOOLEAN
<1>1. b[k] \in Button
  OBVIOUS
<1>. QED
  BY <1>1 DEF Button

\* A session starts.
LEMMA LoadConfigOK ==
  ASSUME NEW f, Config(f), LoadConfig(f), edits' \in 0..MaxEdits, restarts' \in 0..MaxRestarts
  PROVE  IInv' /\ (MaxListed < Base => FileInv')
<1>1. /\ list' = LoadedList(f) /\ conn' = LoadedConn(f) /\ listEdit' = FALSE
      /\ section' = f /\ file' = f /\ controls' = LoadedControls(f) /\ wizard' = Closed
  BY DEF LoadConfig
<1>2. /\ ListOK(list', conn') /\ IsInjective(list') /\ DOMAIN list' \subseteq DOMAIN f
      /\ \A i \in DOMAIN list' : conn'[list'[i]].index = i - 1
      /\ controls' \in Seq(Button)
      /\ \A k \in DOMAIN controls' : conn'[controls'[k].of].index = controls'[k].index
      /\ MaxListed < Base => DOMAIN list' = DOMAIN f
      /\ MaxListed < Base => Entries(list', conn', f)
  BY <1>1, LoadedIs
<1>3. TypeOK'
  BY <1>1, <1>2 DEF TypeOK, ListOK, Config, Button
<1>4. IndexOfList'
  BY <1>2 DEF IndexOfList
<1>5. ButtonsNotBelow'
  <2>1. ASSUME NEW k \in DOMAIN controls', controls'[k].of \in ToSet(list')
        PROVE  conn'[controls'[k].of].index <= controls'[k].index
    <3>1. controls'[k].index \in Nat
      BY <1>2, ButtonIs
    <3>. QED
      BY <1>2, <3>1
  <2>. QED
    BY <2>1 DEF ButtonsNotBelow, Listed
<1>6. IInv'
  BY <1>1, <1>2, <1>3, <1>4, <1>5 DEF IInv, ListOK, Closed
<1>7. MaxListed < Base => FileInv'
  BY <1>1, <1>2 DEF FileInv, Entries
<1>. QED
  BY <1>6, <1>7

LEMMA InitOK == Init => IInv /\ (MaxListed < Base => FileInv)
<1> SUFFICES ASSUME Init PROVE IInv /\ (MaxListed < Base => FileInv)
  OBVIOUS
<1>1. /\ list = LoadedList(file) /\ conn = LoadedConn(file) /\ listEdit = FALSE
      /\ section = file /\ controls = LoadedControls(file) /\ wizard = Closed
      /\ edits = 0 /\ restarts = 0 /\ file \in Files
  BY SMTT(30) DEF Init
<1>2. Config(file)
  <2>1. file \in Seq(Texts) /\ Len(file) <= MaxListed
    BY <1>1, Constants
  <2>2. Len(file) \in 0..MaxListed /\ file \in [1..Len(file) -> Texts]
    BY <2>1, LenProperties, Constants
  <2>. QED
    BY <2>2 DEF Config
<1>3. /\ ListOK(list, conn) /\ IsInjective(list) /\ DOMAIN list \subseteq DOMAIN file
      /\ \A i \in DOMAIN list : conn[list[i]].index = i - 1
      /\ controls \in Seq(Button)
      /\ \A k \in DOMAIN controls : conn[controls[k].of].index = controls[k].index
      /\ MaxListed < Base => DOMAIN list = DOMAIN file
      /\ MaxListed < Base => Entries(list, conn, file)
  BY <1>1, <1>2, LoadedIs
<1>4. TypeOK
  <2>1. 0 \in 0..MaxEdits /\ 0 \in 0..MaxRestarts
    BY Constants
  <2>. QED
    BY <1>1, <1>2, <1>3, <2>1 DEF TypeOK, ListOK, Button
<1>5. IndexOfList
  BY <1>3 DEF IndexOfList
<1>6. ButtonsNotBelow
  <2>1. ASSUME NEW k \in DOMAIN controls, controls[k].of \in ToSet(list)
        PROVE  conn[controls[k].of].index <= controls[k].index
    <3>1. controls[k].index \in Nat
      BY <1>3, ButtonIs
    <3>. QED
      BY <1>3, <3>1
  <2>. QED
    BY <2>1 DEF ButtonsNotBelow, Listed
<1>7. IInv
  BY <1>1, <1>3, <1>4, <1>5, <1>6 DEF IInv, ListOK, Closed
<1>8. MaxListed < Base => FileInv
  BY <1>1, <1>3 DEF FileInv
<1>. QED
  BY <1>7, <1>8

-----------------------------------------------------------------------------
(* The steps *)

\* The ids of a list that is shorter than the base are read back, all of them.
Inv == IInv /\ (MaxListed < Base => FileInv)

LEMMA Typed ==
  ASSUME IInv
  PROVE  /\ ListOK(list, conn) /\ Covered(list, conn) /\ Config(section) /\ Config(file)
         /\ list \in Seq(Objects) /\ Len(list) \in Nat /\ DOMAIN list = 1..Len(list)
         /\ IsInjective(list) /\ Len(list) <= MaxListed
         /\ \A i \in DOMAIN list : list[i] \in Objects /\ list[i] \in Listed
         /\ \A o \in Listed : \E i \in DOMAIN list : list[i] = o
         /\ \A o \in Objects : /\ conn[o] \in Connection /\ MinerOK(conn[o])
                               /\ conn[o].index \in Nat
         /\ controls \in Seq(Button)
<1>1. /\ list \in Seq(Objects) /\ Len(list) <= MaxListed /\ IsInjective(list)
      /\ conn \in [Objects -> Connection] /\ \A o \in Objects : MinerOK(conn[o])
      /\ Config(section) /\ Config(file) /\ DOMAIN list \subseteq DOMAIN section
      /\ controls \in Seq(Button)
  BY DEF IInv, TypeOK, Button
<1>2. /\ Len(list) \in Nat /\ DOMAIN list = 1..Len(list)
      /\ \A i \in DOMAIN list : list[i] \in Objects
  BY <1>1, LenProperties
<1>3. /\ \A i \in DOMAIN list : list[i] \in Listed
      /\ \A o \in Listed : \E i \in DOMAIN list : list[i] = o
  BY DEF Listed, ToSet
<1>4. \A c \in Connection : c.index \in Nat
  BY DEF Connection
<1>. QED
  BY <1>1, <1>2, <1>3, <1>4 DEF ListOK, Covered

\* A step that changes miners and settings of connections, and nothing on the list.
LEMMA ConnectionStep ==
  ASSUME Inv, OnList, conn' \in [Objects -> Connection],
         \A o \in Objects :
            /\ MinerOK(conn'[o]) /\ SameKey(conn[o], conn'[o])
            /\ Lasting(Text(Settings(conn'[o]))) = Lasting(Text(Settings(conn[o])))
  PROVE  Inv'
<1>1. UNCHANGED <<list, listEdit, section, file, controls, wizard, edits, restarts>>
  BY DEF OnList
<1>2. TypeOK'
  BY <1>1 DEF Inv, IInv, TypeOK, Config
<1>3. IndexOfList'
  BY <1>1, Typed DEF Inv, IInv, IndexOfList, SameKey
<1>4. ButtonsNotBelow'
  <2>1. ASSUME NEW k \in DOMAIN controls, controls[k].of \in Listed
        PROVE  conn'[controls[k].of].index <= controls[k].index
    <3>1. controls[k].of \in Objects
      BY Typed, ButtonIs DEF Inv
    <3>. QED
      BY <2>1, <3>1 DEF Inv, IInv, ButtonsNotBelow, SameKey
  <2>. QED
    BY <1>1, <2>1 DEF ButtonsNotBelow, Listed
<1>5. IInv'
  BY <1>1, <1>2, <1>3, <1>4 DEF Inv, IInv
<1>6. ASSUME FileInv PROVE FileInv'
  BY <1>1, <1>6, Typed DEF Inv, FileInv, Entries, SameKey
<1>. QED
  BY <1>5, <1>6 DEF Inv

LEMMA StartKeeps ==
  ASSUME Inv, NEW k \in DOMAIN controls, StartMining(k)
  PROVE  Inv'
<1> DEFINE o == controls[k].of
<1>1. o \in Objects
  BY Typed, ButtonIs DEF Inv
<1>2. PICK c \in Started(conn[o]) : conn' = [conn EXCEPT ![o] = c]
  BY DEF StartMining
<1>3. OnList
  BY DEF StartMining
<1> HIDE DEF o
<1>4. /\ c \in Connection /\ MinerOK(c) /\ SameKey(conn[o], c)
      /\ Settings(c) = Settings(conn[o])
  BY <1>1, Typed, StartedIs DEF Inv
<1>5. conn \in [Objects -> Connection] /\ \A p \in Objects : MinerOK(conn[p])
  BY DEF Inv, IInv, TypeOK
<1>6. conn' \in [Objects -> Connection]
  BY <1>2, <1>4, <1>5
<1>7. \A p \in Objects : conn'[p] = IF p = o THEN c ELSE conn[p]
  BY <1>1, <1>2, <1>5
<1>8. \A p \in Objects : /\ MinerOK(conn'[p]) /\ SameKey(conn[p], conn'[p])
                         /\ Lasting(Text(Settings(conn'[p]))) = Lasting(Text(Settings(conn[p])))
  BY <1>4, <1>5, <1>7 DEF SameKey
<1>. QED
  BY <1>3, <1>6, <1>8, ConnectionStep

LEMMA StopKeeps ==
  ASSUME Inv, NEW k \in DOMAIN controls, StopMining(k)
  PROVE  Inv'
<1> DEFINE o == controls[k].of
           c == Stopped(conn[o])
<1>1. o \in Objects
  BY Typed, ButtonIs DEF Inv
<1>2. conn' = [conn EXCEPT ![o] = c] /\ OnList
  BY DEF StopMining
<1>4. /\ c \in Connection /\ MinerOK(c) /\ SameKey(conn[o], c)
      /\ Settings(c) = Settings(conn[o])
  <2> HIDE DEF o
  <2>. QED
    BY <1>1, Typed, StoppedIs DEF Inv
<1> HIDE DEF o, c
<1>5. conn \in [Objects -> Connection] /\ \A p \in Objects : MinerOK(conn[p])
  BY DEF Inv, IInv, TypeOK
<1>6. conn' \in [Objects -> Connection]
  BY <1>2, <1>4, <1>5
<1>7. \A p \in Objects : conn'[p] = IF p = o THEN c ELSE conn[p]
  BY <1>1, <1>2, <1>5
<1>8. \A p \in Objects : /\ MinerOK(conn'[p]) /\ SameKey(conn[p], conn'[p])
                         /\ Lasting(Text(Settings(conn'[p]))) = Lasting(Text(Settings(conn[p])))
  BY <1>4, <1>5, <1>7 DEF SameKey
<1>. QED
  BY <1>2, <1>6, <1>8, ConnectionStep

LEMMA ToggleKeeps ==
  ASSUME Inv, NEW k \in DOMAIN controls, ToggleAuto(k)
  PROVE  Inv'
<1> DEFINE o == controls[k].of
           c == [conn[o] EXCEPT !.info.auto = ~@]
<1>1. o \in Objects
  BY Typed, ButtonIs DEF Inv
<1>2. conn' = [conn EXCEPT ![o] = c] /\ OnList
  BY DEF ToggleAuto
<1> HIDE DEF o
<1>3. conn[o] \in Connection /\ MinerOK(conn[o])
  BY <1>1, Typed DEF Inv
<1>4. /\ conn[o].info \in Info /\ c.info = [conn[o].info EXCEPT !.auto = ~@]
      /\ c.index = conn[o].index /\ c.edited = conn[o].edited /\ c.miner = conn[o].miner
      /\ c = [conn[o] EXCEPT !.info = c.info]
  BY <1>3 DEF Connection
<1> HIDE DEF c
<1>5. /\ c.info \in Info /\ c.info.host = conn[o].info.host
      /\ c.info.percent = conn[o].info.percent /\ c.info.started = conn[o].info.started
  BY <1>4 DEF Info
<1>6. c \in Connection /\ MinerOK(c) /\ SameKey(conn[o], c)
  BY <1>3, <1>4, <1>5 DEF Connection, MinerOK, SameKey
<1>7. Lasting(Text(Settings(c))) = Lasting(Text(Settings(conn[o])))
  <2>1. Settings(c) \in Info /\ Settings(conn[o]) \in Info
    BY <1>3, <1>6, SettingsType
  <2>2. /\ Settings(c).host = Settings(conn[o]).host
        /\ Settings(c).percent = Settings(conn[o]).percent
        /\ Settings(c).started = Settings(conn[o]).started
    BY <1>4, <1>5 DEF Settings, Info
  <2>. QED
    BY <2>1, <2>2, LastingIs
<1>8. conn \in [Objects -> Connection] /\ \A p \in Objects : MinerOK(conn[p])
  BY DEF Inv, IInv, TypeOK
<1>9. conn' \in [Objects -> Connection]
  BY <1>2, <1>6, <1>8
<1>10. \A p \in Objects : conn'[p] = IF p = o THEN c ELSE conn[p]
  BY <1>1, <1>2, <1>8
<1>11. \A p \in Objects : /\ MinerOK(conn'[p]) /\ SameKey(conn[p], conn'[p])
                         /\ Lasting(Text(Settings(conn'[p]))) = Lasting(Text(Settings(conn[p])))
  BY <1>6, <1>7, <1>8, <1>10 DEF SameKey
<1>. QED
  BY <1>2, <1>9, <1>11, ConnectionStep

\* All miners of the list are stopped, and then one is started.
LEMMA UpdateIs ==
  ASSUME IInv, UpdateConnections
  PROVE  \E best \in DOMAIN list :
            /\ conn' \in [Objects -> Connection]
            /\ \A o \in Objects :
                /\ MinerOK(conn'[o]) /\ SameKey(conn[o], conn'[o])
                /\ Settings(conn'[o]) = Settings(conn[o])
                /\ o \in Listed /\ o # list[best] => conn'[o].miner # "mining"
<1>1. PICK best \in Autos \ {Max(Current)} :
        \E c \in Started(StoppedAll[list[best]]) :
            conn' = [StoppedAll EXCEPT ![list[best]] = c]
  BY DEF UpdateConnections
<1>2. PICK c \in Started(StoppedAll[list[best]]) : conn' = [StoppedAll EXCEPT ![list[best]] = c]
  BY <1>1
<1>3. best \in DOMAIN list /\ list[best] \in Objects
  BY <1>1, Typed DEF Autos
<1>4. ASSUME NEW o \in Objects
      PROVE  /\ StoppedAll[o] \in Connection /\ MinerOK(StoppedAll[o])
             /\ SameKey(conn[o], StoppedAll[o])
             /\ Settings(StoppedAll[o]) = Settings(conn[o])
             /\ o \in Listed => StoppedAll[o].miner # "mining"
  <2>1. conn[o] \in Connection /\ MinerOK(conn[o])
    BY Typed
  <2>2. CASE o \in Listed
    <3>1. StoppedAll[o] = Stopped(conn[o])
      BY <2>2 DEF StoppedAll
    <3>. QED
      BY <2>1, <3>1, StoppedIs
  <2>3. CASE o \notin Listed
    <3>1. StoppedAll[o] = conn[o]
      BY <2>3 DEF StoppedAll
    <3>. QED
      BY <2>1, <2>3, <3>1 DEF SameKey
  <2>. QED
    BY <2>2, <2>3
<1>5. StoppedAll = [o \in Objects |-> StoppedAll[o]]
  BY DEF StoppedAll
<1>6. /\ c \in Connection /\ MinerOK(c) /\ SameKey(StoppedAll[list[best]], c)
      /\ Settings(c) = Settings(StoppedAll[list[best]])
  BY <1>3, <1>4, StartedIs
<1>7. \A o \in Objects : conn'[o] = IF o = list[best] THEN c ELSE StoppedAll[o]
  BY <1>2, <1>3, <1>5
<1>8. conn' \in [Objects -> Connection]
  BY <1>2, <1>4, <1>5, <1>6
<1>9. \A o \in Objects :
        /\ MinerOK(conn'[o]) /\ SameKey(conn[o], conn'[o])
        /\ Settings(conn'[o]) = Settings(conn[o])
        /\ o \in Listed /\ o # list[best] => conn'[o].miner # "mining"
  BY <1>3, <1>4, <1>6, <1>7 DEF SameKey
<1>. QED
  BY <1>3, <1>8, <1>9

LEMMA UpdateKeeps == ASSUME Inv, UpdateConnections PROVE Inv'
<1>1. OnList
  BY DEF UpdateConnections
<1>2. /\ conn' \in [Objects -> Connection]
      /\ \A o \in Objects : /\ MinerOK(conn'[o]) /\ SameKey(conn[o], conn'[o])
                            /\ Settings(conn'[o]) = Settings(conn[o])
  BY UpdateIs DEF Inv
<1>. QED
  BY <1>1, <1>2, ConnectionStep

\* A step that saves the list l, of objects in the states cs, and leaves these controls.
LEMMA SaveStep ==
  ASSUME Inv, NEW l, NEW cs, NEW hasEdit,
         ListOK(l, cs), IsInjective(l), Covered(l, cs),
         list' = l, SaveConfig(l, cs, hasEdit),
         \A i \in DOMAIN l : cs[l[i]].index = i - 1,
         controls' \in Seq(Button),
         \A k \in DOMAIN controls' :
            controls'[k].of \in ToSet(l) => cs[controls'[k].of].index <= controls'[k].index,
         WizardOK(wizard'), wizard'.open => wizard'.index < Len(l) /\ edits' < MaxEdits,
         edits' \in 0..MaxEdits, restarts' \in 0..MaxRestarts,
         MaxListed < Base =>
            /\ Entries(l, cs, section)
            /\ \/ hasEdit
               \/ \E o \in ToSet(l) : Saves(cs[o])
               \/ DOMAIN section = DOMAIN l
  PROVE  Inv'
<1>1. Config(section) /\ Config(file)
  BY Typed DEF Inv
<1>2. /\ Config(section') /\ DOMAIN section' = DOMAIN l /\ Config(file')
      /\ listEdit' = FALSE /\ ListOK(l, conn') /\ Kept(cs)
  BY <1>1, SaveConfigOK
<1>3. \A i \in DOMAIN l : l[i] \in Objects
  BY DEF ListOK
<1>4. TypeOK'
  BY <1>2 DEF TypeOK, ListOK, WizardOK, Button, Config
<1>5. IndexOfList'
  BY <1>2, <1>3 DEF IndexOfList, Kept
<1>6. ButtonsNotBelow'
  <2>1. ASSUME NEW k \in DOMAIN controls', controls'[k].of \in ToSet(l)
        PROVE  conn'[controls'[k].of].index <= controls'[k].index
    <3>1. controls'[k].of \in Objects
      BY ButtonIs
    <3>. QED
      BY <1>2, <2>1, <3>1 DEF Kept
  <2>. QED
    BY <2>1 DEF ButtonsNotBelow, Listed
<1>7. IInv'
  BY <1>2, <1>4, <1>5, <1>6 DEF IInv, ListOK
<1>8. ASSUME MaxListed < Base PROVE FileInv'
  <2>1. file = section
    BY <1>8 DEF Inv, FileInv
  <2>2. file' = section' /\ Entries(l, conn', section')
    BY <1>1, <1>8, <2>1, SavedEntries
  <2>. QED
    BY <1>2, <2>2 DEF FileInv, Entries
<1>. QED
  BY <1>7, <1>8 DEF Inv

LEMMA AddKeeps == ASSUME Inv, AddConnection PROVE Inv'
<1> DEFINE n == Len(list)
<1>1. /\ edits < MaxEdits /\ n < MaxListed
      /\ edits' = edits + 1 /\ restarts' = restarts /\ wizard' = wizard /\ ~wizard.open
  BY DEF AddConnection, CanEdit, Count
<1>2. PICK o \in Objects, info \in Chosen(FALSE) :
        LET c == AdviseEdit(LoadSettings(NewConnection(n), Text(info)))
        IN  /\ Free(o)
            /\ list' = Append(list, o)
            /\ SaveConfig(list', [conn EXCEPT ![o] = c], listEdit)
            /\ controls' = Append(controls, Control(o, n, FALSE))
  BY DEF AddConnection
<1> DEFINE c == AdviseEdit(LoadSettings(NewConnection(n), Text(info)))
           cs == [conn EXCEPT ![o] = c]
           l == Append(list, o)
<1>3. /\ Free(o) /\ list' = l /\ SaveConfig(l, cs, listEdit)
      /\ controls' = Append(controls, Control(o, n, FALSE))
  BY <1>2
<1>4. /\ list \in Seq(Objects) /\ n \in Nat /\ DOMAIN list = 1..n /\ IsInjective(list)
      /\ DOMAIN list \subseteq DOMAIN section /\ \A i \in 1..n : list[i] \in Objects
      /\ controls \in Seq(Button)
      /\ conn \in [Objects -> Connection] /\ \A p \in Objects : MinerOK(conn[p])
  BY Typed DEF Inv, IInv, TypeOK
<1>5. c \in Connection /\ c.index = n /\ c.edited = TRUE /\ c.miner = "none" /\ MinerOK(c)
  <2>1. Text(info) \in Texts
    <3>1. info \in Info
      BY DEF Chosen, Info
    <3>. QED
      BY <3>1, TextIs
  <2> DEFINE d == LoadSettings(NewConnection(n), Text(info))
  <2>2. /\ NewConnection(n) \in Connection /\ NewConnection(n).index = n
        /\ NewConnection(n).miner = "none"
    BY <1>4, NewIs
  <2>3. d \in Connection /\ d.index = n /\ d.miner = "none" /\ MinerOK(d)
    BY <2>1, <2>2, LoadIs DEF MinerOK
  <2> HIDE DEF d
  <2>4. /\ AdviseEdit(d) \in Connection /\ AdviseEdit(d).index = n
        /\ AdviseEdit(d).edited = TRUE /\ AdviseEdit(d).miner = "none"
        /\ MinerOK(AdviseEdit(d))
    BY <2>3, EditIs
  <2>. QED
    BY <2>4 DEF d
<1> HIDE DEF c
<1>6. /\ cs \in [Objects -> Connection]
      /\ \A p \in Objects : cs[p] = IF p = o THEN c ELSE conn[p]
  BY <1>4, <1>5
<1>7. /\ l \in Seq(Objects) /\ Len(l) = n + 1 /\ l[n + 1] = o
      /\ \A i \in 1..n : l[i] = list[i]
      /\ DOMAIN l = 1..n + 1
  BY <1>4, AppendIs
<1>8. \A i \in 1..n + 1 : i \in 1..n \/ i = n + 1
  BY <1>4
<1>9. \A i \in 1..n : list[i] # o
  BY <1>3, <1>4, Typed DEF Free, Inv
<1> HIDE DEF cs, l, n
<1>10. IsInjective(l)
  BY <1>4, <1>7, <1>8, <1>9 DEF IsInjective
<1>11. ListOK(l, cs)
  <2>1. n + 1 <= MaxListed
    BY <1>1, <1>4, Constants
  <2>. QED
    BY <1>4, <1>5, <1>6, <1>7, <2>1 DEF ListOK
<1>12. /\ cs[o] = c /\ Saves(c)
       /\ \A i \in 1..n : cs[l[i]] = conn[list[i]]
  BY <1>4, <1>5, <1>6, <1>7, <1>9 DEF Saves, IsMining
<1>13. Covered(l, cs)
  BY <1>4, <1>7, <1>8, <1>12 DEF Covered
<1>14. \A i \in DOMAIN l : cs[l[i]].index = i - 1
  <2>1. \A i \in 1..n : conn[list[i]].index = i - 1
    BY <1>4 DEF Inv, IInv, IndexOfList
  <2>2. cs[l[n + 1]].index = (n + 1) - 1
    BY <1>4, <1>5, <1>7, <1>12
  <2>. QED
    BY <1>7, <1>8, <1>12, <2>1, <2>2
<1>15. /\ controls' \in Seq(Button)
       /\ \A k \in DOMAIN controls' :
            controls'[k].of \in ToSet(l) => cs[controls'[k].of].index <= controls'[k].index
  <2> DEFINE b == Control(o, n, FALSE)
             N == Len(controls)
  <2>1. b \in Button /\ b.of = o /\ b.index = n
    BY <1>4 DEF Control, Button
  <2> HIDE DEF b
  <2>2. controls' = Append(controls, b)
    BY <1>3 DEF b
  <2>3. /\ controls' \in Seq(Button) /\ controls'[N + 1] = b /\ N \in Nat
        /\ \A k \in 1..N : controls'[k] = controls[k]
        /\ DOMAIN controls = 1..N /\ DOMAIN controls' = 1..N + 1
    BY <1>4, <2>1, <2>2, AppendIs
  <2> HIDE DEF N
  <2>4. ASSUME NEW k \in 1..N, controls'[k].of \in ToSet(l)
        PROVE  cs[controls'[k].of].index <= controls'[k].index
    <3>1. controls[k].of # o /\ controls[k].of \in Objects
      BY <1>3, <1>4, <2>3, ButtonIs DEF Free
    <3>2. controls[k].of \in Listed
      <4>1. PICK i \in DOMAIN l : l[i] = controls[k].of
        BY <2>3, <2>4 DEF ToSet
      <4>2. i \in 1..n
        BY <1>7, <1>8, <3>1, <4>1
      <4>. QED
        BY <1>4, <1>7, <4>1, <4>2 DEF Listed, ToSet
    <3>3. conn[controls[k].of].index <= controls[k].index
      BY <2>3, <3>2 DEF Inv, IInv, ButtonsNotBelow
    <3>. QED
      BY <1>6, <2>3, <3>1, <3>3
  <2>5. cs[controls'[N + 1].of].index <= controls'[N + 1].index
    BY <1>4, <1>5, <1>12, <2>1, <2>3
  <2>6. \A k \in DOMAIN controls' : k \in 1..N \/ k = N + 1
    BY <2>3
  <2>. QED
    BY <2>3, <2>4, <2>5, <2>6
<1>16. /\ WizardOK(wizard') /\ ~wizard'.open
       /\ edits' \in 0..MaxEdits /\ restarts' \in 0..MaxRestarts
  <2>1. edits \in 0..MaxEdits /\ restarts \in 0..MaxRestarts /\ WizardOK(wizard)
    BY DEF Inv, IInv, TypeOK, WizardOK
  <2>. QED
    BY <1>1, <2>1, Constants
<1>17. MaxListed < Base => Entries(l, cs, section)
  <2>1. ASSUME MaxListed < Base, NEW i \in DOMAIN l, ~cs[l[i]].edited
        PROVE  Lasting(section[i]) = Lasting(Text(Settings(cs[l[i]])))
    <3>1. i \in 1..n
      BY <1>5, <1>7, <1>8, <1>12, <2>1
    <3>. QED
      BY <1>4, <1>12, <2>1, <3>1 DEF Inv, FileInv, Entries
  <2>. QED
    BY <2>1 DEF Entries
<1>18. \E p \in ToSet(l) : Saves(cs[p])
  <2>1. n + 1 \in DOMAIN l
    BY <1>4, <1>7
  <2>. QED
    BY <1>7, <1>12, <2>1 DEF ToSet
<1>. QED
  BY <1>3, <1>10, <1>11, <1>13, <1>14, <1>15, <1>16, <1>17, <1>18, SaveStep

\* What a wizard that is open was opened on: a connection that is still in the list.
LEMMA OpenKeeps ==
  ASSUME Inv, NEW k \in DOMAIN controls, OpenWizard(k)
  PROVE  Inv'
<1> DEFINE i == controls[k].index
<1>1. /\ i < Len(list)
      /\ wizard' = [open |-> TRUE, index |-> i, info |-> conn[list[i + 1]].info]
      /\ UNCHANGED <<list, conn, listEdit, section, file, controls, edits, restarts>>
      /\ edits < MaxEdits
  BY DEF OpenWizard, CanEdit
<1>2. i \in Nat
  BY Typed, ButtonIs DEF Inv
<1> HIDE DEF i
<1>3. Len(list) \in Nat /\ Len(list) <= MaxListed /\ DOMAIN list = 1..Len(list)
  BY Typed DEF Inv
<1>4. i + 1 \in DOMAIN list /\ i \in 0..MaxListed - 1
  BY <1>1, <1>2, <1>3, Constants
<1>5. conn[list[i + 1]].info \in Info
  BY <1>4, Typed DEF Inv, Connection
<1>6. WizardOK(wizard')
  BY <1>1, <1>4, <1>5 DEF WizardOK
<1>. QED
  BY <1>1, <1>6 DEF Inv, IInv, TypeOK, IndexOfList, ButtonsNotBelow, FileInv, Entries,
     Listed, Config, WizardOK

LEMMA CancelKeeps == ASSUME Inv, CancelWizard PROVE Inv'
<1>1. /\ wizard' = Closed
      /\ UNCHANGED <<list, conn, listEdit, section, file, controls, edits, restarts>>
  BY DEF CancelWizard
<1>2. WizardOK(wizard') /\ ~wizard'.open
  BY <1>1 DEF WizardOK, Closed
<1>. QED
  BY <1>1, <1>2 DEF Inv, IInv, TypeOK, IndexOfList, ButtonsNotBelow, FileInv, Entries,
     Listed, Config, WizardOK

LEMMA EditKeeps == ASSUME Inv, EditConnection PROVE Inv'
<1> DEFINE i == wizard.index + 1
           o == list[i]
<1>1. /\ wizard.open /\ wizard' = Closed /\ list' = list /\ controls' = controls
      /\ edits' = edits + 1 /\ restarts' = restarts
  BY DEF EditConnection, Count
<1>2. PICK info \in Chosen(wizard.info.started) :
        SaveConfig(list, [conn EXCEPT ![o] = AdviseEdit(LoadSettings(@, Text(info)))], listEdit)
  BY DEF EditConnection
<1> DEFINE d == LoadSettings(conn[o], Text(info))
           c == AdviseEdit(d)
           cs == [conn EXCEPT ![o] = c]
<1>3. SaveConfig(list, cs, listEdit)
  BY <1>2
<1>4. /\ list \in Seq(Objects) /\ Len(list) \in Nat /\ DOMAIN list = 1..Len(list)
      /\ Len(list) <= MaxListed /\ IsInjective(list)
      /\ DOMAIN list \subseteq DOMAIN section /\ controls \in Seq(Button)
      /\ conn \in [Objects -> Connection] /\ \A p \in Objects : MinerOK(conn[p])
  BY Typed DEF Inv, IInv, TypeOK
<1>5. i \in DOMAIN list /\ o \in Objects /\ wizard.info \in Info
  <2>1. /\ wizard.index \in 0..MaxListed - 1 /\ wizard.index < Len(list)
        /\ wizard.info \in Info
    <3>1. WizardOK(wizard) /\ wizard.index < Len(list)
      BY <1>1 DEF Inv, IInv, TypeOK, WizardOK
    <3>2. ~Closed.open
      BY DEF Closed
    <3>3. wizard # Closed
      BY <1>1, <3>2, Zenon
    <3>4. wizard \in [open: {TRUE}, index: 0..MaxListed - 1, info: Info]
      BY <3>1, <3>3 DEF WizardOK
    <3>. QED
      BY <3>1, <3>4
  <2>2. i \in DOMAIN list
    BY <1>4, <2>1, Constants
  <2>. QED
    BY <1>4, <2>1, <2>2
<1> HIDE DEF i
<1>6. Text(info) \in Texts
  <2>1. info \in Info
    BY <1>5 DEF Chosen, Info
  <2>. QED
    BY <2>1, TextIs
<1>7. c \in Connection /\ MinerOK(c) /\ c.edited = TRUE /\ c.index = conn[o].index
  <2>1. conn[o] \in Connection /\ MinerOK(conn[o])
    BY <1>4, <1>5
  <2> HIDE DEF o
  <2>2. d \in Connection /\ d.index = conn[o].index /\ MinerOK(d)
    BY <1>6, <2>1, LoadIs
  <2> HIDE DEF d
  <2>. QED
    BY <2>2, EditIs
<1> HIDE DEF c, o
<1>8. /\ cs \in [Objects -> Connection]
      /\ \A p \in Objects : cs[p] = IF p = o THEN c ELSE conn[p]
  BY <1>4, <1>5, <1>7
<1> HIDE DEF cs
<1>9. /\ ListOK(list, cs) /\ Covered(list, cs)
      /\ \A p \in Objects : cs[p].index = conn[p].index
  BY <1>4, <1>7, <1>8 DEF ListOK, Covered
<1>10. \A j \in DOMAIN list : cs[list[j]].index = j - 1
  BY <1>4, <1>9 DEF Inv, IInv, IndexOfList
<1>11. /\ controls' \in Seq(Button)
       /\ \A k \in DOMAIN controls' :
            controls'[k].of \in ToSet(list) => cs[controls'[k].of].index <= controls'[k].index
  <2>1. \A k \in DOMAIN controls : controls[k].of \in Objects
    BY <1>4, ButtonIs
  <2>. QED
    BY <1>1, <1>4, <1>9, <2>1 DEF Inv, IInv, ButtonsNotBelow, Listed
<1>12. /\ WizardOK(wizard') /\ ~wizard'.open
       /\ edits' \in 0..MaxEdits /\ restarts' \in 0..MaxRestarts
  <2>1. edits \in 0..MaxEdits /\ restarts \in 0..MaxRestarts
    BY DEF Inv, IInv, TypeOK
  <2>2. edits < MaxEdits
    BY <1>1 DEF Inv, IInv
  <2>. QED
    BY <1>1, <2>1, <2>2, Constants DEF WizardOK, Closed
<1>13. MaxListed < Base => Entries(list, cs, section) /\ DOMAIN section = DOMAIN list
  <2>1. ASSUME MaxListed < Base, NEW j \in DOMAIN list, ~cs[list[j]].edited
        PROVE  Lasting(section[j]) = Lasting(Text(Settings(cs[list[j]])))
    <3>1. list[j] \in Objects /\ cs[list[j]] = conn[list[j]]
      BY <1>4, <1>7, <1>8, <2>1
    <3>. QED
      BY <2>1, <3>1 DEF Inv, FileInv, Entries
  <2>. QED
    BY <2>1 DEF Entries, Inv, FileInv
<1>. QED
  BY <1>1, <1>3, <1>4, <1>9, <1>10, <1>11, <1>12, <1>13, SaveStep

\* deleteConnection moves the later connections down; its control is removed, if it is
\* found.
LEMMA MovedIs ==
  ASSUME Inv, NEW i \in Nat, i < Len(list)
  PROVE  LET cs == MovedDown(i) IN
         /\ cs \in [Objects -> Connection]
         /\ \A o \in Objects : MinerOK(cs[o])
         /\ \A j \in DOMAIN list : j < i + 1 => cs[list[j]] = conn[list[j]]
         /\ \A j \in DOMAIN list : i + 1 < j =>
                cs[list[j]].index = j - 2 /\ cs[list[j]].edited = TRUE
         /\ \A o \in Objects : cs[o].index <= conn[o].index
<1> DEFINE cs == MovedDown(i)
           later == {o \in Objects : \E j \in i + 2..Len(list) : list[j] = o}
           moved(o) == [AdviseEdit(conn[o]) EXCEPT !.index = @ - 1]
<1>1. /\ Len(list) \in Nat /\ DOMAIN list = 1..Len(list) /\ IsInjective(list)
      /\ \A j \in DOMAIN list : list[j] \in Objects
      /\ conn \in [Objects -> Connection] /\ \A o \in Objects : MinerOK(conn[o])
      /\ \A j \in DOMAIN list : conn[list[j]].index = j - 1
  BY Typed DEF Inv, IInv, TypeOK, IndexOfList
<1>2. \A o \in Objects : cs[o] = IF o \in later THEN moved(o) ELSE conn[o]
  BY DEF MovedDown
<1>3. cs = [o \in Objects |-> cs[o]]
  BY DEF MovedDown
<1> HIDE DEF cs
<1>4. \A j \in DOMAIN list : i + 1 < j => list[j] \in later
  BY <1>1
<1>5. \A j \in DOMAIN list : j < i + 1 => list[j] \notin later
  <2>1. ASSUME NEW j \in DOMAIN list, j < i + 1, list[j] \in later PROVE FALSE
    <3>1. PICK m \in i + 2..Len(list) : list[m] = list[j]
      BY <2>1
    <3>2. m \in DOMAIN list /\ m # j
      BY <1>1, <2>1
    <3>. QED
      BY <1>1, <3>1, <3>2 DEF IsInjective
  <2>. QED
    BY <2>1
<1>6. ASSUME NEW o \in later
      PROVE  /\ conn[o].index \in Nat /\ moved(o) \in Connection
             /\ moved(o).index = conn[o].index - 1 /\ moved(o).edited = TRUE
             /\ MinerOK(moved(o))
  <2>1. PICK j \in i + 2..Len(list) : list[j] = o
    OBVIOUS
  <2>2. conn[o].index = j - 1
    BY <1>1, <2>1
  <2> DEFINE c == AdviseEdit(conn[o])
  <2>3. /\ c \in Connection /\ c.index = conn[o].index /\ c.edited = TRUE
        /\ MinerOK(c)
    BY <1>1, EditIs
  <2>4. moved(o) = [c EXCEPT !.index = @ - 1]
    OBVIOUS
  <2> HIDE DEF c, moved
  <2>5. j - 1 \in Nat /\ (j - 1) - 1 \in Nat
    BY <1>1
  <2>. QED
    BY <2>2, <2>3, <2>4, <2>5 DEF Connection, MinerOK
<1> HIDE DEF moved, later
<1>7. \A o \in Objects : cs[o] \in Connection /\ MinerOK(cs[o])
  BY <1>1, <1>2, <1>6
<1>8. cs \in [Objects -> Connection]
  BY <1>3, <1>7
<1>9. ASSUME NEW o \in Objects PROVE cs[o].index <= conn[o].index
  <2>1. conn[o].index \in Nat
    BY <1>1 DEF Connection
  <2>2. CASE o \in later
    <3>1. cs[o].index = conn[o].index - 1
      BY <1>2, <1>6, <2>2
    <3>. QED
      BY <2>1, <3>1
  <2>3. CASE o \notin later
    BY <1>2, <2>1, <2>3
  <2>. QED
    BY <2>2, <2>3
<1>10. \A j \in DOMAIN list : j < i + 1 => cs[list[j]] = conn[list[j]]
  BY <1>1, <1>2, <1>5
<1>11. ASSUME NEW j \in DOMAIN list, i + 1 < j
       PROVE  cs[list[j]].index = j - 2 /\ cs[list[j]].edited = TRUE
  <2>1. list[j] \in later /\ list[j] \in Objects /\ conn[list[j]].index = j - 1
    BY <1>1, <1>4, <1>11
  <2>2. /\ cs[list[j]].index = conn[list[j]].index - 1 /\ cs[list[j]].edited = TRUE
    BY <1>2, <1>6, <2>1
  <2>3. (j - 1) - 1 = j - 2
    BY <1>1
  <2>. QED
    BY <2>1, <2>2, <2>3
<1>. QED
  BY <1>7, <1>8, <1>9, <1>10, <1>11 DEF cs

\* The controls that are left are some of those there were.
LEMMA RemovedControls ==
  ASSUME Inv, NEW i \in Nat
  PROVE  /\ Removed(i) \in Seq(Button)
         /\ \A k \in DOMAIN Removed(i) : \E j \in DOMAIN controls : Removed(i)[k] = controls[j]
<1> DEFINE found == {k \in DOMAIN controls : controls[k].named /\ controls[k].index = i}
<1>1. controls \in Seq(Button)
  BY Typed DEF Inv
<1>2. CASE found = {}
  BY <1>1, <1>2 DEF Removed
<1>3. CASE found # {}
  <2> DEFINE c == CHOOSE k \in found : TRUE
  <2>1. c \in found
    BY <1>3
  <2>2. Removed(i) = RemoveAt(controls, c)
    BY <1>3 DEF Removed
  <2>3. c \in 1..Len(controls)
    BY <1>1, <2>1
  <2> HIDE DEF c, found
  <2>4. Without(Button, controls, c, Removed(i))
    BY <1>1, <2>2, <2>3, RemovedIs
  <2>. QED
    BY <2>4 DEF Without
<1>. QED
  BY <1>2, <1>3

LEMMA DeleteKeeps ==
  ASSUME Inv, NEW k \in DOMAIN controls, DeleteConnection(k)
  PROVE  Inv'
<1> DEFINE i == controls[k].index
<1>1. /\ edits < MaxEdits /\ ~wizard.open /\ wizard' = wizard
      /\ edits' = edits + 1 /\ restarts' = restarts /\ controls' = Removed(i)
      /\ IF i < Len(list)
         THEN list' = RemoveAt(list, i + 1) /\ SaveConfig(list', MovedDown(i), TRUE)
         ELSE list' = list /\ SaveConfig(list, conn, listEdit)
  BY DEF DeleteConnection, CanEdit, Count
<1>2. i \in Nat
  BY Typed, ButtonIs DEF Inv
<1> HIDE DEF i
<1>3. /\ list \in Seq(Objects) /\ Len(list) \in Nat /\ DOMAIN list = 1..Len(list)
      /\ Len(list) <= MaxListed /\ IsInjective(list) /\ ListOK(list, conn)
      /\ Covered(list, conn) /\ DOMAIN list \subseteq DOMAIN section
      /\ \A j \in DOMAIN list : list[j] \in Objects /\ conn[list[j]].index = j - 1
  BY Typed DEF Inv, IInv, TypeOK, IndexOfList
<1>4. /\ controls' \in Seq(Button)
      /\ \A m \in DOMAIN controls' : \E j \in DOMAIN controls : controls'[m] = controls[j]
  BY <1>1, <1>2, RemovedControls
<1>5. ASSUME NEW m \in DOMAIN controls', controls'[m].of \in Listed
      PROVE  /\ controls'[m].of \in Objects /\ controls'[m].index \in Nat
             /\ conn[controls'[m].of].index <= controls'[m].index
  <2>1. PICK j \in DOMAIN controls : controls'[m] = controls[j]
    BY <1>4
  <2>. QED
    BY <1>4, <1>5, <2>1, ButtonIs DEF Inv, IInv, ButtonsNotBelow
<1>6. /\ WizardOK(wizard') /\ ~wizard'.open
      /\ edits' \in 0..MaxEdits /\ restarts' \in 0..MaxRestarts
  <2>1. edits \in 0..MaxEdits /\ restarts \in 0..MaxRestarts /\ WizardOK(wizard)
    BY DEF Inv, IInv, TypeOK, WizardOK
  <2>. QED
    BY <1>1, <2>1, Constants
<1>7. CASE i < Len(list)
  <2> DEFINE l == RemoveAt(list, i + 1)
             cs == MovedDown(i)
  <2>1. list' = l /\ SaveConfig(l, cs, TRUE)
    BY <1>1, <1>7
  <2>2. i + 1 \in 1..Len(list)
    BY <1>2, <1>3, <1>7
  <2>3. /\ l \in Seq(Objects) /\ Len(l) = Len(list) - 1 /\ DOMAIN l = 1..Len(list) - 1
        /\ \A m \in DOMAIN l : \E j \in DOMAIN list \ {i + 1} :
              /\ l[m] = list[j]
              /\ m < i + 1 => j = m
              /\ ~(m < i + 1) => j = m + 1
    <3> DEFINE c == i + 1
    <3>1. c \in 1..Len(list)
      BY <2>2
    <3> HIDE DEF c
    <3>2. Without(Objects, list, c, RemoveAt(list, c))
      BY <1>3, <3>1, RemovedIs
    <3>. QED
      BY <3>2 DEF c, Without
  <2>4. /\ cs \in [Objects -> Connection]
        /\ \A o \in Objects : MinerOK(cs[o])
        /\ \A j \in DOMAIN list : j < i + 1 => cs[list[j]] = conn[list[j]]
        /\ \A j \in DOMAIN list : i + 1 < j =>
              cs[list[j]].index = j - 2 /\ cs[list[j]].edited = TRUE
        /\ \A o \in Objects : cs[o].index <= conn[o].index
    BY <1>2, <1>7, MovedIs
  <2> HIDE DEF l, cs
  <2>5. DOMAIN l \subseteq DOMAIN list /\ Len(l) <= MaxListed
    BY <1>3, <2>3, Constants
  <2>6. ASSUME NEW m \in DOMAIN l
        PROVE  \/ m < i + 1 /\ m \in DOMAIN list /\ l[m] = list[m] /\ cs[l[m]] = conn[list[m]]
               \/ /\ ~(m < i + 1) /\ m + 1 \in DOMAIN list /\ l[m] = list[m + 1]
                  /\ cs[l[m]].index = m - 1 /\ cs[l[m]].edited = TRUE
    <3>1. PICK j \in DOMAIN list \ {i + 1} :
              /\ l[m] = list[j]
              /\ m < i + 1 => j = m
              /\ ~(m < i + 1) => j = m + 1
      BY <2>3
    <3>2. CASE m < i + 1
      BY <2>4, <3>1, <3>2
    <3>3. CASE ~(m < i + 1)
      <4>1. j = m + 1 /\ i + 1 < j /\ j - 2 = m - 1
        BY <1>2, <1>3, <2>3, <3>1, <3>3
      <4>. QED
        BY <2>4, <3>1, <3>3, <4>1
    <3>. QED
      BY <3>2, <3>3
  <2>7. ListOK(l, cs) /\ Covered(l, cs)
    BY <1>3, <2>3, <2>4, <2>5 DEF ListOK, Covered
  <2>8. IsInjective(l)
    <3>1. ASSUME NEW m \in DOMAIN l, NEW n \in DOMAIN l, l[m] = l[n] PROVE m = n
      <4>1. PICK p \in DOMAIN list : /\ l[m] = list[p]
                                     /\ m < i + 1 => p = m
                                     /\ ~(m < i + 1) => p = m + 1
        BY <2>3
      <4>2. PICK q \in DOMAIN list : /\ l[n] = list[q]
                                     /\ n < i + 1 => q = n
                                     /\ ~(n < i + 1) => q = n + 1
        BY <2>3
      <4>3. p = q
        BY <1>3, <3>1, <4>1, <4>2 DEF IsInjective
      <4>. QED
        BY <1>2, <1>3, <2>3, <4>1, <4>2, <4>3
    <3>. QED
      BY <3>1 DEF IsInjective
  <2>9. \A m \in DOMAIN l : cs[l[m]].index = m - 1
    BY <1>3, <2>6
  <2>10. ASSUME NEW m \in DOMAIN controls', controls'[m].of \in ToSet(l)
         PROVE  cs[controls'[m].of].index <= controls'[m].index
    <3>1. controls'[m].of \in Listed
      BY <2>3, <2>10 DEF Listed, ToSet
    <3>2. /\ controls'[m].of \in Objects /\ controls'[m].index \in Nat
          /\ conn[controls'[m].of].index <= controls'[m].index
      BY <1>5, <3>1
    <3>3. cs[controls'[m].of].index \in Nat /\ conn[controls'[m].of].index \in Nat
      BY <2>4, <3>2, Typed DEF Connection, Inv
    <3>. QED
      BY <2>4, <3>2, <3>3
  <2>11. MaxListed < Base => Entries(l, cs, section)
    <3>1. ASSUME MaxListed < Base, NEW m \in DOMAIN l, ~cs[l[m]].edited
          PROVE  Lasting(section[m]) = Lasting(Text(Settings(cs[l[m]])))
      <4>1. m \in DOMAIN list /\ cs[l[m]] = conn[list[m]] /\ l[m] = list[m]
        BY <2>6, <3>1
      <4>. QED
        BY <3>1, <4>1 DEF Inv, FileInv, Entries
    <3>. QED
      BY <3>1 DEF Entries
  <2>. QED
    BY <1>4, <1>6, <2>1, <2>7, <2>8, <2>9, <2>10, <2>11, SaveStep
<1>8. CASE ~(i < Len(list))
  <2>1. list' = list /\ SaveConfig(list, conn, listEdit)
    BY <1>1, <1>8
  <2>2. MaxListed < Base => Entries(list, conn, section) /\ DOMAIN section = DOMAIN list
    BY DEF Inv, FileInv
  <2>3. \A m \in DOMAIN controls' :
          controls'[m].of \in ToSet(list) =>
              conn[controls'[m].of].index <= controls'[m].index
    BY <1>5 DEF Listed
  <2>. QED
    BY <1>3, <1>4, <1>6, <2>1, <2>2, <2>3, SaveStep
<1>. QED
  BY <1>7, <1>8

LEMMA ExitKeeps == ASSUME Inv, Exit \/ Crash PROVE Inv'
<1>1. PICK f \in {file, Sections(list, conn)} : LoadConfig(f)
  BY DEF Exit, Crash
<1>2. Config(f)
  <2>1. Config(Sections(list, conn)) /\ Config(file)
    BY Typed, SectionsOK DEF Inv
  <2>. QED
    BY <2>1
<1>3. edits' \in 0..MaxEdits /\ restarts' \in 0..MaxRestarts
  <2>1. edits \in 0..MaxEdits /\ restarts \in 0..MaxRestarts
    BY DEF Inv, IInv, TypeOK
  <2>. QED
    BY <2>1, Constants DEF Exit, Crash, Restarted
<1>. QED
  BY <1>1, <1>2, <1>3, LoadConfigOK DEF Inv

LEMMA NextKeeps == Inv /\ [Next]_vars => Inv'
<1> SUFFICES ASSUME Inv, [Next]_vars PROVE Inv'
  OBVIOUS
<1>1. CASE AddConnection
  BY <1>1, AddKeeps
<1>2. CASE EditConnection
  BY <1>2, EditKeeps
<1>3. CASE CancelWizard
  BY <1>3, CancelKeeps
<1>4. ASSUME NEW k \in DOMAIN controls,
             OpenWizard(k) \/ DeleteConnection(k) \/ StartMining(k) \/ StopMining(k)
             \/ ToggleAuto(k)
      PROVE  Inv'
  BY <1>4, OpenKeeps, DeleteKeeps, StartKeeps, StopKeeps, ToggleKeeps
<1>5. CASE UpdateConnections
  BY <1>5, UpdateKeeps
<1>6. CASE Exit \/ Crash
  BY <1>6, ExitKeeps
<1>7. CASE UNCHANGED vars
  BY <1>7 DEF vars, Inv, IInv, TypeOK, IndexOfList, ButtonsNotBelow, FileInv, Entries,
     Listed, Config
<1>. QED
  BY <1>1, <1>2, <1>3, <1>4, <1>5, <1>6, <1>7 DEF Next

-----------------------------------------------------------------------------
(* The theorems *)

\* Every state the handlers reach has IInv, and FileInv when every id is read back.
THEOREM Invariance == Spec => []Inv
<1>1. Init => Inv
  BY InitOK DEF Inv
<1>2. Inv /\ [Next]_vars => Inv'
  BY NextKeeps
<1>. QED
  BY <1>1, <1>2, PTL DEF Spec

\* The state keeps its type, no object is in the list twice, and the keys of the section
\* in memory and on disk are ids of connections there can be: addConnection,
\* deleteConnection and saveConfig leave no gap in them.
THEOREM TypeCorrect == Spec => []TypeOK
<1>1. Inv => TypeOK
  BY DEF Inv, IInv
<1>. QED
  BY <1>1, Invariance, PTL

\* Whatever was deleted before it, an object has the key it is listed under for its index:
\* deleteConnection moves the later ones down one by one.
THEOREM IndexAgrees == Spec => []IndexOfList
<1>1. Inv => IndexOfList
  BY DEF Inv, IInv
<1>. QED
  BY <1>1, Invariance, PTL

\* As long as no id has a digit more than another one, the config on disk has an entry for
\* every connection and for nothing else, and the entry of one that neither mines nor has
\* an edit is its own, although saveConfig writes only what was edited and deleteConnection
\* renumbers what is already written.
THEOREM FileAgrees == ASSUME MaxListed < Base PROVE Spec => []FileMatchesList
<1>1. ASSUME Inv PROVE FileMatchesList
  <2>1. /\ DOMAIN file = DOMAIN list
        /\ \A i \in DOMAIN list :
            ~conn[list[i]].edited => Lasting(file[i]) = Lasting(Text(Settings(conn[list[i]])))
    BY <1>1 DEF Inv, FileInv, Entries
  <2>2. \A i \in DOMAIN list :
            ~IsMining(conn[list[i]]) => Settings(conn[list[i]]) = conn[list[i]].info
    BY DEF IsMining, Settings
  <2>3. \A i \in DOMAIN list :
            ~IsMining(conn[list[i]]) /\ ~conn[list[i]].edited =>
                Lasting(file[i]) = Lasting(Text(conn[list[i]].info))
    BY <2>1, <2>2
  <2>. QED
    BY <2>1, <2>3 DEF FileMatchesList, Lasting
<1>. QED
  BY <1>1, Invariance, PTL

\* A miner that runs belongs to a connection that is started, so CConnection::Stop does not
\* refuse it, whatever the wizard and the config put into the settings meanwhile.
THEOREM MinersStoppable == Spec => []Stoppable
<1>1. Inv => Stoppable
  BY DEF Inv, IInv, MinerOK, Stoppable
<1>. QED
  BY <1>1, Invariance, PTL

\* A button of the dashboard is never about a connection that is listed before the one it
\* was made for, however many were deleted since.
THEOREM ButtonsAgree == Spec => []ButtonsNotBelow
<1>1. Inv => ButtonsNotBelow
  BY DEF Inv, IInv
<1>. QED
  BY <1>1, Invariance, PTL

\* updateConnections leaves at most one miner of the list running, the one it starts.
THEOREM SwitchStops == Spec => SwitchLeavesOne
<1>1. ASSUME Inv, UpdateConnections, NEW i \in DOMAIN list, NEW j \in DOMAIN list,
             conn'[list[i]].miner = "mining", conn'[list[j]].miner = "mining"
      PROVE  i = j
  <2>1. PICK best \in DOMAIN list :
          \A o \in Objects : o \in Listed /\ o # list[best] => conn'[o].miner # "mining"
    BY <1>1, UpdateIs DEF Inv
  <2>2. list[i] = list[best] /\ list[j] = list[best]
    BY <1>1, <2>1, Typed DEF Inv
  <2>3. IsInjective(list)
    BY <1>1, Typed DEF Inv
  <2>. QED
    BY <2>2, <2>3 DEF IsInjective
<1>2. Inv /\ [Next]_vars =>
        [UpdateConnections =>
            \A i, j \in DOMAIN list :
               conn'[list[i]].miner = "mining" /\ conn'[list[j]].miner = "mining" => i = j]_vars
  BY <1>1
<1>. QED
  BY <1>2, Invariance, PTL DEF Spec, SwitchLeavesOne
=============================================================================
