---------------------------- MODULE TraderProofs ----------------------------
(***************************************************************************)
(* Proofs about Trader, for every set of trades, their kinds, amounts and  *)
(* routes, every schedule and minimum, and every bound.                    *)
(*                                                                         *)
(* The inductive invariant IInv says of each pending order that it lists   *)
(* places in the trade book, that none of its trades is due after it, and  *)
(* that it waits no longer than until the next scheduled time (OrdersOK).  *)
(* Of the gate it says two things: between two passes, what NoOversleep    *)
(* needs (GateOK); during a pass, the same of the orders that the loop has *)
(* behind it, with the reason why the gate moved forward at all, an order  *)
(* that was overdue and too small (GateInPass).  OneOrder, while the       *)
(* process lives, is the partition of the trades placed into orders.       *)
(*                                                                         *)
(* Bundled and Affected are recursive functions: Recursion shows that they *)
(* exist, and Carried that what each step keeps holds of the result.       *)
(***************************************************************************)
EXTENDS Trader, FiniteSetTheorems, SequenceTheorems, WellFoundedInduction, TLAPS

\* What an order holds of the trades in P, when the trade book has len entries: the
\* places in the book of those that are to be written when it is placed, and none
\* whose time d is after its own.
OrderOK(o, len, P, d) ==
    /\ o \in TradeOrder
    /\ 1 <= o.timeToExecute
    /\ \A k \in DOMAIN o.trades : o.trades[k] < len
    /\ o.parts \subseteq P
    /\ \A g \in o.parts : d[g] <= o.timeToExecute

\* At time t no order waits beyond the next scheduled time.
OrdersOK(orders, len, P, d, t) ==
    /\ orders \in Seq(TradeOrder)
    /\ \A i \in DOMAIN orders :
        /\ OrderOK(orders[i], len, P, d)
        /\ orders[i].timeToExecute <= ScheduleTime(t)

\* Order o is below the minimum and was overdue at time t.
OverdueSmall(o, t) == o.amount < Minimum /\ o.timeToExecute < t

\* The gate g between two passes, at time t, the last one having begun at time bg.
GateOK(orders, g, t, bg) ==
    /\ g \in 0..ScheduleTime(t)
    /\ orders # <<>> => g # 0
    /\ \A i \in DOMAIN orders :
        /\ orders[i].amount >= Minimum => g <= ScheduleTime(orders[i].timeToExecute)
        /\ \/ g <= orders[i].timeToExecute
           \/ \E j \in DOMAIN orders : OverdueSmall(orders[j], bg)

\* The gate during a pass, which is at the order cursor.
GateInPass ==
    /\ 1 <= began
    /\ gate <= ScheduleTime(began)
    /\ cursor = 1 => gate = 0
    /\ cursor > 1 => \E j \in 1..cursor - 1 : gate = pending[j].timeToExecute
    /\ \A i \in DOMAIN pending : pending[i].timeToExecute <= ScheduleTime(began)
    /\ \A i \in 1..cursor - 1 :
        /\ pending[i].amount >= Minimum => began <= pending[i].timeToExecute
        /\ \/ gate <= pending[i].timeToExecute
           \/ \E j \in 1..cursor - 1 : OverdueSmall(pending[j], began)

Taken(n) == sent[n].stage # "idle"

\* While the process lives: no trade is in two orders, and none is lost.
OneOrder ==
    /\ \A i, j \in DOMAIN pending : \A g \in pending[i].parts \cap pending[j].parts : i = j
    /\ \A m, n \in DOMAIN sent :
        Taken(m) /\ Taken(n) => \A g \in sent[m].parts \cap sent[n].parts : m = n
    /\ \A i \in DOMAIN pending, n \in DOMAIN sent :
        Taken(n) => pending[i].parts \cap sent[n].parts = {}
    /\ \A g \in placed :
        \/ \E i \in DOMAIN pending : g \in pending[i].parts
        \/ \E n \in DOMAIN sent : Taken(n) /\ g \in sent[n].parts

\* A book of trades of P with n entries.
BookOK(b, P, n) ==
    /\ b \in Seq(TradeInfo)
    /\ Len(b) = n
    /\ \A i \in DOMAIN b : b[i].id \in P

\* The orders the broker has, for the trades of P and their times d.
SentOK(orders, P, d) ==
    /\ orders \in Seq(SentOrder)
    /\ \A n \in DOMAIN orders :
        /\ orders[n].parts \subseteq P
        /\ orders[n].amount >= Minimum
        /\ \A g \in orders[n].parts : d[g] < orders[n].time

DueOK(P, d, t) == \A g \in P : d[g] <= TradeSchedule(g, t)

IInv ==
    /\ TypeOK
    /\ BookOK(book, placed, Len(book))
    /\ OrdersOK(pending, Len(book), placed, due, clock)
    /\ SentOK(sent, placed, due)
    /\ DueOK(placed, due, clock)
    /\ began <= clock
    /\ cursor = 0 => GateOK(pending, gate, clock, began)
    /\ cursor > 0 => GateInPass
    /\ crashes = 0 => OneOrder

-----------------------------------------------------------------------------
(* Numbers and recursive functions *)

NatOrder == OpToRel(<, Nat)

\* Every set of numbers has a least one.
LEMMA NatMin == ASSUME NEW T \in SUBSET Nat, T # {} PROVE \E x \in T : \A y \in T : x <= y
<1>1. IsWellFoundedOn(NatOrder, Nat)
  BY NatLessThanWellFounded, Zenon DEF NatOrder
<1>2. PICK x \in T : \A y \in T : ~(<<y, x>> \in NatOrder)
  BY <1>1, WFMin
<1>3. \A y, z \in Nat : y < z => <<y, z>> \in NatOrder
  BY Zenon DEF NatOrder, OpToRel
<1>4. ASSUME NEW y \in T PROVE x <= y
  <2>1. x \in Nat /\ y \in Nat
    OBVIOUS
  <2>2. ~(y < x)
    BY <1>2, <1>3, <2>1
  <2>. QED
    BY <2>1, <2>2
<1>. QED
  BY <1>4

\* Of a set of numbers up to n, the greatest is one of them.
LEMMA NatMax ==
  ASSUME NEW n \in Nat, NEW T \in SUBSET (0..n), T # {}
  PROVE  \E x \in T : \A y \in T : y <= x
<1>1. PICK D : D = {n - y : y \in T}
  OBVIOUS
<1>2. D \in SUBSET Nat /\ D # {}
  <2>1. \A y \in T : n - y \in Nat
    OBVIOUS
  <2>. QED
    BY <1>1, <2>1
<1>3. PICK d \in D : \A e \in D : d <= e
  BY <1>2, NatMin
<1>4. PICK x \in T : d = n - x
  BY <1>1, <1>3
<1>5. ASSUME NEW y \in T PROVE y <= x
  <2>1. n - y \in D
    BY <1>1
  <2>2. n - x <= n - y /\ x \in Int /\ y \in Int
    BY <1>3, <1>4, <2>1
  <2>. QED
    BY <2>2
<1>. QED
  BY <1>5

\* What holds of the first value of a function on 0..N, and of the next one when it holds
\* of one, holds of all.
LEMMA Carried ==
  ASSUME NEW N \in Nat, NEW S, NEW f, f[0] \in S,
         \A n \in 1..N : f[n - 1] \in S => f[n] \in S
  PROVE  \A n \in 0..N : f[n] \in S
<1> DEFINE T == {n \in 0..N : f[n] \notin S}
<1> SUFFICES ASSUME T # {} PROVE FALSE
  OBVIOUS
<1>1. T \in SUBSET Nat
  OBVIOUS
<1>2. PICK x \in T : \A y \in T : x <= y
  BY <1>1, NatMin, Zenon
<1>3. x \in 1..N /\ x - 1 \in 0..N
  OBVIOUS
<1>4. x - 1 \notin T
  BY <1>2, <1>3
<1>. QED
  BY <1>3, <1>4

\* f is the recursive function on 0..N with the first value base and these steps.
Solves(f, N, base, step) ==
    f = [n \in 0..N |-> IF n = 0 THEN base ELSE step[n][f[n - 1]]]

\* There is one, when base is in S and the steps stay in S.
LEMMA Recursion ==
  ASSUME NEW N \in Nat, NEW S, NEW base \in S, NEW step \in [1..N -> [S -> S]]
  PROVE  \E f \in [0..N -> S] : Solves(f, N, base, step)
<1> DEFINE Solved(m) == \E f \in [0..m -> S] :
             /\ f[0] = base
             /\ \A n \in 1..m : f[n] = step[n][f[n - 1]]
           T == {m \in 0..N : ~Solved(m)}
<1>1. T = {}
  <2> SUFFICES ASSUME T # {} PROVE FALSE
    OBVIOUS
  <2> HIDE DEF Solved
  <2>1. PICK x \in T : \A y \in T : x <= y
    <3>1. T \in SUBSET Nat
      OBVIOUS
    <3>. QED
      BY <3>1, NatMin, Zenon
  <2> USE DEF Solved
  <2>2. CASE x = 0
    <3> DEFINE f == [n \in 0..0 |-> base]
    <3>1. f \in [0..0 -> S] /\ f[0] = base /\ \A n \in 1..0 : f[n] = step[n][f[n - 1]]
      OBVIOUS
    <3> HIDE DEF f
    <3>2. Solved(0)
      BY <3>1
    <3>. QED
      BY <2>2, <3>2
  <2>3. CASE x # 0
    <3>1. x \in 1..N /\ x - 1 \in 0..N
      BY <2>3
    <3>2. Solved(x - 1)
      <4> HIDE DEF Solved
      <4>. QED
        BY <2>1, <3>1
    <3>3. PICK f \in [0..x - 1 -> S] : f[0] = base /\ \A n \in 1..x - 1 : f[n] = step[n][f[n - 1]]
      BY <3>2
    <3> DEFINE g == [n \in 0..x |-> IF n = x THEN step[x][f[x - 1]] ELSE f[n]]
    <3>4. f[x - 1] \in S /\ step[x] \in [S -> S]
      BY <3>1
    <3>5. g \in [0..x -> S]
      <4>1. ASSUME NEW n \in 0..x PROVE (IF n = x THEN step[x][f[x - 1]] ELSE f[n]) \in S
        <5>1. CASE n = x
          BY <3>4, <5>1
        <5>2. CASE n # x
          <6>1. n \in 0..x - 1
            BY <3>1, <5>2
          <6>. QED
            BY <5>2, <6>1
        <5>. QED
          BY <5>1, <5>2
      <4>. QED
        BY <4>1
    <3>6. g[0] = base /\ \A n \in 1..x : g[n] = step[n][g[n - 1]]
      <4>1. \A n \in 0..x - 1 : g[n] = f[n]
        BY <3>1
      <4>2. 0 \in 0..x - 1
        BY <3>1
      <4>3. ASSUME NEW n \in 1..x PROVE g[n] = step[n][g[n - 1]]
        <5>1. n - 1 \in 0..x - 1
          BY <3>1
        <5>2. g[n - 1] = f[n - 1]
          BY <4>1, <5>1
        <5>3. CASE n = x
          BY <3>1, <5>2, <5>3
        <5>4. CASE n # x
          <6>1. n \in 0..x - 1 /\ n \in 1..x - 1
            BY <3>1, <5>4
          <6>2. g[n] = f[n] /\ f[n] = step[n][f[n - 1]]
            BY <3>3, <4>1, <6>1
          <6>. QED
            BY <5>2, <6>2
        <5>. QED
          BY <5>3, <5>4
      <4>. QED
        BY <3>3, <4>1, <4>2, <4>3
    <3> HIDE DEF g
    <3>7. Solved(x)
      BY <3>5, <3>6
    <3>. QED
      BY <3>7
  <2>. QED
    BY <2>2, <2>3
<1>2. Solved(N)
  <2> HIDE DEF Solved
  <2>. QED
    BY <1>1
<1>3. PICK f \in [0..N -> S] : f[0] = base /\ \A n \in 1..N : f[n] = step[n][f[n - 1]]
  BY <1>2
<1>4. ASSUME NEW n \in 0..N PROVE f[n] = IF n = 0 THEN base ELSE step[n][f[n - 1]]
  BY <1>3
<1>. QED
  BY <1>4 DEF Solves

-----------------------------------------------------------------------------
(* The schedule *)

LEMMA NextMultiple ==
  ASSUME NEW t \in Nat
  PROVE  ScheduleTime(t) \in Nat /\ t < ScheduleTime(t)
<1>1. Period \in Nat \ {0}
  BY ConstantsOK DEF ConstantsOK
<1>2. t % Period \in 0..Period - 1
  BY <1>1
<1>. QED
  BY <1>1, <1>2 DEF ScheduleTime

LEMMA ScheduleGrows ==
  ASSUME NEW t \in Nat, NEW u \in Nat, t <= u
  PROVE  ScheduleTime(t) <= ScheduleTime(u)
<1>1. Period \in Nat \ {0}
  BY ConstantsOK DEF ConstantsOK
<1> DEFINE q == t \div Period
           r == t % Period
           p == u \div Period
           s == u % Period
<1>2. /\ q \in Int /\ p \in Int
      /\ r \in 0..Period - 1 /\ s \in 0..Period - 1
      /\ t = Period * q + r /\ u = Period * p + s
  BY <1>1
<1> HIDE DEF q, r, p, s
<1>3. q <= p
  <2> SUFFICES ASSUME p + 1 <= q PROVE FALSE
    BY <1>2
  <2>1. Period * (p + 1) <= Period * q
    BY <1>1, <1>2
  <2>2. Period * (p + 1) = Period * p + Period
    BY <1>1, <1>2
  <2>. QED
    BY <1>1, <1>2, <2>1, <2>2
<1>4. Period * q <= Period * p
  BY <1>1, <1>2, <1>3
<1>5. t - r = Period * q /\ u - s = Period * p
  BY <1>1, <1>2
<1>. QED
  BY <1>1, <1>2, <1>4, <1>5 DEF ScheduleTime, r, s

LEMMA TradeScheduleIs ==
  ASSUME NEW g \in Trades, NEW t \in Nat
  PROVE  /\ TradeSchedule(g, t) \in Nat
         /\ t <= TradeSchedule(g, t) /\ TradeSchedule(g, t) <= ScheduleTime(t)
         /\ \A u \in Nat : t <= u => TradeSchedule(g, t) <= TradeSchedule(g, u)
BY NextMultiple, ScheduleGrows DEF TradeSchedule

-----------------------------------------------------------------------------
(* Sequences *)

LEMMA AppendIs ==
  ASSUME NEW S, NEW s \in Seq(S), NEW x \in S
  PROVE  /\ Append(s, x) \in Seq(S) /\ Len(Append(s, x)) = Len(s) + 1 /\ Len(s) \in Nat
         /\ Append(s, x)[Len(s) + 1] = x
         /\ \A i \in 1..Len(s) : Append(s, x)[i] = s[i]
         /\ DOMAIN s = 1..Len(s) /\ DOMAIN Append(s, x) = 1..Len(s) + 1
OBVIOUS

LEMMA RemoveAtIs ==
  ASSUME NEW S, NEW s \in Seq(S), NEW c \in 1..Len(s)
  PROVE  /\ RemoveAt(s, c) \in Seq(S)
         /\ Len(RemoveAt(s, c)) = Len(s) - 1
         /\ \A i \in 1..Len(s) - 1 :
                RemoveAt(s, c)[i] = s[IF i < c THEN i ELSE i + 1]
<1> DEFINE a == SubSeq(s, 1, c - 1)
           z == SubSeq(s, c + 1, Len(s))
<1>1. Len(s) \in Nat /\ c \in Nat
  BY LenProperties
<1>2. a \in Seq(S) /\ Len(a) = c - 1 /\ \A i \in 1..c - 1 : a[i] = s[i]
  <2>1. \A i \in 1..c - 1 : s[i] \in S
    BY <1>1, ElementOfSeq
  <2>2. 1 \in Int /\ c - 1 \in Int
    BY <1>1
  <2>3. /\ a \in Seq(S) /\ Len(a) = IF 1 <= c - 1 THEN c - 1 - 1 + 1 ELSE 0
        /\ \A i \in 1..c - 1 - 1 + 1 : a[i] = s[1 + i - 1]
    BY <2>1, <2>2, SubSeqProperties
  <2>4. c - 1 - 1 + 1 = c - 1 /\ \A i \in 1..c - 1 : 1 + i - 1 = i
    BY <1>1
  <2>. QED
    BY <1>1, <2>3, <2>4
<1>3. /\ z \in Seq(S) /\ Len(z) = Len(s) - c
      /\ \A i \in 1..Len(s) - c : z[i] = s[c + i]
  <2>1. \A i \in c + 1..Len(s) : s[i] \in S
    BY <1>1, ElementOfSeq
  <2>2. Len(s) \in Int /\ c + 1 \in Int
    BY <1>1
  <2>3. /\ z \in Seq(S) /\ Len(z) = IF c + 1 <= Len(s) THEN Len(s) - (c + 1) + 1 ELSE 0
        /\ \A i \in 1..Len(s) - (c + 1) + 1 : z[i] = s[c + 1 + i - 1]
    BY <2>1, <2>2, SubSeqProperties
  <2> HIDE DEF z
  <2>4. Len(z) = Len(s) - c
    BY <1>1, <2>3
  <2>5. ASSUME NEW i \in 1..Len(s) - c PROVE z[i] = s[c + i]
    <3>1. i \in 1..Len(s) - (c + 1) + 1 /\ c + 1 + i - 1 = c + i
      BY <1>1
    <3>. QED
      BY <2>3, <3>1
  <2>. QED
    BY <2>3, <2>4, <2>5
<1> HIDE DEF a, z
<1>4. /\ a \o z \in Seq(S) /\ Len(a \o z) = Len(a) + Len(z)
      /\ \A i \in 1..Len(a) + Len(z) :
            (a \o z)[i] = IF i <= Len(a) THEN a[i] ELSE z[i - Len(a)]
  BY <1>2, <1>3, ConcatProperties
<1>5. RemoveAt(s, c) = a \o z
  BY DEF RemoveAt, a, z
<1>7. Len(a) + Len(z) = Len(s) - 1
  BY <1>1, <1>2, <1>3
<1>6. ASSUME NEW i \in 1..Len(s) - 1
      PROVE  (a \o z)[i] = s[IF i < c THEN i ELSE i + 1]
  <2>1. CASE i < c
    BY <1>1, <1>2, <1>3, <1>4, <2>1
  <2>2. CASE ~(i < c)
    <3>1. i - (c - 1) \in 1..Len(s) - c /\ c + (i - (c - 1)) = i + 1
      BY <1>1, <2>2
    <3>2. (a \o z)[i] = z[i - (c - 1)]
      BY <1>1, <1>2, <1>3, <1>4, <2>2
    <3>. QED
      BY <1>3, <2>2, <3>1, <3>2
  <2>. QED
    BY <2>1, <2>2
<1>. QED
  BY <1>4, <1>5, <1>6, <1>7

-----------------------------------------------------------------------------
(* The trade book *)

LEMMA WrittenBook ==
  ASSUME NEW P, NEW n, NEW b, BookOK(b, P, n), NEW trade \in TradeInfo, trade.id \in P
  PROVE  BookOK(Written(b, trade), P, n)
<1> DEFINE i == trade.sequence + 1
<1>1. CASE i \in 1..Len(b)
  <2>1. /\ [b EXCEPT ![i] = trade] \in Seq(TradeInfo)
        /\ Len([b EXCEPT ![i] = trade]) = Len(b)
        /\ \A j \in 1..Len(b) : [b EXCEPT ![i] = trade][j] = IF j = i THEN trade ELSE b[j]
    BY <1>1, ExceptSeq DEF BookOK
  <2>. QED
    BY <2>1, LenProperties DEF BookOK, Written
<1>2. CASE i \notin 1..Len(b)
  <2>1. [b EXCEPT ![i] = trade] = b
    BY <1>2 DEF BookOK
  <2>. QED
    BY <2>1 DEF BookOK, Written
<1>. QED
  BY <1>1, <1>2

\* Every place listed is one in the book.
Listed(listed, n) == listed \in Seq(Nat) /\ \A k \in DOMAIN listed : listed[k] < n

LEMMA AffectedBook ==
  ASSUME NEW P, NEW n, NEW b, BookOK(b, P, n), NEW listed, Listed(listed, n),
         Len(sent) + 1 \in 0..MaxSent
  PROVE  BookOK(Affected(b, listed), P, n)
<1> DEFINE N == Len(listed)
           S == {c \in Seq(TradeInfo) : BookOK(c, P, n)}
           Entry(c, k) == [c[listed[k] + 1] EXCEPT !.status = "placed",
                                                   !.orderId = Len(sent) + 1]
           after == CHOOSE after : after = [k \in 0..N |->
                        IF k = 0 THEN b
                        ELSE LET trade == after[k - 1][listed[k] + 1]
                             IN Written(after[k - 1], [trade EXCEPT !.status = "placed",
                                                                   !.orderId = Len(sent) + 1])]
<1>1. N \in Nat /\ b \in S
  BY LenProperties DEF Listed, BookOK
<1>2. ASSUME NEW c \in S, NEW k \in 1..N PROVE Written(c, Entry(c, k)) \in S
  <2>1. listed[k] + 1 \in DOMAIN c
    BY LenProperties DEF Listed, BookOK
  <2>2. c[listed[k] + 1] \in TradeInfo /\ c[listed[k] + 1].id \in P
    BY <2>1 DEF BookOK
  <2>3. Entry(c, k) \in TradeInfo /\ Entry(c, k).id \in P
    BY <2>2 DEF TradeInfo, Statuses
  <2> HIDE DEF Entry
  <2>4. BookOK(Written(c, Entry(c, k)), P, n)
    BY <2>3, WrittenBook
  <2>. QED
    BY <2>4 DEF BookOK
<1> DEFINE step == [k \in 1..N |-> [c \in S |-> Written(c, Entry(c, k))]]
<1>3. step \in [1..N -> [S -> S]]
  BY <1>2
<1>4. PICK f \in [0..N -> S] : Solves(f, N, b, step)
  <2> HIDE DEF step, S, N
  <2>. QED
    BY <1>1, <1>3, Recursion
<1>5. ASSUME NEW k \in 0..N, k # 0
      PROVE  step[k][f[k - 1]] = Written(f[k - 1], Entry(f[k - 1], k))
  <2> HIDE DEF S, N, Entry
  <2>1. k \in 1..N /\ f[k - 1] \in S
    BY <1>1, <1>5
  <2>. QED
    BY <2>1
<1>6. f = [k \in 0..N |-> IF k = 0 THEN b ELSE Written(f[k - 1], Entry(f[k - 1], k))]
  BY <1>4, <1>5, ZenonT(30) DEF Solves
<1>7. after = [k \in 0..N |-> IF k = 0 THEN b ELSE Written(after[k - 1], Entry(after[k - 1], k))]
  BY <1>6, Zenon
<1>8. Affected(b, listed) = after[N]
  BY DEF Affected
<1>b. \A c \in S : BookOK(c, P, n)
  OBVIOUS
<1> HIDE DEF after, S, N, Entry, step
<1>9. \A k \in 0..N : after[k] \in S
  <2>1. after[0] \in S
    BY <1>1, <1>7
  <2>2. ASSUME NEW k \in 1..N, after[k - 1] \in S PROVE after[k] \in S
    <3>1. after[k] = Written(after[k - 1], Entry(after[k - 1], k))
      BY <1>1, <1>7
    <3>. QED
      BY <1>2, <2>2, <3>1
  <2>. QED
    BY <1>1, <2>1, <2>2, Carried
<1>. QED
  BY <1>1, <1>8, <1>9, <1>b

LEMMA UpdatedBook ==
  ASSUME NEW P, NEW n, NEW b, BookOK(b, P, n), NEW m, NEW over \in BOOLEAN
  PROVE  BookOK(Updated(b, m, over), P, n)
<1> DEFINE found == {i \in DOMAIN b : b[i].orderId = m}
           last == CHOOSE i \in found : \A j \in found : j <= i
           status == IF over THEN "completed"
                     ELSE IF b[last].status = "placed" THEN "executing" ELSE b[last].status
           trade == [b[last] EXCEPT !.status = status]
<1>1. CASE found = {}
  BY <1>1 DEF Updated
<1>2. CASE found # {}
  <2>1. last \in found
    <3>1. found \in SUBSET (0..Len(b)) /\ Len(b) \in Nat
      BY LenProperties DEF BookOK
    <3> HIDE DEF found
    <3>2. \E x \in found : \A y \in found : y <= x
      BY <1>2, <3>1, NatMax
    <3>. QED
      BY <3>2
  <2> HIDE DEF last
  <2>2. b[last] \in TradeInfo /\ b[last].id \in P
    BY <2>1 DEF BookOK
  <2>3. trade \in TradeInfo /\ trade.id \in P
    BY <2>2 DEF TradeInfo, Statuses
  <2>4. Updated(b, m, over) = Written(b, trade)
    BY <1>2 DEF Updated, last
  <2> HIDE DEF trade
  <2>. QED
    BY <2>3, <2>4, WrittenBook
<1>. QED
  BY <1>1, <1>2

LEMMA RereadBook ==
  ASSUME NEW P, NEW n, NEW b, BookOK(b, P, n)
  PROVE  /\ BookOK(Reread(b), P, n)
         /\ \A i \in 1..n : Reread(b)[i].sequence < n
<1>1. b \in Seq(TradeInfo) /\ n \in Nat /\ n = Len(b) /\ DOMAIN b = 1..n
  BY LenProperties DEF BookOK
<1>2. ASSUME NEW i \in 1..n
      PROVE  /\ [b[i] EXCEPT !.sequence = i - 1] \in TradeInfo
             /\ [b[i] EXCEPT !.sequence = i - 1].id \in P
             /\ [b[i] EXCEPT !.sequence = i - 1].sequence < n
  <2>1. b[i] \in TradeInfo /\ b[i].id \in P /\ i - 1 \in Nat /\ i - 1 < n
    BY <1>1 DEF BookOK
  <2>. QED
    BY <2>1 DEF TradeInfo
<1>3. Reread(b) = [i \in 1..n |-> [b[i] EXCEPT !.sequence = i - 1]]
  BY <1>1 DEF Reread
<1>4. Reread(b) \in [1..n -> TradeInfo]
  BY <1>2, <1>3
<1>5. Reread(b) \in Seq(TradeInfo) /\ Len(Reread(b)) = n /\ DOMAIN Reread(b) = 1..n
  BY <1>1, <1>4, SeqDef
<1>. QED
  BY <1>2, <1>3, <1>5 DEF BookOK

-----------------------------------------------------------------------------
(* Bundling *)

Plan == [orders : Seq(TradeOrder), gate : Nat]

PlanOK(plan, len, P, d, t, bg) ==
    /\ plan \in Plan
    /\ OrdersOK(plan.orders, len, P, d, t)
    /\ GateOK(plan.orders, plan.gate, t, bg)

\* addTradeToOrders: the trade joins order i, or has one of its own.
Joined(plan, i, trade, t, new) ==
    /\ Matches(trade.id, plan.orders[i], t)
    /\ new.orders = [plan.orders EXCEPT ![i] = Join(trade.id, trade.sequence, @)]
    /\ new.gate = plan.gate

Opened(plan, trade, t, new) ==
    LET order == MakeOrder(trade.id, trade.sequence, t) IN
    /\ new.orders = Append(plan.orders, order)
    /\ new.gate = IF plan.gate = 0 \/ plan.gate > order.timeToExecute
                  THEN order.timeToExecute ELSE plan.gate

LEMMA MakeOrderType ==
  ASSUME NEW g \in Trades, NEW s \in Nat, NEW t \in Nat
  PROVE  MakeOrder(g, s, t) \in TradeOrder
<1>1. Amount[g] \in Nat \ {0}
  BY ConstantsOK DEF ConstantsOK
<1>2. <<s>> \in Seq(Nat) /\ TradeSchedule(g, t) \in Nat
  BY TradeScheduleIs
<1>. QED
  BY <1>1, <1>2 DEF MakeOrder, TradeOrder

\* new is order o with trade g, which is written at place s of the book.
HasJoined(g, s, o, new) ==
    /\ new \in TradeOrder
    /\ new.timeToExecute = o.timeToExecute
    /\ new.amount >= o.amount
    /\ new.parts = o.parts \cup {g}
    /\ new.trades = Append(o.trades, s)

LEMMA JoinType ==
  ASSUME NEW g \in Trades, NEW s \in Nat, NEW o \in TradeOrder
  PROVE  HasJoined(g, s, o, Join(g, s, o))
<1>1. Amount[g] \in Nat \ {0}
  BY ConstantsOK DEF ConstantsOK
<1>2. /\ o.amount + Amount[g] \in Nat /\ o.amount + Amount[g] >= o.amount
      /\ Append(o.trades, s) \in Seq(Nat) /\ o.parts \cup {g} \in SUBSET Trades
  BY <1>1 DEF TradeOrder
<1>. QED
  BY <1>2 DEF Join, TradeOrder, HasJoined

LEMMA AddTradeIs ==
  ASSUME NEW plan \in Plan, NEW trade \in TradeInfo, NEW t \in Nat
  PROVE  /\ AddTrade(plan, trade, t) \in Plan
         /\ \/ Opened(plan, trade, t, AddTrade(plan, trade, t))
            \/ \E i \in DOMAIN plan.orders : Joined(plan, i, trade, t, AddTrade(plan, trade, t))
<1> DEFINE fits == {i \in DOMAIN plan.orders : Matches(trade.id, plan.orders[i], t)}
           first == CHOOSE i \in fits : \A j \in fits : i <= j
           order == MakeOrder(trade.id, trade.sequence, t)
           new == AddTrade(plan, trade, t)
<1>1. /\ plan.orders \in Seq(TradeOrder) /\ plan.gate \in Nat
      /\ trade.id \in Trades /\ trade.sequence \in Nat
  BY DEF Plan, TradeInfo
<1>2. CASE fits # {}
  <2>1. first \in fits
    <3>1. fits \in SUBSET Nat
      BY <1>1, LenProperties
    <3> HIDE DEF fits
    <3>2. \E i \in fits : \A j \in fits : i <= j
      BY <1>2, <3>1, NatMin
    <3>. QED
      BY <3>2
  <2>2. new = [plan EXCEPT !.orders[first] = Join(trade.id, trade.sequence, @)]
    BY <1>2 DEF AddTrade
  <2> HIDE DEF first
  <2>3. /\ new.orders = [plan.orders EXCEPT ![first] = Join(trade.id, trade.sequence, @)]
        /\ new.gate = plan.gate /\ new = [orders |-> new.orders, gate |-> new.gate]
    BY <2>2 DEF Plan
  <2>4. Joined(plan, first, trade, t, new)
    BY <2>1, <2>3 DEF Joined
  <2>5. new.orders \in Seq(TradeOrder)
    <3>1. first \in 1..Len(plan.orders) /\ plan.orders[first] \in TradeOrder
      BY <1>1, <2>1
    <3>2. Join(trade.id, trade.sequence, plan.orders[first]) \in TradeOrder
      BY <1>1, <3>1, JoinType DEF HasJoined
    <3>. QED
      BY <1>1, <2>3, <3>1, <3>2, ExceptSeq
  <2>. QED
    BY <1>1, <2>1, <2>3, <2>4, <2>5 DEF Plan
<1>3. CASE fits = {}
  <2>1. new = [orders |-> Append(plan.orders, order),
               gate |-> IF plan.gate = 0 \/ plan.gate > order.timeToExecute
                        THEN order.timeToExecute ELSE plan.gate]
    BY <1>3 DEF AddTrade
  <2>2. order \in TradeOrder
    BY <1>1, MakeOrderType
  <2>3. order.timeToExecute \in Nat
    BY <2>2 DEF TradeOrder
  <2>4. Append(plan.orders, order) \in Seq(TradeOrder)
    BY <1>1, <2>2
  <2>. QED
    BY <1>1, <2>1, <2>3, <2>4 DEF Plan, Opened
<1>. QED
  BY <1>2, <1>3

LEMMA JoinedOK ==
  ASSUME NEW plan, NEW len \in Nat, NEW P \in SUBSET Trades, NEW d \in [Trades -> Nat],
         NEW t \in Nat, 1 <= t, NEW bg \in Nat, bg <= t, PlanOK(plan, len, P, d, t, bg),
         NEW trade \in TradeInfo, trade.id \in P, trade.sequence < len,
         d[trade.id] <= TradeSchedule(trade.id, t),
         NEW i \in DOMAIN plan.orders, NEW new \in Plan, Joined(plan, i, trade, t, new)
  PROVE  PlanOK(new, len, P, d, t, bg)
<1> DEFINE a == plan.orders
           z == new.orders
           g == trade.id
           s == trade.sequence
<1>1. /\ a \in Seq(TradeOrder) /\ DOMAIN a = 1..Len(a) /\ Len(a) \in Nat
      /\ g \in Trades /\ s \in Nat /\ plan.gate \in Nat
      /\ \A j \in DOMAIN a : a[j] \in TradeOrder
      /\ z \in Seq(TradeOrder)
      /\ g \in P /\ s < len /\ d[g] <= TradeSchedule(g, t)
      /\ i \in DOMAIN a /\ OrdersOK(a, len, P, d, t) /\ GateOK(a, plan.gate, t, bg)
  BY LenProperties DEF PlanOK, Plan, TradeInfo
<1>2. /\ new.gate = plan.gate /\ z = [a EXCEPT ![i] = Join(g, s, a[i])]
      /\ TradeSchedule(g, t) < a[i].timeToExecute
  BY DEF Joined, Matches
<1>3. /\ DOMAIN z = DOMAIN a /\ z[i] = Join(g, s, a[i])
      /\ \A j \in DOMAIN a : j # i => z[j] = a[j]
  BY <1>1, <1>2
<1> HIDE DEF a, z, g, s
<1>4. /\ z[i] \in TradeOrder /\ z[i].timeToExecute = a[i].timeToExecute
      /\ z[i].amount >= a[i].amount /\ z[i].parts = a[i].parts \cup {g}
      /\ z[i].trades = Append(a[i].trades, s)
  <2>1. a[i] \in TradeOrder /\ g \in Trades /\ s \in Nat
    BY <1>1
  <2>2. HasJoined(g, s, a[i], Join(g, s, a[i]))
    BY <2>1, JoinType
  <2>. QED
    BY <1>3, <2>2 DEF HasJoined
<1>5. /\ OrderOK(a[i], len, P, d) /\ a[i].timeToExecute <= ScheduleTime(t)
      /\ a[i].timeToExecute \in Nat /\ a[i].trades \in Seq(Nat)
      /\ a[i].amount \in Nat /\ z[i].amount \in Nat
  BY <1>1, <1>4 DEF OrdersOK, TradeOrder
<1>6. t <= TradeSchedule(g, t) /\ TradeSchedule(g, t) \in Nat /\ d[g] \in Nat
  BY <1>1, TradeScheduleIs
<1>7. d[g] <= a[i].timeToExecute /\ bg < a[i].timeToExecute /\ t < a[i].timeToExecute
  BY <1>1, <1>2, <1>5, <1>6
<1>8. OrderOK(z[i], len, P, d)
  <2>1. \A k \in DOMAIN z[i].trades : z[i].trades[k] < len
    <3>1. DOMAIN z[i].trades = 1..Len(a[i].trades) + 1 /\ Len(a[i].trades) \in Nat
      BY <1>1, <1>4, <1>5, AppendIs
    <3>2. z[i].trades[Len(a[i].trades) + 1] = s
      BY <1>1, <1>4, <1>5, AppendIs
    <3>3. \A k \in 1..Len(a[i].trades) : z[i].trades[k] = a[i].trades[k] /\ a[i].trades[k] < len
      BY <1>1, <1>4, <1>5, AppendIs DEF OrderOK
    <3>4. \A k \in DOMAIN z[i].trades :
            k \in 1..Len(a[i].trades) \/ k = Len(a[i].trades) + 1
      BY <3>1
    <3>. QED
      BY <1>1, <3>2, <3>3, <3>4
  <2>2. z[i].parts \subseteq P /\ \A h \in z[i].parts : d[h] <= z[i].timeToExecute
    BY <1>1, <1>4, <1>5, <1>7 DEF OrderOK
  <2>. QED
    BY <1>4, <1>5, <2>1, <2>2 DEF OrderOK
<1>9. OrdersOK(z, len, P, d, t)
  BY <1>1, <1>3, <1>4, <1>5, <1>8 DEF OrdersOK
<1>10. GateOK(z, new.gate, t, bg)
  <2>1. GateOK(a, new.gate, t, bg) /\ new.gate \in Nat
    BY <1>1, <1>2
  <2>2. new.gate \in 0..ScheduleTime(t) /\ new.gate # 0
    <3>1. a # <<>>
      BY <1>1
    <3>. QED
      BY <2>1, <3>1 DEF GateOK
  <2>3. \A j \in DOMAIN a : /\ z[j].timeToExecute = a[j].timeToExecute
                           /\ z[j].timeToExecute \in Nat
    BY <1>1, <1>3, <1>4 DEF TradeOrder
  <2>4. ASSUME NEW j \in DOMAIN z, z[j].amount >= Minimum
        PROVE  new.gate <= ScheduleTime(z[j].timeToExecute)
    <3>1. CASE j = i
      <4>1. /\ ScheduleTime(t) \in Nat /\ ScheduleTime(z[i].timeToExecute) \in Nat
            /\ ScheduleTime(t) <= ScheduleTime(z[i].timeToExecute)
        <5>1. z[i].timeToExecute \in Nat /\ t <= z[i].timeToExecute
          BY <1>4, <1>5, <1>7
        <5>. QED
          BY <5>1, NextMultiple, ScheduleGrows
      <4>. QED
        BY <2>1, <2>2, <3>1, <4>1
    <3>2. CASE j # i
      BY <1>3, <2>1, <2>4, <3>2 DEF GateOK
    <3>. QED
      BY <3>1, <3>2
  <2>5. ASSUME NEW j \in DOMAIN a, OverdueSmall(a[j], bg) PROVE OverdueSmall(z[j], bg)
    <3>1. j # i
      BY <1>5, <1>7, <2>5 DEF OverdueSmall
    <3>. QED
      BY <1>3, <2>5, <3>1
  <2>6. ASSUME NEW j \in DOMAIN z
        PROVE  \/ new.gate <= z[j].timeToExecute
               \/ \E k \in DOMAIN z : OverdueSmall(z[k], bg)
    BY <1>3, <2>1, <2>3, <2>5 DEF GateOK
  <2>. QED
    BY <2>2, <2>4, <2>6 DEF GateOK
<1>. QED
  BY <1>9, <1>10 DEF PlanOK, z

LEMMA OpenedOK ==
  ASSUME NEW plan, NEW len \in Nat, NEW P \in SUBSET Trades, NEW d \in [Trades -> Nat],
         NEW t \in Nat, 1 <= t, NEW bg \in Nat, PlanOK(plan, len, P, d, t, bg),
         NEW trade \in TradeInfo, trade.id \in P, trade.sequence < len,
         d[trade.id] <= TradeSchedule(trade.id, t),
         NEW new \in Plan, Opened(plan, trade, t, new)
  PROVE  PlanOK(new, len, P, d, t, bg)
<1> DEFINE a == plan.orders
           z == new.orders
           g == trade.id
           s == trade.sequence
           o == MakeOrder(g, s, t)
           n == Len(a)
<1>1. /\ a \in Seq(TradeOrder) /\ DOMAIN a = 1..n /\ n \in Nat
      /\ g \in Trades /\ s \in Nat /\ plan.gate \in Nat
      /\ \A j \in DOMAIN a : a[j] \in TradeOrder
      /\ z \in Seq(TradeOrder)
      /\ g \in P /\ s < len /\ d[g] <= TradeSchedule(g, t)
      /\ OrdersOK(a, len, P, d, t) /\ GateOK(a, plan.gate, t, bg)
  BY LenProperties DEF PlanOK, Plan, TradeInfo
<1>2. /\ o \in TradeOrder /\ o.timeToExecute = TradeSchedule(g, t)
      /\ o.parts = {g} /\ o.trades = <<s>>
  BY <1>1, MakeOrderType DEF MakeOrder
<1>3. /\ z = Append(a, o)
      /\ new.gate = IF plan.gate = 0 \/ plan.gate > o.timeToExecute
                    THEN o.timeToExecute ELSE plan.gate
  BY DEF Opened
<1> HIDE DEF a, z, g, s, o
<1>4. /\ o.timeToExecute \in Nat /\ t <= o.timeToExecute
      /\ o.timeToExecute <= ScheduleTime(t) /\ 1 <= o.timeToExecute
      /\ ScheduleTime(t) \in Nat
      /\ o.timeToExecute <= ScheduleTime(o.timeToExecute)
      /\ ScheduleTime(o.timeToExecute) \in Nat
  <2>1. /\ o.timeToExecute \in Nat /\ t <= o.timeToExecute
        /\ o.timeToExecute <= ScheduleTime(t)
    BY <1>1, <1>2, TradeScheduleIs
  <2>2. /\ ScheduleTime(t) \in Nat /\ ScheduleTime(o.timeToExecute) \in Nat
        /\ o.timeToExecute < ScheduleTime(o.timeToExecute)
    BY <2>1, NextMultiple
  <2>. QED
    BY <2>1, <2>2
<1>5. OrderOK(o, len, P, d)
  BY <1>1, <1>2, <1>4 DEF OrderOK
<1>6. /\ DOMAIN z = 1..n + 1 /\ z[n + 1] = o
      /\ \A j \in 1..n : z[j] = a[j]
  BY <1>1, <1>2, <1>3, AppendIs
<1>n. n = Len(a)
  OBVIOUS
<1> HIDE DEF n
<1>7. \A j \in 1..n + 1 : j \in 1..n \/ j = n + 1
  BY <1>1
<1>8. OrdersOK(z, len, P, d, t)
  BY <1>1, <1>4, <1>5, <1>6, <1>7 DEF OrdersOK
<1>9. GateOK(z, new.gate, t, bg)
  <2>1. GateOK(a, plan.gate, t, bg)
    BY <1>1
  <2>2. new.gate \in 1..ScheduleTime(t) /\ new.gate <= o.timeToExecute
    BY <1>1, <1>3, <1>4, <2>1 DEF GateOK
  <2>3. ASSUME NEW j \in 1..n PROVE new.gate <= plan.gate
    <3>1. a # <<>> /\ plan.gate # 0
      <4>1. a # <<>>
        BY <1>1, <1>n, <2>3
      <4>. QED
        BY <2>1, <4>1 DEF GateOK
    <3>. QED
      BY <1>1, <1>3, <1>4, <3>1
  <2>4. ASSUME NEW j \in DOMAIN z, z[j].amount >= Minimum
        PROVE  new.gate <= ScheduleTime(z[j].timeToExecute)
    <3>1. CASE j = n + 1
      BY <1>4, <1>6, <2>2, <3>1
    <3>2. CASE j \in 1..n
      <4>1. plan.gate <= ScheduleTime(a[j].timeToExecute) /\ z[j] = a[j]
        BY <1>1, <1>6, <2>1, <2>4, <3>2 DEF GateOK
      <4>2. a[j].timeToExecute \in Nat
        BY <1>1, <3>2 DEF TradeOrder
      <4>3. ScheduleTime(a[j].timeToExecute) \in Nat
        BY <4>2, NextMultiple
      <4>4. new.gate <= plan.gate /\ new.gate \in Nat
        BY <2>2, <2>3, <3>2
      <4>. QED
        BY <1>1, <4>1, <4>3, <4>4
    <3>. QED
      BY <1>6, <1>7, <3>1, <3>2
  <2>5. ASSUME NEW j \in DOMAIN z
        PROVE  \/ new.gate <= z[j].timeToExecute
               \/ \E k \in DOMAIN z : OverdueSmall(z[k], bg)
    <3>1. CASE j = n + 1
      BY <1>6, <2>2, <3>1
    <3>2. CASE j \in 1..n
      <4>1. z[j] = a[j] /\ a[j].timeToExecute \in Nat /\ new.gate <= plan.gate
            /\ new.gate \in Nat /\ plan.gate \in Nat
        <5>1. z[j] = a[j] /\ a[j].timeToExecute \in Nat
          BY <1>1, <1>6, <3>2 DEF TradeOrder
        <5>2. new.gate <= plan.gate /\ new.gate \in Nat /\ plan.gate \in Nat
          BY <1>1, <2>2, <2>3, <3>2
        <5>. QED
          BY <5>1, <5>2
      <4>2. CASE plan.gate <= a[j].timeToExecute
        BY <4>1, <4>2
      <4>3. ASSUME NEW k \in DOMAIN a, OverdueSmall(a[k], bg)
            PROVE  \E l \in DOMAIN z : OverdueSmall(z[l], bg)
        <5>1. k \in DOMAIN z /\ z[k] = a[k]
          BY <1>1, <1>6
        <5>. QED
          BY <4>3, <5>1
      <4>. QED
        BY <1>1, <2>1, <3>2, <4>2, <4>3 DEF GateOK
    <3>. QED
      BY <1>6, <1>7, <3>1, <3>2
  <2>6. new.gate \in 0..ScheduleTime(t) /\ new.gate # 0
    BY <2>2
  <2>. QED
    BY <2>4, <2>5, <2>6 DEF GateOK
<1>. QED
  BY <1>8, <1>9 DEF PlanOK, z

LEMMA AddTradeOK ==
  ASSUME NEW plan, NEW len \in Nat, NEW P \in SUBSET Trades, NEW d \in [Trades -> Nat],
         NEW t \in Nat, 1 <= t, NEW bg \in Nat, bg <= t, PlanOK(plan, len, P, d, t, bg),
         NEW trade \in TradeInfo, trade.id \in P, trade.sequence < len,
         d[trade.id] <= TradeSchedule(trade.id, t)
  PROVE  PlanOK(AddTrade(plan, trade, t), len, P, d, t, bg)
<1>1. plan \in Plan
  BY DEF PlanOK
<1>2. AddTrade(plan, trade, t) \in Plan
  BY <1>1, AddTradeIs
<1>3. CASE Opened(plan, trade, t, AddTrade(plan, trade, t))
  BY <1>2, <1>3, OpenedOK
<1>4. ASSUME NEW i \in DOMAIN plan.orders, Joined(plan, i, trade, t, AddTrade(plan, trade, t))
      PROVE  PlanOK(AddTrade(plan, trade, t), len, P, d, t, bg)
  BY <1>2, <1>4, JoinedOK
<1>. QED
  BY <1>1, <1>3, <1>4, AddTradeIs

\* Start: bundling the trades of the book that are not placed.
LEMMA BundledOK ==
  ASSUME NEW n \in Nat, NEW P \in SUBSET Trades, NEW d \in [Trades -> Nat],
         NEW b, BookOK(b, P, n), \A i \in 1..n : b[i].sequence < n,
         NEW t \in Nat, 1 <= t, \A g \in P : d[g] <= TradeSchedule(g, t)
  PROVE  PlanOK(Bundled(b, t), n, P, d, t, 0)
<1> DEFINE S == {p \in Plan : PlanOK(p, n, P, d, t, 0)}
           none == [orders |-> <<>>, gate |-> 0]
           Trade(k) == b[Len(b) - k + 1]
           Next1(p, k) == IF Trade(k).status \in {"noStatus", "recorded"}
                          THEN AddTrade(p, Trade(k), t) ELSE p
           plan == CHOOSE plan : plan = [k \in 0..Len(b) |->
                     IF k = 0 THEN [orders |-> <<>>, gate |-> 0]
                     ELSE LET trade == b[Len(b) - k + 1]
                          IN IF trade.status \in {"noStatus", "recorded"}
                             THEN AddTrade(plan[k - 1], trade, t) ELSE plan[k - 1]]
<1>1. b \in Seq(TradeInfo) /\ Len(b) = n /\ \A i \in 1..n : b[i] \in TradeInfo /\ b[i].id \in P
  BY LenProperties DEF BookOK
<1>2. none \in S
  <2>1. ScheduleTime(t) \in Nat
    BY NextMultiple
  <2>2. none \in Plan /\ none.orders = <<>> /\ none.gate = 0 /\ DOMAIN none.orders = {}
    BY EmptySeq DEF Plan
  <2> HIDE DEF none
  <2>3. OrdersOK(none.orders, n, P, d, t)
    BY <2>2 DEF OrdersOK, Plan
  <2>4. GateOK(none.orders, none.gate, t, 0)
    BY <2>1, <2>2 DEF GateOK
  <2>. QED
    BY <2>2, <2>3, <2>4 DEF PlanOK
<1>3. ASSUME NEW p \in S, NEW k \in 1..n PROVE Next1(p, k) \in S
  <2>1. n - k + 1 \in 1..n
    OBVIOUS
  <2>2. /\ Trade(k) \in TradeInfo /\ Trade(k).id \in P /\ Trade(k).sequence < n
        /\ d[Trade(k).id] <= TradeSchedule(Trade(k).id, t)
    BY <1>1, <2>1
  <2> HIDE DEF Trade
  <2>3. PlanOK(AddTrade(p, Trade(k), t), n, P, d, t, 0)
    BY <2>2, AddTradeOK
  <2>. QED
    BY <2>3 DEF PlanOK
<1> DEFINE step == [k \in 1..n |-> [p \in S |-> Next1(p, k)]]
<1>b. \A p \in S : PlanOK(p, n, P, d, t, 0)
  OBVIOUS
<1>c. Bundled(b, t) = plan[Len(b)]
  BY DEF Bundled
<1>d. plan = CHOOSE f : f = [k \in 0..n |-> IF k = 0 THEN none ELSE Next1(f[k - 1], k)]
  BY <1>1
<1> HIDE DEF S, Next1, none, plan
<1>4. step \in [1..n -> [S -> S]]
  BY <1>3
<1>5. PICK f \in [0..n -> S] : Solves(f, n, none, step)
  <2> HIDE DEF step
  <2>. QED
    BY <1>2, <1>4, Recursion
<1>6. ASSUME NEW k \in 0..n, k # 0 PROVE step[k][f[k - 1]] = Next1(f[k - 1], k)
  <2>1. k \in 1..n /\ f[k - 1] \in S
    BY <1>6
  <2>. QED
    BY <2>1
<1>7. f = [k \in 0..n |-> IF k = 0 THEN none ELSE Next1(f[k - 1], k)]
  BY <1>5, <1>6 DEF Solves
<1>8. plan = [k \in 0..n |-> IF k = 0 THEN none ELSE Next1(plan[k - 1], k)]
  BY <1>d, <1>7
<1> HIDE DEF step
<1>9. \A k \in 0..n : plan[k] \in S
  <2>1. plan[0] \in S
    BY <1>2, <1>8
  <2>2. ASSUME NEW k \in 1..n, plan[k - 1] \in S PROVE plan[k] \in S
    <3>1. plan[k] = Next1(plan[k - 1], k)
      BY <1>8
    <3>. QED
      BY <1>3, <2>2, <3>1
  <2>. QED
    BY <2>1, <2>2, Carried
<1>. QED
  BY <1>1, <1>9, <1>b, <1>c

-----------------------------------------------------------------------------
(* The invariant *)

LEMMA OrdersGrow ==
  ASSUME NEW orders, NEW len \in Nat, NEW len2 \in Nat, len <= len2,
         NEW P \in SUBSET Trades, NEW P2 \in SUBSET Trades, P \subseteq P2,
         NEW d, NEW d2, \A g \in P : d2[g] = d[g],
         NEW t \in Nat, NEW u \in Nat, t <= u, OrdersOK(orders, len, P, d, t)
  PROVE  OrdersOK(orders, len2, P2, d2, u)
<1>1. /\ ScheduleTime(t) \in Nat /\ ScheduleTime(u) \in Nat
      /\ ScheduleTime(t) <= ScheduleTime(u)
  BY NextMultiple, ScheduleGrows
<1>2. ASSUME NEW i \in DOMAIN orders
      PROVE  OrderOK(orders[i], len2, P2, d2) /\ orders[i].timeToExecute <= ScheduleTime(u)
  <2>1. OrderOK(orders[i], len, P, d) /\ orders[i].timeToExecute <= ScheduleTime(t)
    BY DEF OrdersOK
  <2>2. orders[i].timeToExecute \in Nat /\ orders[i].trades \in Seq(Nat)
    BY <2>1 DEF OrderOK, TradeOrder
  <2>3. \A k \in DOMAIN orders[i].trades : orders[i].trades[k] < len2
    <3>1. \A k \in DOMAIN orders[i].trades : orders[i].trades[k] \in Nat
      BY <2>2
    <3>. QED
      BY <2>1, <3>1 DEF OrderOK
  <2>4. \A g \in orders[i].parts : d2[g] <= orders[i].timeToExecute
    BY <2>1 DEF OrderOK
  <2>. QED
    BY <1>1, <2>1, <2>2, <2>3, <2>4 DEF OrderOK
<1>. QED
  BY <1>2 DEF OrdersOK

LEMMA GateGrows ==
  ASSUME NEW orders, NEW g, NEW t \in Nat, NEW u \in Nat, t <= u, NEW bg,
         GateOK(orders, g, t, bg)
  PROVE  GateOK(orders, g, u, bg)
<1>1. /\ ScheduleTime(t) \in Nat /\ ScheduleTime(u) \in Nat
      /\ ScheduleTime(t) <= ScheduleTime(u)
  BY NextMultiple, ScheduleGrows
<1>2. g \in 0..ScheduleTime(u)
  BY <1>1 DEF GateOK
<1>. QED
  BY <1>2 DEF GateOK

LEMMA Constants ==
  /\ MaxTime \in Nat /\ MaxCrashes \in Nat /\ MaxSent \in Nat /\ Minimum \in Nat
  /\ Amount \in [Trades -> Nat]
BY ConstantsOK DEF ConstantsOK

LEMMA InitOK == Init => IInv
<1> SUFFICES ASSUME Init PROVE IInv
  OBVIOUS
<1>1. /\ book = <<>> /\ pending = <<>> /\ sent = <<>> /\ gate = 0 /\ cursor = 0
      /\ began = 0 /\ clock = 1 /\ placed = {} /\ due \in [Trades -> Nat] /\ crashes = 0
  BY DEF Init
<1>2. /\ <<>> \in Seq(TradeInfo) /\ <<>> \in Seq(TradeOrder) /\ <<>> \in Seq(SentOrder)
      /\ Len(<<>>) = 0 /\ DOMAIN <<>> = {}
  BY EmptySeq
<1>3. TypeOK
  <2>1. 1 \in 1..MaxTime /\ 0 \in 0..MaxTime /\ 0 \in 0..MaxCrashes
    BY ConstantsOK DEF ConstantsOK
  <2>2. 0 \in 0..(0 + 1)
    OBVIOUS
  <2>. QED
    BY <1>1, <1>2, <2>1, <2>2 DEF TypeOK
<1>4. ScheduleTime(1) \in Nat
  BY NextMultiple
<1>5. GateOK(pending, gate, clock, began)
  BY <1>1, <1>2, <1>4 DEF GateOK
<1>6. OneOrder
  BY <1>1, <1>2 DEF OneOrder
<1>. QED
  BY <1>1, <1>2, <1>3, <1>5, <1>6 DEF IInv, BookOK, OrdersOK, SentOK, DueOK

LEMMA RestartKeeps ==
  ASSUME TypeOK, NEW n \in Nat, NEW b, NEW orders, Restart(b, orders),
         placed' \subseteq Trades, due' \in [Trades -> Nat],
         BookOK(b, placed', n), SentOK(orders, placed', due'), DueOK(placed', due', clock)
  PROVE  IInv'
<1>1. /\ clock' = clock /\ clock \in Nat /\ 1 <= clock /\ clock \in 1..MaxTime
      /\ cursor' = 0 /\ began' = 0
      /\ book' = Reread(b)
      /\ pending' = Bundled(book', clock).orders /\ gate' = Bundled(book', clock).gate
      /\ crashes \in 0..MaxCrashes /\ crashes < MaxCrashes /\ crashes' = crashes + 1
  BY Constants DEF Restart, TypeOK
<1>2. BookOK(book', placed', n) /\ \A i \in 1..n : book'[i].sequence < n
  BY <1>1, RereadBook
<1>3. PlanOK(Bundled(book', clock), n, placed', due', clock, 0)
  BY <1>1, <1>2, BundledOK DEF DueOK
<1>4. /\ book' \in Seq(TradeInfo) /\ Len(book') = n
      /\ pending' \in Seq(TradeOrder) /\ gate' \in Nat
      /\ OrdersOK(pending', n, placed', due', clock)
      /\ GateOK(pending', gate', clock, 0)
  BY <1>1, <1>2, <1>3 DEF PlanOK, Plan, BookOK
<1>5. SentOK(sent', placed', due')
  <2>1. PICK opened : sent' = [m \in DOMAIN orders |->
                    IF orders[m].stage = "completed" THEN orders[m]
                    ELSE [orders[m] EXCEPT !.stage = IF m \in opened THEN "open" ELSE "idle"]]
    BY DEF Restart
  <2>2. orders \in Seq(SentOrder) /\ Len(orders) \in Nat /\ DOMAIN orders = 1..Len(orders)
    BY LenProperties DEF SentOK
  <2>3. ASSUME NEW m \in DOMAIN orders
        PROVE  /\ sent'[m] \in SentOrder /\ sent'[m].parts = orders[m].parts
               /\ sent'[m].amount = orders[m].amount /\ sent'[m].time = orders[m].time
    <3>1. orders[m] \in SentOrder
      BY <2>2
    <3>. QED
      BY <2>1, <3>1 DEF SentOrder
  <2>4. sent' \in [1..Len(orders) -> SentOrder]
    BY <2>1, <2>2, <2>3
  <2>5. sent' \in Seq(SentOrder) /\ DOMAIN sent' = DOMAIN orders
    BY <2>2, <2>4, SeqDef
  <2>. QED
    BY <2>3, <2>5 DEF SentOK
<1>6. TypeOK'
  <2>1. 0 \in 0..(Len(pending') + 1)
    BY <1>4, LenProperties
  <2>2. 0 \in 0..MaxTime /\ crashes' \in 0..MaxCrashes
    BY <1>1, Constants
  <2>. QED
    BY <1>1, <1>4, <1>5, <2>1, <2>2 DEF TypeOK, SentOK
<1>7. crashes' # 0 /\ ~(cursor' > 0) /\ began' <= clock'
  BY <1>1
<1>. QED
  BY <1>1, <1>2, <1>4, <1>5, <1>6, <1>7 DEF IInv, DueOK

\* The broker's record of an order that is ready.
LEMMA RecordedOK ==
  ASSUME IInv, cursor \in DOMAIN pending, Ready(pending[cursor]), NEW opened \in BOOLEAN
  PROVE  LET order == pending[cursor]
             rec == [amount |-> order.amount, parts |-> order.parts, time |-> clock,
                     stage |-> IF opened THEN "open" ELSE "idle"]
         IN  /\ Recorded(order, opened) = Append(sent, rec)
             /\ rec \in SentOrder
             /\ SentOK(Recorded(order, opened), placed, due)
             /\ Listed(order.trades, Len(book))
<1> DEFINE order == pending[cursor]
           rec == [amount |-> order.amount, parts |-> order.parts, time |-> clock,
                   stage |-> IF opened THEN "open" ELSE "idle"]
<1>1. /\ OrderOK(order, Len(book), placed, due) /\ clock \in Nat
      /\ order.timeToExecute < clock /\ order.amount >= Minimum
      /\ SentOK(sent, placed, due) /\ due \in [Trades -> Nat] /\ placed \subseteq Trades
  BY Constants DEF IInv, OrdersOK, Ready, TypeOK
<1>2. /\ order.amount \in Nat /\ order.parts \in SUBSET Trades
      /\ order.timeToExecute \in Nat /\ order.trades \in Seq(Nat)
  BY <1>1 DEF OrderOK, TradeOrder
<1>3. Recorded(order, opened) = Append(sent, rec)
  BY DEF Recorded
<1>4. rec \in SentOrder
  BY <1>1, <1>2 DEF SentOrder
<1>5. rec.parts = order.parts /\ rec.amount = order.amount /\ rec.time = clock
  OBVIOUS
<1>6. \A g \in order.parts : due[g] < clock
  BY <1>1, <1>2 DEF OrderOK
<1>l. Listed(order.trades, Len(book))
  BY <1>1, <1>2 DEF Listed, OrderOK
<1> HIDE DEF rec, order
<1>7. SentOK(Append(sent, rec), placed, due)
  <2>1. sent \in Seq(SentOrder)
    BY <1>1 DEF SentOK
  <2>2. /\ Append(sent, rec) \in Seq(SentOrder)
        /\ Append(sent, rec)[Len(sent) + 1] = rec
        /\ DOMAIN sent = 1..Len(sent) /\ DOMAIN Append(sent, rec) = 1..Len(sent) + 1
        /\ \A n \in 1..Len(sent) : Append(sent, rec)[n] = sent[n]
        /\ Len(sent) \in Nat
    BY <1>4, <2>1, AppendIs
  <2>3. \A n \in 1..Len(sent) + 1 : n \in 1..Len(sent) \/ n = Len(sent) + 1
    BY <2>2
  <2>4. rec.parts \subseteq placed
    BY <1>1, <1>5 DEF OrderOK
  <2>. QED
    BY <1>1, <1>5, <1>6, <2>2, <2>3, <2>4 DEF SentOK
<1>. QED
  BY <1>3, <1>4, <1>7, <1>l DEF rec, order

\* One of the orders has trade g besides what it had, or alone.
Bundles(old, new, g) ==
    /\ DOMAIN old \subseteq DOMAIN new
    /\ \E i \in DOMAIN new :
        /\ g \in new[i].parts
        /\ \A j \in DOMAIN new \ {i} : j \in DOMAIN old /\ new[j].parts = old[j].parts
        /\ \/ i \notin DOMAIN old /\ new[i].parts = {g}
           \/ i \in DOMAIN old /\ new[i].parts = old[i].parts \cup {g}

LEMMA AddTradeParts ==
  ASSUME NEW plan \in Plan, NEW trade \in TradeInfo, NEW t \in Nat
  PROVE  Bundles(plan.orders, AddTrade(plan, trade, t).orders, trade.id)
<1> DEFINE old == plan.orders
           add == AddTrade(plan, trade, t)
           new == add.orders
           order == MakeOrder(trade.id, trade.sequence, t)
<1>1. /\ old \in Seq(TradeOrder) /\ DOMAIN old = 1..Len(old) /\ Len(old) \in Nat
      /\ trade.id \in Trades /\ trade.sequence \in Nat
  BY LenProperties DEF Plan, TradeInfo
<1>2. CASE Opened(plan, trade, t, add)
  <2>1. new = Append(old, order)
    BY <1>2 DEF Opened
  <2>2. order \in TradeOrder /\ order.parts = {trade.id}
    BY <1>1, MakeOrderType DEF MakeOrder
  <2> HIDE DEF old, new, order
  <2>3. /\ DOMAIN new = 1..Len(old) + 1 /\ new[Len(old) + 1] = order
        /\ \A j \in 1..Len(old) : new[j] = old[j]
    BY <1>1, <2>1, <2>2, AppendIs
  <2>4. Len(old) + 1 \notin 1..Len(old) /\ \A j \in 1..Len(old) + 1 : j # Len(old) + 1 => j \in 1..Len(old)
    BY <1>1
  <2> DEFINE i == Len(old) + 1
  <2>5. i \in DOMAIN new /\ i \notin DOMAIN old /\ new[i].parts = {trade.id}
    BY <1>1, <2>2, <2>3, <2>4
  <2>6. \A j \in DOMAIN new \ {i} : j \in DOMAIN old /\ new[j].parts = old[j].parts
    BY <1>1, <2>3, <2>4
  <2>7. DOMAIN old \subseteq DOMAIN new
    BY <1>1, <2>3
  <2> HIDE DEF i
  <2>. QED
    BY <2>5, <2>6, <2>7 DEF Bundles, old, new
<1>3. ASSUME NEW i \in DOMAIN old, Joined(plan, i, trade, t, add)
      PROVE  /\ DOMAIN new = DOMAIN old
             /\ \A j \in DOMAIN new \ {i} : new[j].parts = old[j].parts
             /\ new[i].parts = old[i].parts \cup {trade.id}
  <2>1. new = [old EXCEPT ![i] = Join(trade.id, trade.sequence, old[i])]
    BY <1>3 DEF Joined
  <2>2. old[i] \in TradeOrder
    BY <1>1
  <2>3. Join(trade.id, trade.sequence, old[i]).parts = old[i].parts \cup {trade.id}
    BY <2>2 DEF Join, TradeOrder
  <2>. QED
    BY <2>1, <2>3
<1> HIDE DEF old, new
<1>4. ASSUME NEW i \in DOMAIN old, Joined(plan, i, trade, t, add)
      PROVE  /\ DOMAIN old \subseteq DOMAIN new
             /\ i \in DOMAIN new /\ trade.id \in new[i].parts
             /\ \A j \in DOMAIN new \ {i} : j \in DOMAIN old /\ new[j].parts = old[j].parts
             /\ i \in DOMAIN old /\ new[i].parts = old[i].parts \cup {trade.id}
  BY <1>3, <1>4
<1>. QED
  BY <1>2, <1>4, AddTradeIs DEF Bundles, old, new

LEMMA PlaceOne ==
  ASSUME IInv, NEW g \in Trades, PlaceTrade(g), OneOrder
  PROVE  OneOrder'
<1> DEFINE trade == NewTrade(g)
           plan == [orders |-> pending, gate |-> gate]
           add == AddTrade(plan, trade, clock)
<1>1. /\ g \notin placed /\ placed' = placed \cup {g} /\ pending' = add.orders /\ sent' = sent
  BY DEF PlaceTrade
<1>2. /\ plan \in Plan /\ plan.orders = pending /\ trade \in TradeInfo /\ trade.id = g
      /\ clock \in Nat
  BY Constants DEF Plan, NewTrade, TradeInfo, Statuses, IInv, TypeOK
<1> HIDE DEF plan, trade
<1>b. Bundles(plan.orders, AddTrade(plan, trade, clock).orders, trade.id)
  BY <1>2, AddTradeParts
<1>3. Bundles(pending, pending', g)
  BY <1>1, <1>2, <1>b
<1>4. PICK i \in DOMAIN pending' :
        /\ g \in pending'[i].parts
        /\ \A j \in DOMAIN pending' \ {i} :
                j \in DOMAIN pending /\ pending'[j].parts = pending[j].parts
        /\ \/ i \notin DOMAIN pending /\ pending'[i].parts = {g}
           \/ i \in DOMAIN pending /\ pending'[i].parts = pending[i].parts \cup {g}
  BY <1>3 DEF Bundles
<1>5. /\ \A j \in DOMAIN pending : g \notin pending[j].parts
      /\ \A n \in DOMAIN sent : g \notin sent[n].parts
  BY <1>1 DEF IInv, OrdersOK, OrderOK, SentOK
<1>6. ASSUME NEW j \in DOMAIN pending', NEW h \in pending'[j].parts
      PROVE  \/ h = g /\ j = i
             \/ h # g /\ j \in DOMAIN pending /\ h \in pending[j].parts
  BY <1>4, <1>5, <1>6
<1>7. \A j \in DOMAIN pending : \A h \in pending[j].parts : h \in pending'[j].parts
  BY <1>3, <1>4 DEF Bundles
<1>8. \A j, k \in DOMAIN pending' : \A h \in pending'[j].parts \cap pending'[k].parts : j = k
  BY <1>6 DEF OneOrder
<1>9. \A j \in DOMAIN pending', n \in DOMAIN sent' :
        Taken(n)' => pending'[j].parts \cap sent'[n].parts = {}
  BY <1>1, <1>5, <1>6 DEF OneOrder, Taken
<1>10. \A h \in placed' : \/ \E j \in DOMAIN pending' : h \in pending'[j].parts
                        \/ \E n \in DOMAIN sent' : Taken(n)' /\ h \in sent'[n].parts
  <2> SUFFICES ASSUME NEW h \in placed'
               PROVE  \/ \E j \in DOMAIN pending' : h \in pending'[j].parts
                      \/ \E n \in DOMAIN sent' : Taken(n)' /\ h \in sent'[n].parts
    OBVIOUS
  <2>1. CASE h = g
    BY <1>4, <2>1
  <2>2. CASE h \in placed
    BY <1>1, <1>3, <1>7, <2>2 DEF Bundles, OneOrder, Taken
  <2>. QED
    BY <1>1, <2>1, <2>2
<1>. QED
  BY <1>1, <1>8, <1>9, <1>10 DEF OneOrder, Taken

LEMMA PlaceKeeps == ASSUME IInv, NEW g \in Trades, PlaceTrade(g) PROVE IInv'
<1> DEFINE trade == NewTrade(g)
           entry == [trade EXCEPT !.status = "recorded"]
           plan == [orders |-> pending, gate |-> gate]
           add == AddTrade(plan, trade, clock)
           P == placed \cup {g}
           d == [due EXCEPT ![g] = TradeSchedule(g, clock)]
           n == Len(book) + 1
           b == Append(book, entry)
<1>1. /\ cursor = 0 /\ g \notin placed /\ placed' = P /\ due' = d
      /\ pending' = add.orders /\ gate' = add.gate
      /\ book' = Written(Written(b, trade), entry)
      /\ cursor' = 0 /\ began' = began /\ clock' = clock /\ sent' = sent /\ crashes' = crashes
  BY DEF PlaceTrade
<1>2. /\ TypeOK /\ clock \in Nat /\ 1 <= clock /\ began \in Nat /\ began <= clock
      /\ placed \in SUBSET Trades /\ due \in [Trades -> Nat] /\ Len(book) \in Nat
      /\ pending \in Seq(TradeOrder) /\ gate \in Nat
  BY Constants, LenProperties DEF IInv, TypeOK
<1>3. /\ P \in SUBSET Trades /\ d \in [Trades -> Nat] /\ n \in Nat
      /\ placed \subseteq P /\ g \in P /\ d[g] = TradeSchedule(g, clock)
      /\ \A h \in placed : d[h] = due[h]
  BY <1>1, <1>2, TradeScheduleIs
<1>4. /\ trade \in TradeInfo /\ trade.id = g /\ trade.sequence = 0
      /\ entry \in TradeInfo /\ entry.id = g
  BY Constants DEF NewTrade, TradeInfo, Statuses
<1> HIDE DEF trade, entry, P, d
<1>5. BookOK(book', P, n) /\ Len(book') = n
  <2>1. book \in Seq(TradeInfo) /\ \A i \in DOMAIN book : book[i].id \in P
    BY <1>2, <1>3 DEF IInv, BookOK
  <2>2. /\ b \in Seq(TradeInfo) /\ Len(b) = n /\ b[Len(book) + 1] = entry
        /\ \A i \in 1..Len(book) : b[i] = book[i]
        /\ DOMAIN book = 1..Len(book) /\ DOMAIN b = 1..Len(book) + 1
    BY <1>4, <2>1, AppendIs
  <2>3. \A i \in 1..Len(book) + 1 : i \in 1..Len(book) \/ i = Len(book) + 1
    BY <1>2
  <2>4. BookOK(b, P, n)
    BY <1>3, <1>4, <2>1, <2>2, <2>3 DEF BookOK
  <2> HIDE DEF b, n
  <2>5. BookOK(Written(b, trade), P, n)
    BY <1>3, <1>4, <2>4, WrittenBook
  <2>6. BookOK(Written(Written(b, trade), entry), P, n)
    BY <1>3, <1>4, <2>5, WrittenBook
  <2>. QED
    BY <1>1, <2>6 DEF BookOK
<1>6. PlanOK(add, n, P, d, clock, began)
  <2>1. OrdersOK(pending, n, P, d, clock)
    <3>1. OrdersOK(pending, Len(book), placed, due, clock) /\ Len(book) <= n /\ clock <= clock
      BY <1>2 DEF IInv
    <3> HIDE DEF n
    <3>. QED
      BY <1>2, <1>3, <3>1, OrdersGrow
  <2>2. GateOK(pending, gate, clock, began)
    BY <1>1 DEF IInv
  <2>3. plan \in Plan /\ plan.orders = pending /\ plan.gate = gate
    BY <1>2 DEF Plan
  <2> HIDE DEF plan
  <2>4. PlanOK(plan, n, P, d, clock, began)
    BY <2>1, <2>2, <2>3 DEF PlanOK
  <2>5. trade.id \in P /\ trade.sequence < n /\ d[trade.id] <= TradeSchedule(trade.id, clock)
    BY <1>2, <1>3, <1>4, TradeScheduleIs
  <2> HIDE DEF n
  <2>. QED
    BY <1>2, <1>3, <1>4, <2>4, <2>5, AddTradeOK
<1> HIDE DEF n, add
<1>7. /\ OrdersOK(pending', n, P, d, clock) /\ GateOK(pending', gate', clock, began)
      /\ pending' \in Seq(TradeOrder) /\ gate' \in Nat
  BY <1>1, <1>6 DEF PlanOK, Plan
<1>8. TypeOK'
  <2>1. 0 \in 0..(Len(pending') + 1)
    BY <1>7, LenProperties
  <2>. QED
    BY <1>1, <1>2, <1>3, <1>5, <1>7, <2>1 DEF TypeOK, BookOK
<1>9. SentOK(sent', placed', due')
  BY <1>1, <1>3 DEF IInv, SentOK
<1>10. DueOK(placed', due', clock')
  <2>1. TradeSchedule(g, clock) \in Nat
    BY <1>2, TradeScheduleIs
  <2>2. \A h \in P : h \in placed \/ h = g
    BY DEF P
  <2>. QED
    BY <1>1, <1>3, <2>1, <2>2 DEF IInv, DueOK
<1>11. (crashes = 0 => OneOrder)'
  BY <1>1, PlaceOne DEF IInv
<1>. QED
  BY <1>1, <1>2, <1>5, <1>7, <1>8, <1>9, <1>10, <1>11 DEF IInv

LEMMA DiePlacingKeeps == ASSUME IInv, NEW g \in Trades, DiePlacingTrade(g) PROVE IInv'
<1> DEFINE entry == [NewTrade(g) EXCEPT !.status = "recorded"]
           added == Append(book, entry)
           n == Len(book) + 1
           P == placed \cup {g}
           d == [due EXCEPT ![g] = TradeSchedule(g, clock)]
<1>1. /\ g \notin placed /\ placed' = P /\ due' = d
  BY DEF DiePlacingTrade
<1>2. /\ TypeOK /\ clock \in Nat /\ placed \in SUBSET Trades /\ due \in [Trades -> Nat]
      /\ Len(book) \in Nat /\ book \in Seq(TradeInfo)
  BY Constants, LenProperties DEF IInv, TypeOK
<1>3. /\ P \in SUBSET Trades /\ d \in [Trades -> Nat] /\ n \in Nat
      /\ g \in P /\ d[g] = TradeSchedule(g, clock) /\ \A h \in placed : d[h] = due[h]
      /\ \A h \in P : h \in placed \/ h = g
  <2>1. TradeSchedule(g, clock) \in Nat
    BY <1>2, TradeScheduleIs
  <2>. QED
    BY <1>1, <1>2, <2>1
<1>4. /\ NewTrade(g) \in TradeInfo /\ NewTrade(g).id = g
      /\ entry \in TradeInfo /\ entry.id = g
  BY Constants DEF NewTrade, TradeInfo, Statuses
<1>5. PICK b \in {added, Written(added, NewTrade(g))} : Restart(b, sent)
  BY DEF DiePlacingTrade
<1> HIDE DEF entry, P, d
<1>6. BookOK(added, P, n)
  <2>1. /\ added \in Seq(TradeInfo) /\ Len(added) = n /\ added[Len(book) + 1] = entry
        /\ \A i \in 1..Len(book) : added[i] = book[i]
        /\ DOMAIN book = 1..Len(book) /\ DOMAIN added = 1..Len(book) + 1
    BY <1>2, <1>4, AppendIs
  <2>2. \A i \in 1..Len(book) + 1 : i \in 1..Len(book) \/ i = Len(book) + 1
    BY <1>2
  <2>3. \A i \in DOMAIN book : book[i].id \in P
    BY DEF IInv, BookOK, P
  <2>. QED
    BY <1>3, <1>4, <2>1, <2>2, <2>3 DEF BookOK
<1> HIDE DEF added, n
<1>7. BookOK(b, P, n)
  BY <1>3, <1>4, <1>5, <1>6, WrittenBook
<1>8. SentOK(sent, P, d)
  <2>1. \A m \in DOMAIN sent : sent[m].parts \subseteq P
    BY DEF IInv, SentOK, P
  <2>. QED
    BY <1>3, <2>1 DEF IInv, SentOK
<1>9. DueOK(P, d, clock)
  <2>1. TradeSchedule(g, clock) \in Nat
    BY <1>2, TradeScheduleIs
  <2>. QED
    BY <1>3, <2>1 DEF IInv, DueOK
<1>. QED
  BY <1>1, <1>2, <1>3, <1>5, <1>7, <1>8, <1>9, RestartKeeps

LEMMA Typed ==
  ASSUME IInv
  PROVE  /\ TypeOK /\ clock \in Nat /\ 1 <= clock /\ began \in Nat /\ began <= clock /\ gate \in Nat
         /\ pending \in Seq(TradeOrder) /\ Len(pending) \in Nat /\ DOMAIN pending = 1..Len(pending)
         /\ \A i \in DOMAIN pending : /\ pending[i] \in TradeOrder
                                     /\ pending[i].timeToExecute \in Nat
                                     /\ pending[i].amount \in Nat
         /\ ScheduleTime(began) \in Nat /\ ScheduleTime(clock) \in Nat
         /\ placed \in SUBSET Trades /\ due \in [Trades -> Nat]
<1>1. /\ TypeOK /\ clock \in Nat /\ 1 <= clock /\ began \in Nat /\ began <= clock /\ gate \in Nat
      /\ pending \in Seq(TradeOrder) /\ placed \in SUBSET Trades /\ due \in [Trades -> Nat]
  BY Constants DEF IInv, TypeOK
<1>2. Len(pending) \in Nat /\ DOMAIN pending = 1..Len(pending)
  BY <1>1, LenProperties
<1>3. \A i \in DOMAIN pending : pending[i] \in TradeOrder
  BY <1>1, <1>2
<1>4. \A o \in TradeOrder : o.timeToExecute \in Nat /\ o.amount \in Nat
  BY DEF TradeOrder
<1>5. ScheduleTime(began) \in Nat /\ ScheduleTime(clock) \in Nat
  BY <1>1, NextMultiple
<1>. QED
  BY <1>1, <1>2, <1>3, <1>4, <1>5

LEMMA BeginKeeps == ASSUME IInv, BeginPass PROVE IInv'
<1>1. /\ cursor = 0 /\ cursor' = 1 /\ began' = clock /\ gate' = 0
      /\ UNCHANGED <<book, pending, clock, placed, due, sent, crashes>>
  BY DEF BeginPass
<1>2. /\ TypeOK /\ clock \in Nat /\ 1 <= clock /\ clock <= clock /\ ScheduleTime(clock) \in Nat
      /\ Len(pending) \in Nat
  BY Typed
<1>3. TypeOK'
  <2>1. 1 \in 0..(Len(pending) + 1) /\ clock \in 0..MaxTime
    BY <1>2 DEF TypeOK
  <2>. QED
    BY <1>1, <1>2, <2>1 DEF TypeOK
<1>4. GateInPass'
  <2>1. \A i \in DOMAIN pending : pending[i].timeToExecute <= ScheduleTime(clock)
    BY DEF IInv, OrdersOK
  <2>2. 1..(1 - 1) = {} /\ ~(1 > 1) /\ 0 <= ScheduleTime(clock)
    BY <1>2
  <2>. QED
    BY <1>1, <1>2, <2>1, <2>2 DEF GateInPass
<1>5. (crashes = 0 => OneOrder)'
  BY <1>1 DEF IInv, OneOrder, Taken
<1>. QED
  BY <1>1, <1>2, <1>3, <1>4, <1>5 DEF IInv

LEMMA PostponeKeeps == ASSUME IInv, Postpone PROVE IInv'
<1> DEFINE t == pending[cursor].timeToExecute
           c == cursor
<1>1. /\ c \in DOMAIN pending /\ ~Ready(pending[c])
      /\ gate' = (IF gate < began \/ gate > t THEN t ELSE gate)
      /\ cursor' = c + 1
      /\ UNCHANGED <<book, pending, began, clock, placed, due, sent, crashes>>
  BY DEF Postpone
<1>2. /\ TypeOK /\ clock \in Nat /\ began \in Nat /\ began <= clock /\ gate \in Nat
      /\ Len(pending) \in Nat /\ DOMAIN pending = 1..Len(pending)
      /\ c \in 1..Len(pending) /\ c > 0 /\ GateInPass
      /\ \A i \in DOMAIN pending : /\ pending[i] \in TradeOrder
                                  /\ pending[i].timeToExecute \in Nat
                                  /\ pending[i].amount \in Nat
      /\ ScheduleTime(began) \in Nat
  <2>1. c \in 1..Len(pending) /\ c > 0
    BY <1>1, Typed
  <2>. QED
    BY <2>1, Typed DEF IInv
<1>3. TypeOK'
  <2>1. c + 1 \in 0..(Len(pending) + 1) /\ gate' \in Nat
    BY <1>1, <1>2
  <2>. QED
    BY <1>1, <1>2, <2>1 DEF TypeOK
<1>4. t \in Nat /\ Minimum \in Nat /\ t <= ScheduleTime(began) /\ 1 <= t
  BY <1>2, Constants DEF GateInPass, IInv, OrdersOK, OrderOK
<1>5. pending[c].amount >= Minimum => began <= t
  BY <1>1, <1>2, <1>4 DEF Ready
<1>6. \A i \in 1..c : i = c \/ i \in 1..c - 1
  BY <1>2
<1>i. \A i \in 1..c - 1 : i \in 1..c /\ i \in DOMAIN pending
  BY <1>2
<1>g. /\ gate = 0 \/ \E j \in 1..c - 1 : gate = pending[j].timeToExecute
      /\ 1 <= began
      /\ c = 1 \/ \E j \in 1..c - 1 : gate = pending[j].timeToExecute
      /\ \A i \in 1..c - 1 :
            /\ pending[i].amount >= Minimum => began <= pending[i].timeToExecute
            /\ \/ gate <= pending[i].timeToExecute
               \/ \E j \in 1..c - 1 : OverdueSmall(pending[j], began)
  <2>1. c = 1 \/ c > 1
    BY <1>2
  <2>. QED
    BY <1>2, <2>1 DEF GateInPass
<1> HIDE DEF t, c
<1>7. \E j \in 1..c : gate' = pending[j].timeToExecute
  <2>1. CASE gate' = t
    BY <1>2, <2>1 DEF t, c
  <2>2. CASE gate' = gate /\ ~(gate < began \/ gate > t)
    <3>1. gate # 0
      BY <1>2, <1>g, <2>2
    <3>. QED
      BY <1>g, <1>i, <2>2, <3>1
  <2>. QED
    BY <1>1, <2>1, <2>2
<1>8. /\ gate' <= t
      /\ \/ gate' <= gate
         \/ c = 1
         \/ \E j \in 1..c : OverdueSmall(pending[j], began)
  <2>1. CASE gate < began
    <3>1. gate' = t
      BY <1>1, <2>1
    <3>2. ASSUME NEW j \in 1..c - 1, gate = pending[j].timeToExecute
          PROVE  OverdueSmall(pending[j], began)
      <4>1. /\ pending[j].amount \in Nat /\ pending[j].timeToExecute < began
            /\ pending[j].timeToExecute \in Nat
        BY <1>2, <1>i, <2>1, <3>2
      <4>2. ~(pending[j].amount >= Minimum)
        BY <1>2, <1>g, <4>1
      <4>. QED
        BY <1>4, <4>1, <4>2 DEF OverdueSmall
    <3>. QED
      BY <1>4, <1>g, <1>i, <3>1, <3>2
  <2>2. CASE ~(gate < began) /\ gate > t
    BY <1>1, <1>2, <1>4, <2>2
  <2>3. CASE ~(gate < began) /\ ~(gate > t)
    BY <1>1, <1>2, <1>4, <2>3
  <2>. QED
    BY <2>1, <2>2, <2>3
<1>9. GateInPass'
  <2>1. ASSUME NEW i \in 1..c
        PROVE  /\ pending[i].amount >= Minimum => began <= pending[i].timeToExecute
               /\ \/ gate' <= pending[i].timeToExecute
                  \/ \E j \in 1..c : OverdueSmall(pending[j], began)
    <3>1. CASE i = c
      BY <1>5, <1>8, <3>1 DEF t, c
    <3>2. CASE i \in 1..c - 1
      <4>1. pending[i].timeToExecute \in Nat /\ gate' \in Nat /\ gate \in Nat /\ c # 1
        <5>1. gate' \in Nat
          BY <1>1, <1>2, <1>4
        <5>. QED
          BY <1>2, <1>i, <3>2, <5>1
      <4>2. CASE \E j \in 1..c - 1 : OverdueSmall(pending[j], began)
        BY <1>g, <1>i, <3>2, <4>2
      <4>3. CASE gate <= pending[i].timeToExecute
        BY <1>8, <1>g, <3>2, <4>1, <4>3
      <4>. QED
        BY <1>g, <3>2, <4>2, <4>3
    <3>. QED
      BY <1>6, <3>1, <3>2
  <2>2. (c + 1) - 1 = c /\ c + 1 # 1 /\ c \in 1..c
    BY <1>2
  <2>3. gate' <= ScheduleTime(began)
    <3>1. gate \in Nat /\ gate <= ScheduleTime(began) /\ gate' \in {t, gate}
      BY <1>1, <1>2 DEF GateInPass
    <3>. QED
      BY <1>4, <3>1
  <2>4. \A i \in DOMAIN pending : pending[i].timeToExecute <= ScheduleTime(began)
    BY <1>2 DEF GateInPass
  <2>. QED
    BY <1>1, <1>7, <1>g, <2>1, <2>2, <2>3, <2>4 DEF GateInPass
<1>10. (crashes = 0 => OneOrder)'
  BY <1>1 DEF IInv, OneOrder, Taken
<1>11. cursor' # 0
  BY <1>1, <1>2
<1>. QED
  BY <1>1, <1>3, <1>9, <1>10, <1>11 DEF IInv

LEMMA EndKeeps == ASSUME IInv, EndPass PROVE IInv'
<1>1. /\ cursor > Len(pending) /\ cursor' = 0
      /\ UNCHANGED <<book, pending, gate, began, clock, placed, due, sent, crashes>>
  BY DEF EndPass
<1>2. /\ TypeOK /\ clock \in Nat /\ began \in Nat /\ began <= clock /\ gate \in Nat
      /\ Len(pending) \in Nat /\ DOMAIN pending = 1..Len(pending)
      /\ cursor = Len(pending) + 1 /\ GateInPass
      /\ \A i \in DOMAIN pending : pending[i].timeToExecute \in Nat
  <2>1. cursor = Len(pending) + 1 /\ cursor > 0
    BY <1>1, Typed DEF TypeOK
  <2>. QED
    BY <2>1, Typed DEF IInv
<1>3. TypeOK'
  <2>1. 0 \in 0..(Len(pending) + 1)
    BY <1>2
  <2>. QED
    BY <1>1, <1>2, <2>1 DEF TypeOK
<1>4. /\ ScheduleTime(began) \in Nat /\ ScheduleTime(clock) \in Nat
      /\ ScheduleTime(began) <= ScheduleTime(clock)
  BY <1>2, NextMultiple, ScheduleGrows
<1>5. 1..cursor - 1 = DOMAIN pending
  BY <1>2
<1>6. GateOK(pending, gate, clock, began)
  <2>1. gate \in 0..ScheduleTime(clock)
    BY <1>2, <1>4 DEF GateInPass
  <2>2. pending # <<>> => gate # 0
    <3> SUFFICES ASSUME pending # <<>> PROVE gate # 0
      OBVIOUS
    <3>1. cursor > 1
      <4>1. Len(pending) # 0
        BY <1>2, EmptySeq DEF TypeOK
      <4>. QED
        BY <1>2, <4>1
    <3>2. PICK j \in DOMAIN pending : gate = pending[j].timeToExecute
      BY <1>2, <1>5, <3>1 DEF GateInPass
    <3>3. 1 <= pending[j].timeToExecute
      BY DEF IInv, OrdersOK, OrderOK
    <3>. QED
      BY <3>2, <3>3
  <2>3. ASSUME NEW i \in DOMAIN pending, pending[i].amount >= Minimum
        PROVE  gate <= ScheduleTime(pending[i].timeToExecute)
    <3>1. began <= pending[i].timeToExecute /\ pending[i].timeToExecute \in Nat
      BY <1>2, <1>5, <2>3 DEF GateInPass
    <3>2. /\ ScheduleTime(pending[i].timeToExecute) \in Nat
          /\ ScheduleTime(began) <= ScheduleTime(pending[i].timeToExecute)
      BY <1>2, <3>1, NextMultiple, ScheduleGrows
    <3>. QED
      BY <1>2, <1>4, <3>2 DEF GateInPass
  <2>4. ASSUME NEW i \in DOMAIN pending
        PROVE  \/ gate <= pending[i].timeToExecute
               \/ \E j \in DOMAIN pending : OverdueSmall(pending[j], began)
    BY <1>2, <1>5 DEF GateInPass
  <2>. QED
    BY <2>1, <2>2, <2>3, <2>4 DEF GateOK
<1>7. (crashes = 0 => OneOrder)'
  BY <1>1 DEF IInv, OneOrder, Taken
<1>. QED
  BY <1>1, <1>3, <1>6, <1>7 DEF IInv

\* Handing an order over: the ones after it move up.
LEMMA Erased ==
  ASSUME IInv, cursor \in DOMAIN pending, NEW new, new = RemoveAt(pending, cursor)
  PROVE  /\ new \in Seq(TradeOrder) /\ Len(new) = Len(pending) - 1
         /\ DOMAIN new = 1..Len(pending) - 1
         /\ \A i \in DOMAIN new :
                /\ i < cursor => i \in DOMAIN pending /\ new[i] = pending[i]
                /\ ~(i < cursor) => /\ i + 1 \in DOMAIN pending /\ i + 1 # cursor
                                   /\ new[i] = pending[i + 1]
         /\ \A j \in DOMAIN pending \ {cursor} :
                LET i == IF j < cursor THEN j ELSE j - 1
                IN  i \in DOMAIN new /\ new[i] = pending[j]
<1>1. /\ pending \in Seq(TradeOrder) /\ Len(pending) \in Nat /\ DOMAIN pending = 1..Len(pending)
      /\ cursor \in 1..Len(pending)
  BY Typed
<1>2. /\ new \in Seq(TradeOrder) /\ Len(new) = Len(pending) - 1
      /\ \A i \in 1..Len(pending) - 1 :
            new[i] = pending[IF i < cursor THEN i ELSE i + 1]
  BY <1>1, RemoveAtIs, Zenon
<1>3. DOMAIN new = 1..Len(pending) - 1
  BY <1>2, LenProperties
<1>4. ASSUME NEW i \in DOMAIN new
      PROVE  /\ i < cursor => i \in DOMAIN pending /\ new[i] = pending[i]
             /\ ~(i < cursor) => /\ i + 1 \in DOMAIN pending /\ i + 1 # cursor
                                /\ new[i] = pending[i + 1]
  BY <1>1, <1>2, <1>3
<1>5. ASSUME NEW j \in DOMAIN pending \ {cursor}
      PROVE  LET i == IF j < cursor THEN j ELSE j - 1
             IN  i \in DOMAIN new /\ new[i] = pending[j]
  <2>1. CASE j < cursor
    <3>1. j \in 1..Len(pending) - 1
      BY <1>1, <2>1
    <3>. QED
      BY <1>2, <1>3, <2>1, <3>1
  <2>2. CASE ~(j < cursor)
    <3>1. j - 1 \in 1..Len(pending) - 1 /\ ~(j - 1 < cursor) /\ (j - 1) + 1 = j
      BY <1>1, <2>2
    <3>. QED
      BY <1>2, <1>3, <2>2, <3>1
  <2>. QED
    BY <2>1, <2>2
<1>. QED
  BY <1>2, <1>3, <1>4, <1>5

LEMMA HandOverOne ==
  ASSUME IInv, HandOver, OneOrder
  PROVE  OneOrder'
<1> DEFINE order == pending[cursor]
           M == Len(pending) - 1
<1>l. PICK N : N = Len(sent)
  OBVIOUS
<1>1. cursor \in DOMAIN pending /\ Ready(order) /\ placed' = placed
      /\ sent' = Recorded(order, TRUE) /\ pending' = RemoveAt(pending, cursor)
  BY DEF HandOver
<1>2. PICK rec : /\ rec \in SentOrder /\ rec.parts = order.parts /\ rec.stage = "open"
                 /\ sent' = Append(sent, rec)
  <2>1. TRUE \in BOOLEAN
    OBVIOUS
  <2> DEFINE r == [amount |-> order.amount, parts |-> order.parts, time |-> clock,
                   stage |-> IF TRUE THEN "open" ELSE "idle"]
  <2>2. r.parts = order.parts /\ r.stage = "open"
    OBVIOUS
  <2>3. r \in SentOrder /\ sent' = Append(sent, r)
    BY <1>1, <2>1, RecordedOK
  <2> HIDE DEF r
  <2>. QED
    BY <2>2, <2>3
<1>3. /\ sent \in Seq(SentOrder) /\ DOMAIN sent = 1..N /\ DOMAIN sent' = 1..N + 1
      /\ sent'[N + 1] = rec /\ \A n \in 1..N : sent'[n] = sent[n]
      /\ N \in Nat
  <2>1. sent \in Seq(SentOrder)
    BY DEF IInv, SentOK
  <2>. QED
    BY <1>2, <1>l, <2>1, AppendIs
<1>4. \A n \in 1..N + 1 : n = N + 1 \/ n \in 1..N
  BY <1>3
<1>5. /\ DOMAIN pending' = 1..M
      /\ \A i \in DOMAIN pending' :
            /\ i < cursor => i \in DOMAIN pending /\ pending'[i] = pending[i]
            /\ ~(i < cursor) => /\ i + 1 \in DOMAIN pending /\ i + 1 # cursor
                               /\ pending'[i] = pending[i + 1]
      /\ \A j \in DOMAIN pending \ {cursor} :
            \E i \in DOMAIN pending' : pending'[i] = pending[j]
  BY <1>1, Erased
<1> HIDE DEF order, M
<1>6. /\ Taken(N + 1)' /\ sent'[N + 1].parts = order.parts
      /\ \A n \in 1..N : Taken(n)' <=> Taken(n)
  BY <1>2, <1>3 DEF Taken
<1>7. \A i, j \in DOMAIN pending' : \A g \in pending'[i].parts \cap pending'[j].parts : i = j
  <2> SUFFICES ASSUME NEW i \in DOMAIN pending', NEW j \in DOMAIN pending',
                      NEW g \in pending'[i].parts \cap pending'[j].parts
               PROVE  i = j
    OBVIOUS
  <2>1. PICK k \in DOMAIN pending : g \in pending[k].parts /\ k = IF i < cursor THEN i ELSE i + 1
    BY <1>5
  <2>2. PICK l \in DOMAIN pending : g \in pending[l].parts /\ l = IF j < cursor THEN j ELSE j + 1
    BY <1>5
  <2>3. k = l
    BY <2>1, <2>2 DEF OneOrder
  <2>4. i \in Int /\ j \in Int /\ cursor \in Int /\ M \in Int
    BY <1>1, <1>5, Typed DEF M
  <2>. QED
    BY <2>1, <2>2, <2>3, <2>4
<1>8. ASSUME NEW i \in DOMAIN pending', NEW g \in pending'[i].parts
      PROVE  \E k \in DOMAIN pending \ {cursor} : g \in pending[k].parts
  <2>1. CASE i < cursor
    <3>1. i # cursor
      BY <1>1, <1>5, <2>1, Typed
    <3>. QED
      BY <1>5, <1>8, <2>1, <3>1
  <2>2. CASE ~(i < cursor)
    BY <1>5, <1>8, <2>2
  <2>. QED
    BY <2>1, <2>2
<1>9. ASSUME NEW i \in DOMAIN pending', NEW n \in DOMAIN sent', Taken(n)'
      PROVE  pending'[i].parts \cap sent'[n].parts = {}
  <2> SUFFICES ASSUME NEW g \in pending'[i].parts, g \in sent'[n].parts PROVE FALSE
    OBVIOUS
  <2>1. PICK k \in DOMAIN pending \ {cursor} : g \in pending[k].parts
    BY <1>8
  <2>2. CASE n = N + 1
    BY <1>1, <1>6, <2>1, <2>2 DEF OneOrder, order
  <2>3. CASE n \in 1..N
    BY <1>3, <1>6, <1>9, <2>1, <2>3 DEF OneOrder
  <2>. QED
    BY <1>3, <1>4, <2>2, <2>3
<1>10. ASSUME NEW m \in DOMAIN sent', NEW n \in DOMAIN sent', Taken(m)', Taken(n)',
              NEW g \in sent'[m].parts \cap sent'[n].parts
       PROVE  m = n
  <2>1. CASE m \in 1..N /\ n \in 1..N
    BY <1>3, <1>6, <1>10, <2>1 DEF OneOrder
  <2>2. ASSUME NEW k \in 1..N, Taken(k), g \in sent[k].parts, g \in order.parts PROVE FALSE
    BY <1>1, <1>3, <2>2 DEF OneOrder, order
  <2>. QED
    BY <1>3, <1>4, <1>6, <1>10, <2>1, <2>2
<1>11. ASSUME NEW g \in placed
       PROVE  \/ \E i \in DOMAIN pending' : g \in pending'[i].parts
              \/ \E n \in DOMAIN sent' : Taken(n)' /\ g \in sent'[n].parts
  <2>1. ASSUME NEW i \in DOMAIN pending, g \in pending[i].parts
        PROVE  \/ \E j \in DOMAIN pending' : g \in pending'[j].parts
               \/ \E n \in DOMAIN sent' : Taken(n)' /\ g \in sent'[n].parts
    <3>1. CASE i = cursor
      <4>1. N + 1 \in DOMAIN sent'
        BY <1>3
      <4>2. g \in order.parts
        BY <2>1, <3>1 DEF order
      <4>. QED
        BY <1>6, <4>1, <4>2
    <3>2. CASE i # cursor
      BY <1>5, <2>1, <3>2
    <3>. QED
      BY <3>1, <3>2
  <2>2. ASSUME NEW n \in DOMAIN sent, Taken(n), g \in sent[n].parts
        PROVE  \E m \in DOMAIN sent' : Taken(m)' /\ g \in sent'[m].parts
    <3>1. n \in 1..N /\ n \in 1..N + 1
      BY <1>3
    <3>. QED
      BY <1>3, <1>6, <2>2, <3>1
  <2>. QED
    BY <2>1, <2>2 DEF OneOrder
<1>12. \A m, n \in DOMAIN sent' :
         Taken(m)' /\ Taken(n)' => \A g \in sent'[m].parts \cap sent'[n].parts : m = n
  BY <1>10
<1>13. \A i \in DOMAIN pending', n \in DOMAIN sent' :
         Taken(n)' => pending'[i].parts \cap sent'[n].parts = {}
  BY <1>9
<1>14. \A g \in placed' : \/ \E i \in DOMAIN pending' : g \in pending'[i].parts
                         \/ \E n \in DOMAIN sent' : Taken(n)' /\ g \in sent'[n].parts
  BY <1>1, <1>11
<1>. QED
  BY <1>7, <1>12, <1>13, <1>14 DEF OneOrder

LEMMA HandOverKeeps == ASSUME IInv, HandOver PROVE IInv'
<1>1. /\ cursor \in DOMAIN pending /\ Ready(pending[cursor]) /\ Len(sent) < MaxSent
      /\ sent' = Recorded(pending[cursor], TRUE)
      /\ book' = Affected(book, pending[cursor].trades)
      /\ pending' = RemoveAt(pending, cursor)
      /\ UNCHANGED <<gate, cursor, began, clock, placed, due, crashes>>
  BY DEF HandOver
<1>2. SentOK(sent', placed, due) /\ Listed(pending[cursor].trades, Len(book))
  <2>1. TRUE \in BOOLEAN
    OBVIOUS
  <2>. QED
    BY <1>1, <2>1, RecordedOK
<1>3. BookOK(book', placed, Len(book)) /\ Len(book') = Len(book)
  <2>1. Len(sent) + 1 \in 0..MaxSent
    <3>1. Len(sent) \in Nat
      BY LenProperties DEF IInv, TypeOK
    <3>. QED
      BY <1>1, <3>1, Constants
  <2>2. BookOK(Affected(book, pending[cursor].trades), placed, Len(book))
    BY <1>2, <2>1, AffectedBook DEF IInv
  <2>. QED
    BY <1>1, <2>2 DEF BookOK
<1>4. /\ pending' \in Seq(TradeOrder) /\ Len(pending') = Len(pending) - 1
      /\ DOMAIN pending' = 1..Len(pending) - 1
      /\ \A i \in DOMAIN pending' :
            /\ i < cursor => i \in DOMAIN pending /\ pending'[i] = pending[i]
            /\ ~(i < cursor) => /\ i + 1 \in DOMAIN pending
                               /\ pending'[i] = pending[i + 1]
  BY <1>1, Erased
<1>p. \A i \in DOMAIN pending' : \E k \in DOMAIN pending : pending'[i] = pending[k]
  BY <1>4
<1>5. OrdersOK(pending', Len(book), placed, due, clock)
  BY <1>4, <1>p DEF IInv, OrdersOK
<1>6. TypeOK'
  <2>1. cursor \in 0..(Len(pending') + 1)
    BY <1>1, <1>4, Typed
  <2>. QED
    BY <1>1, <1>2, <1>3, <1>4, <2>1, Typed DEF TypeOK, SentOK, BookOK
<1>7. cursor > 0 /\ cursor # 0 /\ GateInPass
  <2>1. cursor > 0 /\ cursor # 0
    BY <1>1, Typed
  <2>. QED
    BY <2>1 DEF IInv
<1>8. GateInPass'
  <2>1. \A i \in 1..cursor - 1 : pending'[i] = pending[i]
    <3>1. \A i \in 1..cursor - 1 : i < cursor /\ i \in DOMAIN pending'
      BY <1>1, <1>4, Typed
    <3>. QED
      BY <1>4, <3>1
  <2>. QED
    BY <1>1, <1>7, <1>p, <2>1 DEF GateInPass
<1>9. (crashes = 0 => OneOrder)'
  BY <1>1, HandOverOne DEF IInv
<1>. QED
  BY <1>1, <1>2, <1>3, <1>5, <1>6, <1>7, <1>8, <1>9 DEF IInv

LEMMA HandOverFailsKeeps == ASSUME IInv, HandOverFails PROVE IInv'
<1>1. /\ cursor \in DOMAIN pending /\ Ready(pending[cursor])
      /\ sent' = Recorded(pending[cursor], FALSE)
      /\ UNCHANGED <<book, pending, gate, cursor, began, clock, placed, due, crashes>>
  BY DEF HandOverFails
<1> DEFINE order == pending[cursor]
           N == Len(sent)
           rec == [amount |-> order.amount, parts |-> order.parts, time |-> clock,
                   stage |-> IF FALSE THEN "open" ELSE "idle"]
<1>2. SentOK(sent', placed, due) /\ sent' = Append(sent, rec) /\ rec \in SentOrder
  <2>1. FALSE \in BOOLEAN
    OBVIOUS
  <2>. QED
    BY <1>1, <2>1, RecordedOK
<1>3. rec.stage = "idle"
  OBVIOUS
<1> HIDE DEF rec
<1>4. /\ N \in Nat /\ DOMAIN sent = 1..N /\ DOMAIN sent' = 1..N + 1
      /\ sent'[N + 1] = rec /\ \A n \in 1..N : sent'[n] = sent[n]
  <2>1. sent \in Seq(SentOrder)
    BY DEF IInv, SentOK
  <2>. QED
    BY <1>2, <2>1, AppendIs
<1>5. \A n \in 1..N + 1 : n = N + 1 \/ n \in 1..N
  BY <1>4
<1>6. \A n \in DOMAIN sent : n \in DOMAIN sent' /\ sent'[n] = sent[n]
  BY <1>4
<1>7. \A n \in DOMAIN sent' : Taken(n)' => n \in DOMAIN sent /\ sent'[n] = sent[n] /\ Taken(n)
  BY <1>3, <1>4, <1>5 DEF Taken
<1>8. (crashes = 0 => OneOrder)'
  <2> SUFFICES ASSUME OneOrder PROVE OneOrder'
    BY <1>1 DEF IInv
  <2>1. \A g \in placed : \/ \E i \in DOMAIN pending : g \in pending[i].parts
                        \/ \E n \in DOMAIN sent' : Taken(n)' /\ g \in sent'[n].parts
    BY <1>6 DEF OneOrder, Taken
  <2>2. \A m, n \in DOMAIN sent' :
            Taken(m)' /\ Taken(n)' => \A g \in sent'[m].parts \cap sent'[n].parts : m = n
    BY <1>7 DEF OneOrder
  <2>3. \A i \in DOMAIN pending, n \in DOMAIN sent' :
            Taken(n)' => pending[i].parts \cap sent'[n].parts = {}
    BY <1>7 DEF OneOrder
  <2>. QED
    BY <1>1, <2>1, <2>2, <2>3, ZenonT(60) DEF OneOrder
<1>9. TypeOK'
  BY <1>1, <1>2, Typed DEF TypeOK, SentOK
<1>10. (cursor > 0 => GateInPass)'
  BY <1>1 DEF IInv, GateInPass
<1>. QED
  BY <1>1, <1>2, <1>8, <1>9, <1>10 DEF IInv

LEMMA DieHandingKeeps == ASSUME IInv, DieHandingOver PROVE IInv'
<1> DEFINE listed == pending[cursor].trades
<1>1. /\ cursor \in DOMAIN pending /\ Ready(pending[cursor]) /\ Len(sent) < MaxSent
      /\ UNCHANGED <<placed, due>>
  BY DEF DieHandingOver
<1>2. PICK n \in 0..Len(listed) :
        Restart(Affected(book, SubSeq(listed, 1, n)), Recorded(pending[cursor], TRUE))
  BY DEF DieHandingOver
<1>3. SentOK(Recorded(pending[cursor], TRUE), placed, due) /\ Listed(listed, Len(book))
  <2>1. TRUE \in BOOLEAN
    OBVIOUS
  <2>. QED
    BY <1>1, <2>1, RecordedOK
<1> HIDE DEF listed
<1>4. Listed(SubSeq(listed, 1, n), Len(book))
  <2>1. listed \in Seq(Nat) /\ Len(listed) \in Nat /\ DOMAIN listed = 1..Len(listed)
    BY <1>3, LenProperties DEF Listed
  <2>2. n \in Int /\ 1 \in Int /\ n - 1 + 1 = n /\ \A i \in 1..n : i \in DOMAIN listed /\ 1 + i - 1 = i
    BY <2>1
  <2>3. \A i \in 1..n : listed[i] \in Nat
    BY <2>1, <2>2
  <2>4. /\ SubSeq(listed, 1, n) \in Seq(Nat)
        /\ Len(SubSeq(listed, 1, n)) = IF 1 <= n THEN n - 1 + 1 ELSE 0
        /\ \A i \in 1..n - 1 + 1 : SubSeq(listed, 1, n)[i] = listed[1 + i - 1]
    BY <2>2, <2>3, SubSeqProperties
  <2>5. \A i \in DOMAIN SubSeq(listed, 1, n) : i \in 1..n
    <3>1. DOMAIN SubSeq(listed, 1, n) = 1..Len(SubSeq(listed, 1, n))
      BY <2>4, LenProperties
    <3>2. Len(SubSeq(listed, 1, n)) = n
      BY <2>1, <2>4
    <3>. QED
      BY <3>1, <3>2
  <2>6. \A i \in 1..n : SubSeq(listed, 1, n)[i] = listed[i]
    BY <2>2, <2>4
  <2>. QED
    BY <1>3, <2>2, <2>4, <2>5, <2>6 DEF Listed
<1>5. BookOK(Affected(book, SubSeq(listed, 1, n)), placed, Len(book)) /\ Len(book) \in Nat
  <2>1. Len(sent) \in Nat /\ Len(book) \in Nat
    BY LenProperties DEF IInv, TypeOK
  <2>2. Len(sent) + 1 \in 0..MaxSent
    BY <1>1, <2>1, Constants
  <2>. QED
    BY <1>4, <2>1, <2>2, AffectedBook DEF IInv
<1>. QED
  BY <1>1, <1>2, <1>3, <1>5, Typed, RestartKeeps DEF IInv

\* The broker reports on an order: the trades of the book keep their ids, and an order
\* that it had taken stays taken.
LEMMA ProgressKeeps ==
  ASSUME IInv, NEW n \in DOMAIN sent, OrderProgress(n)
  PROVE  IInv'
<1>1. /\ cursor = 0 /\ book' = Updated(book, n, FALSE)
      /\ UNCHANGED <<pending, gate, cursor, began, clock, placed, due, sent, crashes>>
  BY DEF OrderProgress
<1>2. BookOK(book', placed, Len(book)) /\ Len(book') = Len(book)
  <2>1. FALSE \in BOOLEAN /\ BookOK(book, placed, Len(book))
    BY DEF IInv
  <2>2. BookOK(Updated(book, n, FALSE), placed, Len(book))
    BY <2>1, UpdatedBook
  <2>. QED
    BY <1>1, <2>2 DEF BookOK
<1>3. TypeOK'
  BY <1>1, <1>2 DEF IInv, TypeOK, BookOK
<1>4. (crashes = 0 => OneOrder)'
  BY <1>1 DEF IInv, OneOrder, Taken
<1>5. ~(cursor' > 0)
  BY <1>1
<1>. QED
  BY <1>1, <1>2, <1>3, <1>4, <1>5 DEF IInv

\* An order is completed: it keeps its amount, time and trades.
Over(n) == [sent EXCEPT ![n].stage = "completed"]

LEMMA CompletedOK ==
  ASSUME IInv, NEW n \in DOMAIN sent
  PROVE  LET new == Over(n) IN
         /\ SentOK(new, placed, due) /\ DOMAIN new = DOMAIN sent
         /\ new[n].stage = "completed"
         /\ \A m \in DOMAIN sent : m # n => new[m] = sent[m]
         /\ \A m \in DOMAIN sent : new[m].parts = sent[m].parts
<1> DEFINE new == Over(n)
<1> USE DEF Over
<1>1. sent \in Seq(SentOrder) /\ Len(sent) \in Nat /\ DOMAIN sent = 1..Len(sent)
  BY LenProperties DEF IInv, SentOK
<1>2. ASSUME NEW m \in DOMAIN sent
      PROVE  /\ new[m] \in SentOrder /\ new[m].parts = sent[m].parts
             /\ new[m].amount = sent[m].amount /\ new[m].time = sent[m].time
  <2>1. sent[m] \in SentOrder
    BY <1>1
  <2>. QED
    BY <2>1 DEF SentOrder
<1>3. new \in [1..Len(sent) -> SentOrder]
  BY <1>1, <1>2
<1>4. new \in Seq(SentOrder) /\ DOMAIN new = DOMAIN sent
  BY <1>1, <1>3, SeqDef
<1>5. SentOK(new, placed, due)
  BY <1>2, <1>4 DEF IInv, SentOK
<1>6. new[n].stage = "completed" /\ \A m \in DOMAIN sent : m # n => new[m] = sent[m]
  <2>1. sent[n] \in SentOrder
    BY <1>1
  <2>. QED
    BY <2>1 DEF SentOrder
<1>. QED
  BY <1>2, <1>4, <1>5, <1>6

LEMMA CompletedKeeps ==
  ASSUME IInv, NEW n \in DOMAIN sent, OrderCompleted(n)
  PROVE  IInv'
<1>1. /\ cursor = 0 /\ book' = Updated(book, n, TRUE) /\ sent[n].stage = "open"
      /\ sent' = [sent EXCEPT ![n].stage = "completed"]
      /\ UNCHANGED <<pending, gate, cursor, began, clock, placed, due, crashes>>
  BY DEF OrderCompleted
<1>2. BookOK(book', placed, Len(book)) /\ Len(book') = Len(book)
  <2>1. TRUE \in BOOLEAN /\ BookOK(book, placed, Len(book))
    BY DEF IInv
  <2>2. BookOK(Updated(book, n, TRUE), placed, Len(book))
    BY <2>1, UpdatedBook
  <2>. QED
    BY <1>1, <2>2 DEF BookOK
<1>3. /\ SentOK(sent', placed, due) /\ DOMAIN sent' = DOMAIN sent
      /\ sent'[n].stage = "completed"
      /\ \A m \in DOMAIN sent : m # n => sent'[m] = sent[m]
      /\ \A m \in DOMAIN sent : sent'[m].parts = sent[m].parts
  <2>1. sent' = Over(n)
    BY <1>1 DEF Over
  <2>. QED
    BY <2>1, CompletedOK
<1>4. \A m \in DOMAIN sent : Taken(m)' <=> Taken(m)
  BY <1>1, <1>3 DEF Taken
<1>5. TypeOK'
  BY <1>1, <1>2, <1>3 DEF IInv, TypeOK, BookOK, SentOK
<1>6. (crashes = 0 => OneOrder)'
  <2> SUFFICES ASSUME OneOrder PROVE OneOrder'
    BY <1>1 DEF IInv
  <2>1. \A m, k \in DOMAIN sent' :
            Taken(m)' /\ Taken(k)' => \A g \in sent'[m].parts \cap sent'[k].parts : m = k
    BY <1>3, <1>4 DEF OneOrder
  <2>2. \A i \in DOMAIN pending, m \in DOMAIN sent' :
            Taken(m)' => pending[i].parts \cap sent'[m].parts = {}
    BY <1>3, <1>4 DEF OneOrder
  <2>3. \A g \in placed : \/ \E i \in DOMAIN pending : g \in pending[i].parts
                        \/ \E m \in DOMAIN sent' : Taken(m)' /\ g \in sent'[m].parts
    BY <1>3, <1>4 DEF OneOrder
  <2>. QED
    BY <1>1, <2>1, <2>2, <2>3 DEF OneOrder
<1>7. ~(cursor' > 0)
  BY <1>1
<1>. QED
  BY <1>1, <1>2, <1>3, <1>5, <1>6, <1>7 DEF IInv

LEMMA DieCompletingKeeps ==
  ASSUME IInv, NEW n \in DOMAIN sent, DieCompleting(n)
  PROVE  IInv'
<1>1. Restart(book, Over(n)) /\ UNCHANGED <<placed, due>>
  BY DEF DieCompleting, Over
<1>2. SentOK(Over(n), placed, due)
  BY CompletedOK
<1>3. Len(book) \in Nat
  BY LenProperties DEF IInv, TypeOK
<1>. QED
  BY <1>1, <1>2, <1>3, Typed, RestartKeeps DEF IInv

LEMMA CrashKeeps == ASSUME IInv, Crash PROVE IInv'
<1>1. Restart(book, sent) /\ UNCHANGED <<placed, due>>
  BY DEF Crash
<1>2. Len(book) \in Nat
  BY LenProperties DEF IInv, TypeOK
<1>. QED
  BY <1>1, <1>2, Typed, RestartKeeps DEF IInv

LEMMA TickKeeps == ASSUME IInv, Tick PROVE IInv'
<1>1. /\ clock < MaxTime /\ clock' = clock + 1
      /\ UNCHANGED <<book, pending, gate, cursor, began, placed, due, sent, crashes>>
  BY DEF Tick
<1>2. /\ clock \in Nat /\ clock' \in Nat /\ clock <= clock' /\ clock' \in 1..MaxTime
      /\ began <= clock' /\ Len(book) \in Nat /\ Len(book) <= Len(book)
      /\ placed \in SUBSET Trades
  <2>1. Len(book) \in Nat
    BY LenProperties DEF IInv, TypeOK
  <2>. QED
    BY <1>1, <2>1, Typed, Constants DEF TypeOK
<1>3. OrdersOK(pending, Len(book), placed, due, clock')
  <2>1. OrdersOK(pending, Len(book), placed, due, clock)
    BY DEF IInv
  <2>. QED
    BY <1>2, <2>1, OrdersGrow
<1>4. DueOK(placed, due, clock')
  <2>1. ASSUME NEW g \in placed PROVE due[g] <= TradeSchedule(g, clock')
    <3>1. /\ due[g] \in Nat /\ g \in Trades /\ due[g] <= TradeSchedule(g, clock)
      BY Typed DEF IInv, DueOK
    <3>2. /\ TradeSchedule(g, clock) \in Nat /\ TradeSchedule(g, clock') \in Nat
          /\ TradeSchedule(g, clock) <= TradeSchedule(g, clock')
      BY <1>2, <3>1, TradeScheduleIs
    <3>. QED
      BY <3>1, <3>2
  <2>. QED
    BY <2>1 DEF DueOK
<1>5. cursor = 0 => GateOK(pending, gate, clock', began)
  BY <1>2, GateGrows DEF IInv
<1>6. (cursor > 0 => GateInPass)'
  BY <1>1 DEF IInv, GateInPass
<1>7. (crashes = 0 => OneOrder)'
  BY <1>1 DEF IInv, OneOrder, Taken
<1>8. TypeOK'
  BY <1>1, <1>2, Typed DEF TypeOK
<1>. QED
  BY <1>1, <1>2, <1>3, <1>4, <1>5, <1>6, <1>7, <1>8 DEF IInv

LEMMA NextKeeps == IInv /\ [Next]_vars => IInv'
<1> SUFFICES ASSUME IInv, [Next]_vars PROVE IInv'
  OBVIOUS
<1>1. ASSUME NEW g \in Trades, PlaceTrade(g) PROVE IInv'
  BY <1>1, PlaceKeeps
<1>2. ASSUME NEW g \in Trades, DiePlacingTrade(g) PROVE IInv'
  BY <1>2, DiePlacingKeeps
<1>3. CASE BeginPass
  BY <1>3, BeginKeeps
<1>4. CASE Postpone
  BY <1>4, PostponeKeeps
<1>5. CASE HandOver
  BY <1>5, HandOverKeeps
<1>6. CASE EndPass
  BY <1>6, EndKeeps
<1>7. CASE HandOverFails
  BY <1>7, HandOverFailsKeeps
<1>8. CASE DieHandingOver
  BY <1>8, DieHandingKeeps
<1>9. ASSUME NEW n \in DOMAIN sent, OrderProgress(n) PROVE IInv'
  BY <1>9, ProgressKeeps
<1>10. ASSUME NEW n \in DOMAIN sent, OrderCompleted(n) PROVE IInv'
  BY <1>10, CompletedKeeps
<1>11. ASSUME NEW n \in DOMAIN sent, DieCompleting(n) PROVE IInv'
  BY <1>11, DieCompletingKeeps
<1>12. CASE Tick
  BY <1>12, TickKeeps
<1>13. CASE Crash
  BY <1>13, CrashKeeps
<1>14. CASE UNCHANGED vars
  BY <1>14 DEF vars, IInv, TypeOK, BookOK, OrdersOK, OrderOK, SentOK, DueOK, GateOK,
               OverdueSmall, GateInPass, OneOrder, Taken
<1>. QED
  BY <1>1, <1>2, <1>3, <1>4, <1>5, <1>6, <1>7, <1>8, <1>9, <1>10, <1>11, <1>12, <1>13, <1>14
     DEF Next, Process

\* The invariant of the trader holds in every state.
THEOREM Invariance == Spec => []IInv
<1>1. Init => IInv
  BY InitOK
<1>2. IInv /\ [Next]_vars => IInv'
  BY NextKeeps
<1>. QED
  BY <1>1, <1>2, PTL DEF Spec

-----------------------------------------------------------------------------
(* What the trader promises *)

\* Whatever the trades, the schedule and the failures of the broker, the book, the
\* pending orders and the orders sent keep their types; the loop of processTrades, which
\* erases orders while it goes through them, never leaves the list.
THEOREM TypeCorrect == Spec => []TypeOK
<1>1. IInv => TypeOK
  BY DEF IInv
<1>. QED
  BY <1>1, Invariance, PTL

\* Between two passes of processTrades m_nextScheduleTime hides no order worth the minimum
\* longer than until the next scheduled time, and hides one at all only because of an
\* overdue order that was too small.
THEOREM GateNotLate == Spec => []NoOversleep
<1>1. IInv => NoOversleep
  BY DEF IInv, GateOK, NoOversleep, OverdueSmall
<1>. QED
  BY <1>1, Invariance, PTL

\* No trade reaches the broker before its time or in an order below the minimum, however
\* often the process died and Start bundled it again.
THEOREM NoneEarly == Spec => []NotEarly
<1>1. IInv => NotEarly
  BY DEF IInv, SentOK, NotEarly
<1>. QED
  BY <1>1, Invariance, PTL

\* A set with a member that equals all the others has one member.
LEMMA OnlyMember == ASSUME NEW S, NEW x \in S, \A y \in S : y = x PROVE Cardinality(S) = 1
<1>1. S = {x}
  OBVIOUS
<1>. QED
  BY <1>1, FS_Singleton

\* While the process lives, every trade placed is in one order, pending or taken by the
\* broker: addTradeToOrders, the erasing of orders handed over and the failures of
\* placeBrokerOrder neither lose nor repeat one.
THEOREM EachInOneOrder == Spec => []InOneOrder
<1>1. IInv => InOneOrder
  <2> SUFFICES ASSUME IInv, crashes = 0, NEW g \in placed
               PROVE  Cardinality({i \in DOMAIN pending : g \in pending[i].parts})
                        + Cardinality({n \in DOMAIN sent :
                                         g \in sent[n].parts /\ sent[n].stage # "idle"}) = 1
    BY DEF InOneOrder
  <2> DEFINE A == {i \in DOMAIN pending : g \in pending[i].parts}
             B == {n \in DOMAIN sent : g \in sent[n].parts /\ sent[n].stage # "idle"}
  <2>1. OneOrder
    BY DEF IInv
  <2>2. \A i, j \in A : i = j
    BY <2>1 DEF OneOrder
  <2>3. \A m, n \in B : m = n
    BY <2>1 DEF OneOrder, Taken
  <2>4. A = {} \/ B = {}
    BY <2>1 DEF OneOrder, Taken
  <2>5. A # {} \/ B # {}
    BY <2>1 DEF OneOrder, Taken
  <2> HIDE DEF A, B
  <2>6. CASE A # {} /\ B = {}
    <3>1. Cardinality(A) = 1
      BY <2>2, <2>6, OnlyMember
    <3>2. Cardinality(B) = 0
      BY <2>6, FS_EmptySet
    <3>. QED
      BY <3>1, <3>2 DEF A, B
  <2>7. CASE B # {} /\ A = {}
    <3>1. Cardinality(B) = 1
      BY <2>3, <2>7, OnlyMember
    <3>2. Cardinality(A) = 0
      BY <2>7, FS_EmptySet
    <3>. QED
      BY <3>1, <3>2 DEF A, B
  <2>. QED
    BY <2>4, <2>5, <2>6, <2>7
<1>. QED
  BY <1>1, Invariance, PTL

=============================================================================
