---------------------------- MODULE EarningsProofs ----------------------------
(***************************************************************************)
(* Proofs about Earnings, for any wallets, connections and bounds.         *)
(*                                                                         *)
(* Entries are numbered as they arrive, and time does not go back          *)
(* (Numbered).  What was posted in any session is as old as the latest     *)
(* entry that was seen in this one, or nothing was seen yet (Told).  What  *)
(* is counted or traded has its transaction in the book (Once, and         *)
(* TradeBacked), so the assertion of onTransaction keeps it from being     *)
(* counted or traded again.                                                *)
(***************************************************************************)
EXTENDS Earnings, FiniteSetTheorems, WellFoundedInduction, TLAPS

-----------------------------------------------------------------------------
(* The invariant *)

Numbered ==
    /\ IsFiniteSet(ledger) /\ Cardinality(ledger) <= MaxEntries
    /\ \A e \in ledger : e.id <= Cardinality(ledger) /\ e.at <= clock
    /\ \A e, f \in ledger : e.id = f.id => e = f
    /\ \A e, f \in ledger : e.id < f.id => e.at <= f.at

Told ==
    /\ \A i \in posted : i <= Cardinality(ledger)
    /\ \A e \in ledger :
          e.id \in posted => seen[e.wallet] = 0 \/ e.at <= seen[e.wallet]

\* What is counted is booked; nothing is counted or traded twice.
Once ==
    /\ \A tx \in Ids : counted[tx] <= 1 /\ (counted[tx] > 0 => Booked(tx))
    /\ \A k, l \in DOMAIN trades : trades[k].tx = trades[l].tx => k = l

\* One earning of a transaction that is not about its trade.
BookedOnce ==
    \A i, j \in DOMAIN book :
        ~book[i].placed /\ ~book[j].placed /\ book[i].tx = book[j].tx => i = j

\* What was seen first and last: the latest entry seen is one of the wallet.
Watched ==
    \A w \in Wallets :
        /\ checked[w] = <<>> => started[w] = -1
        /\ checked[w] # <<>> => checked[w][2] <= Cardinality(ledger)
        /\ started[w] >= 0 =>
              /\ checked[w] # <<>>
              /\ \E f \in Of(w) : f.id <= checked[w][2] /\ f.at = seen[w]
        /\ started[w] < 0 => seen[w] = 0

IInv ==
    /\ TypeOK /\ Numbered /\ Told /\ Once /\ BookedOnce /\ TradeBacked
    /\ Watched /\ MissedForAReason

-----------------------------------------------------------------------------
(* Numbers, sequences and entries *)

NatOrder == OpToRel(<, Nat)

\* Every set of numbers has a least one.
LEMMA NatMin == ASSUME NEW T \in SUBSET Nat, T # {} PROVE \E x \in T : \A y \in T : x <= y
<1>1. IsWellFoundedOn(NatOrder, Nat)
  BY NatLessThanWellFounded, Zenon DEF NatOrder
<1>2. PICK x \in T : \A y \in T : ~(<<y, x>> \in NatOrder)
  BY <1>1, WFMin
<1>3. \A y, z \in Nat : y < z => <<y, z>> \in NatOrder
  BY Zenon DEF NatOrder, OpToRel
<1>4. ASSUME NEW y \in T PROVE x <= y
  <2>1. x \in Nat /\ y \in Nat
    OBVIOUS
  <2>2. ~(y < x)
    BY <1>2, <1>3, <2>1
  <2>. QED
    BY <2>1, <2>2
<1>. QED
  BY <1>4

\* Every bounded one has a greatest, which Max returns.
LEMMA NatMax ==
  ASSUME NEW n \in Nat, NEW T \in SUBSET (0..n), T # {}
  PROVE  Max(T) \in T /\ \A y \in T : Max(T) >= y
<1>1. PICK D : D = {n - y : y \in T}
  OBVIOUS
<1>2. D \in SUBSET Nat /\ D # {}
  <2>1. \A y \in T : n - y \in Nat
    OBVIOUS
  <2>. QED
    BY <1>1, <2>1
<1>3. PICK d \in D : \A e \in D : d <= e
  BY <1>2, NatMin
<1>4. PICK x \in T : d = n - x
  BY <1>1, <1>3
<1>5. ASSUME NEW y \in T PROVE x >= y
  <2>1. n - y \in D
    BY <1>1
  <2>2. n - x <= n - y /\ x \in Int /\ y \in Int
    BY <1>3, <1>4, <2>1
  <2>. QED
    BY <2>2
<1>. QED
  BY <1>5 DEF Max

LEMMA AppendIs ==
  ASSUME NEW S, NEW s \in Seq(S), NEW x \in S
  PROVE  /\ Append(s, x) \in Seq(S) /\ DOMAIN Append(s, x) = 1..Len(s) + 1
         /\ Append(s, x)[Len(s) + 1] = x
         /\ \A i \in DOMAIN s : i \in 1..Len(s) /\ Append(s, x)[i] = s[i]
         /\ DOMAIN s = 1..Len(s) /\ Len(s) \in Nat
  OBVIOUS

LEMMA MaxTimeOK ==
  /\ MaxTime \in Nat /\ MaxTime >= 1 /\ MaxEntries \in Nat /\ MaxEdits \in Nat
  /\ MaxRestarts \in Nat /\ Shown \in Nat \ {0}
  BY ConstantsOK

\* The latest time of some entries is 0 or the time of one of them, and none is later.
LEMMA LatestIs ==
  ASSUME NEW E, E \subseteq ledger, ledger \subseteq Entry
  PROVE  /\ Latest(E) \in 0..MaxTime
         /\ Latest(E) = 0 => E = {}
         /\ Latest(E) # 0 => \E e \in E : e.at = Latest(E)
         /\ \A e \in E : e.at <= Latest(E)
<1> DEFINE T == {0} \cup {e.at : e \in E}
<1>1. \A e \in E : e.at \in 1..MaxTime
  BY DEF Entry
<1>2. T \in SUBSET (0..MaxTime) /\ T # {}
  BY <1>1, MaxTimeOK
<1>3. Max(T) \in T /\ \A y \in T : Max(T) >= y
  <2> HIDE DEF T
  <2>. QED
    BY <1>2, NatMax, MaxTimeOK
<1>4. Latest(E) = Max(T)
  BY DEF Latest
<1>5. \A e \in E : e.at \in T
  OBVIOUS
<1>6. Latest(E) \in 0..MaxTime /\ \A e \in E : Latest(E) >= e.at
  BY <1>2, <1>3, <1>4, <1>5
<1>7. Latest(E) = 0 => E = {}
  BY <1>1, <1>6, MaxTimeOK
<1>8. Latest(E) # 0 => \E e \in E : e.at = Latest(E)
  BY <1>3, <1>4
<1>. QED
  BY <1>1, <1>6, <1>7, <1>8, MaxTimeOK

\* A check lists the newest entry of the wallet, if it has any.
LEMMA ListsNewest ==
  ASSUME TypeOK, Numbered, NEW w \in Wallets, NEW e \in Of(w)
  PROVE  \E g \in Listing(w) : e.id <= g.id /\ e.at <= g.at
<1> DEFINE T == {f.id : f \in Of(w)}
<1>1. Of(w) \subseteq ledger /\ ledger \subseteq Entry
  BY DEF Of, TypeOK
<1>2. T \in SUBSET (0..MaxEntries) /\ T # {}
  BY <1>1, MaxTimeOK DEF Entry, Ids
<1>3. Max(T) \in T /\ \A y \in T : Max(T) >= y
  <2> HIDE DEF T
  <2>. QED
    BY <1>2, NatMax, MaxTimeOK
<1>4. PICK g \in Of(w) : g.id = Max(T)
  BY <1>3
<1>5. \A f \in Of(w) : f.id \in Int /\ g.id >= f.id
  BY <1>1, <1>3, <1>4 DEF Entry, Ids
<1>6. {f \in Of(w) : f.id > g.id} = {}
  BY <1>5
<1>7. g \in Listing(w)
  BY <1>6, FS_EmptySet, MaxTimeOK DEF Listing
<1>8. e.id <= g.id
  BY <1>5
<1>9. e.at <= g.at
  <2>1. e \in ledger /\ g \in ledger /\ e \in Entry /\ g \in Entry
    BY <1>1
  <2>2. CASE e.id = g.id
    BY <2>1, <2>2 DEF Numbered, Entry
  <2>3. CASE e.id < g.id
    BY <2>1, <2>3 DEF Numbered
  <2>. QED
    BY <1>5, <1>8, <2>2, <2>3
<1>. QED
  BY <1>7, <1>8, <1>9

-----------------------------------------------------------------------------
(* Transactions arrive *)

\* n entries are numbered on from those there are.
LEMMA NewEntries ==
  ASSUME Numbered, ledger \subseteq Entry, clock \in 1..MaxTime, NEW w \in Wallets,
         NEW n \in Nat \ {0}, NEW income \in BOOLEAN, Receive(w, n, income)
  PROVE  /\ ledger \subseteq ledger' /\ ledger' \subseteq Entry /\ clock' = clock /\ Numbered'
         /\ Cardinality(ledger) \in Nat /\ Cardinality(ledger) <= Cardinality(ledger')
         /\ \A e \in ledger' \ ledger : e.id > Cardinality(ledger)
<1> DEFINE count == Cardinality(ledger)
           New1(i) == [id |-> i, tx |-> count + 1, wallet |-> w, at |-> clock, income |-> income]
           N == {New1(i) : i \in count + 1 .. count + 1 + n - 1}
<1>1. count \in Nat /\ IsFiniteSet(ledger) /\ count + n <= MaxEntries
  BY FS_CardinalityType DEF Numbered, Receive
<1>2. ledger' = ledger \cup N /\ clock' = clock
  BY DEF Receive
<1>3. \A e \in N : e \in Entry /\ e.id \in count + 1 .. count + n /\ e.at = clock
  BY <1>1, MaxTimeOK DEF Entry, Ids
<1>4. IsFiniteSet(N) /\ Cardinality(N) = n
  <2> DEFINE I == count + 1 .. count + 1 + n - 1
             f == [i \in I |-> New1(i)]
  <2>1. IsFiniteSet(I) /\ Cardinality(I) = n
    <3>1. count + 1 \in Int /\ count + 1 + n - 1 \in Int /\ ~(count + 1 > count + 1 + n - 1)
          /\ (count + 1 + n - 1) - (count + 1) + 1 = n
      BY <1>1
    <3> HIDE DEF count
    <3>. QED
      BY <3>1, FS_Interval
  <2>2. f \in Bijection(I, N)
    <3>1. \A i, j \in I : New1(i) = New1(j) => i = j
      OBVIOUS
    <3>2. f \in [I -> N] /\ \A i, j \in I : f[i] = f[j] => i = j
      BY <3>1
    <3>3. \A e \in N : \E i \in I : f[i] = e
      OBVIOUS
    <3>. QED
      BY <3>2, <3>3 DEF Bijection, Injection, Surjection, IsInjective
  <2>. QED
    BY <2>1, <2>2, FS_Bijection DEF ExistsBijection
<1>5. ledger \cap N = {}
  BY <1>1, <1>3 DEF Numbered, Entry, Ids
<1>6. IsFiniteSet(ledger') /\ Cardinality(ledger') = count + n
  <2>1. Cardinality(ledger \cap N) = 0
    BY <1>5, FS_EmptySet
  <2>. QED
    BY <1>1, <1>2, <1>4, <2>1, FS_Union
<1>7. \A e, f \in N : e.id = f.id => e = f
  OBVIOUS
<1>8. \A e \in ledger : e.id \in 1..count /\ e.at \in Int /\ e.at <= clock
  BY <1>1, MaxTimeOK DEF Numbered, Entry, Ids
<1> HIDE DEF N
<1>9. Numbered'
  <2>1. \A e \in ledger' : e.id <= Cardinality(ledger') /\ e.at <= clock'
    BY <1>1, <1>2, <1>3, <1>6, <1>8, MaxTimeOK
  <2>2. \A e, f \in ledger' : e.id = f.id => e = f
    BY <1>1, <1>2, <1>3, <1>7, <1>8 DEF Numbered
  <2>3. \A e, f \in ledger' : e.id < f.id => e.at <= f.at
    BY <1>1, <1>2, <1>3, <1>8, MaxTimeOK DEF Numbered
  <2>. QED
    BY <1>1, <1>6, <2>1, <2>2, <2>3 DEF Numbered
<1>10. \A e \in ledger' \ ledger : e.id > count
  BY <1>1, <1>2, <1>3
<1>. QED
  BY <1>1, <1>2, <1>3, <1>6, <1>9, <1>10

-----------------------------------------------------------------------------
(* What a connection writes *)

Row == [tx: Ids, placed: BOOLEAN]

\* What BookedOnce and TradeBacked say of a book.
GoodBook(b) ==
    /\ b \in Seq(Row)
    /\ \A i, j \in DOMAIN b : ~b[i].placed /\ ~b[j].placed /\ b[i].tx = b[j].tx => i = j
    /\ \A i \in DOMAIN b : b[i].placed =>
          \E j \in 1..i - 1 : ~b[j].placed /\ b[j].tx = b[i].tx

Has(b, tx) == \E i \in DOMAIN b : b[i].tx = tx

\* The first earning of a transaction keeps the book good.
LEMMA FirstEarning ==
  ASSUME NEW b, GoodBook(b), NEW r \in Row, r.placed = FALSE, ~Has(b, r.tx),
         NEW d, d = Append(b, r)
  PROVE  GoodBook(d) /\ Has(d, r.tx) /\ \A t : Has(b, t) => Has(d, t)
<1>1. b \in Seq(Row)
  BY DEF GoodBook
<1>2. /\ d \in Seq(Row) /\ DOMAIN d = 1..Len(b) + 1 /\ d[Len(b) + 1] = r
      /\ \A i \in DOMAIN b : i \in 1..Len(b) /\ d[i] = b[i]
      /\ DOMAIN b = 1..Len(b) /\ Len(b) \in Nat
  BY <1>1, AppendIs
<1>3. \A i \in DOMAIN d : i \in DOMAIN b \/ i = Len(b) + 1
  BY <1>2
<1>4. ASSUME NEW i \in DOMAIN d, NEW j \in DOMAIN d, ~d[i].placed, ~d[j].placed, d[i].tx = d[j].tx
      PROVE  i = j
  <2>1. CASE i \in DOMAIN b /\ j \in DOMAIN b
    BY <1>2, <1>4, <2>1 DEF GoodBook
  <2>2. CASE ~(i \in DOMAIN b /\ j \in DOMAIN b)
    BY <1>2, <1>3, <1>4, <2>2 DEF Has
  <2>. QED
    BY <2>1, <2>2
<1>5. ASSUME NEW i \in DOMAIN d, d[i].placed
      PROVE  \E j \in 1..i - 1 : ~d[j].placed /\ d[j].tx = d[i].tx
  <2>1. i \in DOMAIN b /\ d[i] = b[i] /\ i \in 1..Len(b)
    BY <1>2, <1>3, <1>5
  <2>2. PICK j \in 1..i - 1 : ~b[j].placed /\ b[j].tx = b[i].tx
    BY <1>5, <2>1 DEF GoodBook
  <2>3. j \in DOMAIN b
    BY <1>2, <2>1
  <2>. QED
    BY <1>2, <2>1, <2>2, <2>3
<1>6. Has(d, r.tx)
  BY <1>2 DEF Has
<1>7. \A t : Has(b, t) => Has(d, t)
  BY <1>2 DEF Has
<1>. QED
  BY <1>2, <1>4, <1>5, <1>6, <1>7 DEF GoodBook

\* So does one about its trade, once there is one of the income.
LEMMA SecondEarning ==
  ASSUME NEW b, GoodBook(b), NEW r \in Row, r.placed = TRUE, Has(b, r.tx),
         NEW d, d = Append(b, r)
  PROVE  GoodBook(d) /\ \A t : Has(b, t) => Has(d, t)
<1>1. b \in Seq(Row)
  BY DEF GoodBook
<1>2. /\ d \in Seq(Row) /\ DOMAIN d = 1..Len(b) + 1 /\ d[Len(b) + 1] = r
      /\ \A i \in DOMAIN b : i \in 1..Len(b) /\ d[i] = b[i]
      /\ DOMAIN b = 1..Len(b) /\ Len(b) \in Nat
  BY <1>1, AppendIs
<1>3. \A i \in DOMAIN d : i \in DOMAIN b \/ i = Len(b) + 1
  BY <1>2
<1>4. PICK k \in 1..Len(b) : ~b[k].placed /\ b[k].tx = r.tx
  <2>1. PICK i \in DOMAIN b : b[i].tx = r.tx
    BY DEF Has
  <2>2. i \in 1..Len(b)
    BY <1>2, <2>1
  <2>3. CASE ~b[i].placed
    BY <2>1, <2>2, <2>3
  <2>4. CASE b[i].placed
    <3>1. PICK j \in 1..i - 1 : ~b[j].placed /\ b[j].tx = b[i].tx
      BY <2>1, <2>4 DEF GoodBook
    <3>2. j \in 1..Len(b)
      BY <1>2, <2>2
    <3>. QED
      BY <2>1, <3>1, <3>2
  <2>. QED
    BY <2>3, <2>4
<1>5. ASSUME NEW i \in DOMAIN d, NEW j \in DOMAIN d, ~d[i].placed, ~d[j].placed, d[i].tx = d[j].tx
      PROVE  i = j
  <2>1. i # Len(b) + 1 /\ j # Len(b) + 1
    BY <1>2, <1>5
  <2>2. i \in DOMAIN b /\ j \in DOMAIN b
    BY <1>3, <2>1
  <2>. QED
    BY <1>2, <1>5, <2>2 DEF GoodBook
<1>6. ASSUME NEW i \in DOMAIN d, d[i].placed
      PROVE  \E j \in 1..i - 1 : ~d[j].placed /\ d[j].tx = d[i].tx
  <2>1. CASE i = Len(b) + 1
    <3>1. k \in 1..i - 1 /\ k \in DOMAIN b
      BY <1>2, <2>1
    <3>. QED
      BY <1>2, <1>4, <2>1, <3>1
  <2>2. CASE i \in DOMAIN b
    <3>1. d[i] = b[i] /\ i \in 1..Len(b)
      BY <1>2, <2>2
    <3>2. PICK j \in 1..i - 1 : ~b[j].placed /\ b[j].tx = b[i].tx
      BY <1>6, <2>2, <3>1 DEF GoodBook
    <3>3. j \in DOMAIN b
      BY <1>2, <3>1
    <3>. QED
      BY <1>2, <3>1, <3>2, <3>3
  <2>. QED
    BY <1>3, <2>1, <2>2
<1>7. \A t : Has(b, t) => Has(d, t)
  BY <1>2 DEF Has
<1>. QED
  BY <1>2, <1>5, <1>6, <1>7 DEF GoodBook

\* The books of one step are good ones, and the trades are backed.
LEMMA WrittenBook ==
  ASSUME TypeOK, BookedOnce, TradeBacked, NEW e \in Entry, NEW c \in Connections,
         NEW n \in 0..4, Written(e, c, n)
  PROVE  /\ GoodBook(book') /\ BookedOnce' /\ TradeBacked'
         /\ \A tx : Booked(tx) => Booked(tx)'
         /\ e.income /\ n >= 1 => Booked(e.tx)'
<1> DEFINE earning == IF e.income /\ n >= 1 THEN Added(e) ELSE book
<1>1. e.tx \in Ids
  BY DEF Entry
<1>2. GoodBook(book)
  BY DEF TypeOK, BookedOnce, TradeBacked, GoodBook, Row
<1>3. GoodBook(earning) /\ (\A t : Has(book, t) => Has(earning, t))
      /\ (e.income /\ n >= 1 => Has(earning, e.tx))
  <2>1. CASE earning = book /\ (e.income /\ n >= 1 => Has(book, e.tx))
    BY <1>2, <2>1
  <2>2. CASE earning = Append(book, [tx |-> e.tx, placed |-> FALSE]) /\ ~Has(book, e.tx)
    <3> HIDE DEF earning
    <3>1. PICK r, d : r = [tx |-> e.tx, placed |-> FALSE] /\ d = earning
      OBVIOUS
    <3>2. r \in Row /\ r.placed = FALSE /\ r.tx = e.tx
      BY <1>1, <3>1 DEF Row
    <3>3. d = Append(book, r) /\ ~Has(book, r.tx)
      BY <2>2, <3>1, <3>2
    <3>4. GoodBook(d)
      BY <1>2, <3>2, <3>3, FirstEarning, Zenon
    <3>5. Has(d, r.tx)
      BY <1>2, <3>2, <3>3, FirstEarning, Zenon
    <3>6. \A t : Has(book, t) => Has(d, t)
      BY <1>2, <3>2, <3>3, FirstEarning, Zenon
    <3>. QED
      BY <3>1, <3>2, <3>4, <3>5, <3>6
  <2>3. \/ earning = book /\ (e.income /\ n >= 1 => Has(book, e.tx))
        \/ earning = Append(book, [tx |-> e.tx, placed |-> FALSE]) /\ ~Has(book, e.tx)
    <3>1. CASE e.income /\ n >= 1
      <4>1. Booked(e.tx) = Has(book, e.tx)
        BY DEF Booked, Has
      <4>. QED
        BY <3>1, <4>1 DEF Added
    <3>2. CASE ~(e.income /\ n >= 1)
      BY <3>2
    <3>. QED
      BY <3>1, <3>2
  <2>. QED
    BY <2>1, <2>2, <2>3
<1>4. GoodBook(book') /\ (\A t : Has(earning, t) => Has(book', t))
  <2>1. CASE book' = earning
    BY <1>3, <2>1
  <2>2. CASE book' = Append(earning, [tx |-> e.tx, placed |-> TRUE]) /\ e.income /\ n >= 1
    <3>1. Has(earning, e.tx)
      BY <1>3, <2>2
    <3> HIDE DEF earning
    <3>2. GoodBook(earning)
      BY <1>3
    <3>3. book' = Append(earning, [tx |-> e.tx, placed |-> TRUE])
      BY <2>2
    <3>4. GoodBook(book') /\ \A t : Has(earning, t) => Has(book', t)
      <4>1. PICK b, r, d : b = earning /\ r = [tx |-> e.tx, placed |-> TRUE] /\ d = book'
        OBVIOUS
      <4>2. r \in Row /\ r.placed = TRUE /\ Has(b, r.tx)
        BY <1>1, <3>1, <4>1 DEF Row
      <4>3. GoodBook(b) /\ d = Append(b, r)
        BY <3>2, <3>3, <4>1
      <4>4. GoodBook(d)
        BY <4>2, <4>3, SecondEarning, Zenon
      <4>5. \A t : Has(b, t) => Has(d, t)
        BY <4>2, <4>3, SecondEarning, Zenon
      <4>. QED
        BY <4>1, <4>4, <4>5
    <3>. QED
      BY <3>4
  <2>3. n >= 4 => n >= 1
    OBVIOUS
  <2>. QED
    BY <2>1, <2>2, <2>3, Zenon DEF Written
<1>5. \A t : Booked(t) => Has(book', t)
  BY <1>3, <1>4 DEF Booked, Has
<1>6. \A k \in DOMAIN trades' : Has(book', trades'[k].tx)
  <2>1. CASE trades' = trades
    BY <1>5, <2>1 DEF TradeBacked
  <2>2. CASE trades' = Append(trades, Trade(c, e)) /\ e.income /\ n >= 1
    <3>1. Has(book', e.tx)
      BY <1>3, <1>4, <2>2
    <3>2. Trade(c, e) \in [tx: Ids, by: Connections] /\ Trade(c, e).tx = e.tx
      BY DEF Trade, Entry
    <3>3. trades \in Seq([tx: Ids, by: Connections])
      BY DEF TypeOK
    <3>4. /\ DOMAIN trades' = 1..Len(trades) + 1
          /\ trades'[Len(trades) + 1] = Trade(c, e)
          /\ \A i \in DOMAIN trades : i \in 1..Len(trades) /\ trades'[i] = trades[i]
          /\ DOMAIN trades = 1..Len(trades) /\ Len(trades) \in Nat
      <4>1. PICK S : S = [tx: Ids, by: Connections]
        OBVIOUS
      <4>2. PICK x : x = Trade(c, e)
        OBVIOUS
      <4>3. trades \in Seq(S) /\ x \in S /\ trades' = Append(trades, x)
        BY <2>2, <3>2, <3>3, <4>1, <4>2
      <4>. QED
        BY <4>2, <4>3
    <3>5. \A k \in DOMAIN trades' : k \in DOMAIN trades \/ k = Len(trades) + 1
      BY <3>4
    <3>. QED
      BY <1>5, <3>1, <3>2, <3>4, <3>5 DEF TradeBacked
  <2>3. n >= 3 => n >= 1
    OBVIOUS
  <2>. QED
    BY <2>1, <2>2, <2>3, Zenon DEF Written
<1>7. BookedOnce' /\ TradeBacked'
  BY <1>4, <1>6 DEF GoodBook, BookedOnce, TradeBacked, Booked, Has
<1>8. (\A tx : Booked(tx) => Booked(tx)') /\ (e.income /\ n >= 1 => Booked(e.tx)')
  <2>1. \A tx : Has(book', tx) => Booked(tx)'
    BY DEF Booked, Has
  <2>. QED
    BY <1>3, <1>4, <1>5, <2>1
<1>. QED
  BY <1>4, <1>7, <1>8

\* The transaction of an income that is not in the book has not been counted or traded;
\* one connection does each once at most.
LEMMA WrittenOnce ==
  ASSUME TypeOK, Once, BookedOnce, TradeBacked, NEW e \in Entry, NEW c \in Connections,
         NEW n \in 0..4, ~Again(e), Written(e, c, n)
  PROVE  /\ counted' \in [Ids -> Nat]
         /\ trades' \in Seq([tx: Ids, by: Connections])
         /\ Once'
<1> DEFINE S == [tx: Ids, by: Connections]
<1>1. e.tx \in Ids /\ Trade(c, e) \in S /\ Trade(c, e).tx = e.tx
  BY DEF Entry, Trade
<1>2. counted \in [Ids -> Nat] /\ trades \in Seq(S)
  BY DEF TypeOK
<1>3. (\A tx : Booked(tx) => Booked(tx)') /\ (e.income /\ n >= 1 => Booked(e.tx)')
  BY WrittenBook
<1>4. e.income => ~Booked(e.tx)
  BY DEF Again
<1>5. counted' = counted \/ (counted' = [counted EXCEPT ![e.tx] = @ + 1] /\ e.income /\ n >= 2)
  BY Zenon DEF Written
<1>6. trades' = trades \/ (trades' = Append(trades, Trade(c, e)) /\ e.income)
  BY Zenon DEF Written
<1>7. /\ counted' \in [Ids -> Nat]
      /\ \A tx \in Ids : counted'[tx] <= 1 /\ (counted'[tx] > 0 => Booked(tx)')
  <2>1. CASE counted' = counted
    BY <1>2, <1>3, <2>1 DEF Once
  <2>2. CASE counted' = [counted EXCEPT ![e.tx] = @ + 1] /\ e.income /\ n >= 2
    <3>1. ~Booked(e.tx) /\ Booked(e.tx)'
      BY <1>3, <1>4, <2>2
    <3>2. counted[e.tx] = 0
      BY <1>1, <1>2, <3>1 DEF Once
    <3>3. counted' \in [Ids -> Nat] /\ counted'[e.tx] = 1
      BY <1>1, <1>2, <2>2, <3>2
    <3>4. \A tx \in Ids : tx # e.tx => counted'[tx] = counted[tx]
      BY <1>1, <1>2, <2>2
    <3>. QED
      BY <1>3, <3>1, <3>3, <3>4 DEF Once
  <2>. QED
    BY <1>5, <2>1, <2>2
<1>8. /\ trades' \in Seq(S)
      /\ \A k, l \in DOMAIN trades' : trades'[k].tx = trades'[l].tx => k = l
  <2>1. CASE trades' = trades
    BY <1>2, <2>1 DEF Once
  <2>2. CASE trades' = Append(trades, Trade(c, e)) /\ e.income
    <3>1. PICK T, x : T = S /\ x = Trade(c, e)
      OBVIOUS
    <3>2. trades \in Seq(T) /\ x \in T /\ trades' = Append(trades, x)
      BY <1>1, <1>2, <2>2, <3>1
    <3>3. /\ trades' \in Seq(T) /\ trades'[Len(trades) + 1] = x
          /\ \A k \in DOMAIN trades' : k \in DOMAIN trades \/ k = Len(trades) + 1
          /\ \A k \in DOMAIN trades : trades'[k] = trades[k]
      BY <3>2
    <3>4. \A k \in DOMAIN trades : trades[k].tx # e.tx
      BY <1>4, <2>2 DEF TradeBacked
    <3>5. x.tx = e.tx
      BY <1>1, <3>1
    <3>6. \A k, l \in DOMAIN trades' : trades'[k].tx = trades'[l].tx => k = l
      BY <3>3, <3>4, <3>5 DEF Once
    <3>. QED
      BY <3>1, <3>3, <3>6
  <2>. QED
    BY <1>6, <2>1, <2>2
<1>. QED
  BY <1>7, <1>8 DEF Once

-----------------------------------------------------------------------------
(* A check *)

\* What a wallet has seen does not get older, and covers what is listed.
LEMMA SeenGrows ==
  ASSUME TypeOK, NEW w \in Wallets, Poll(w)
  PROVE  /\ seen' \in [Wallets -> 0..MaxTime]
         /\ seen'[w] \in 0..MaxTime /\ seen[w] \in 0..MaxTime /\ seen[w] <= seen'[w]
         /\ \A e \in Listing(w) : e.at <= seen'[w]
         /\ seen'[w] = seen[w] \/ \E e \in Listing(w) : e.at = seen'[w]
         /\ Listing(w) = {} => seen'[w] = seen[w]
         /\ \A v \in Wallets \ {w} : seen'[v] = seen[v]
<1> DEFINE l == Latest(Listing(w))
<1>1. Listing(w) \subseteq ledger /\ ledger \subseteq Entry
  BY DEF Listing, Of, TypeOK
<1>2. /\ l \in 0..MaxTime /\ (l # 0 => \E e \in Listing(w) : e.at = l)
      /\ \A e \in Listing(w) : e.at <= l
  BY <1>1, LatestIs
<1>3. seen[w] \in 0..MaxTime /\ seen \in [Wallets -> 0..MaxTime]
  BY DEF TypeOK
<1>4. seen' = [seen EXCEPT ![w] = Max({seen[w], l})]
  BY DEF Poll
<1> HIDE DEF l
<1>5. {seen[w], l} \in SUBSET (0..MaxTime) /\ {seen[w], l} # {}
  BY <1>2, <1>3
<1>6. Max({seen[w], l}) \in {seen[w], l} /\ \A y \in {seen[w], l} : Max({seen[w], l}) >= y
  <2>1. PICK T : T = {seen[w], l}
    OBVIOUS
  <2>2. Max(T) \in T /\ \A y \in T : Max(T) >= y
    BY <1>5, <2>1, NatMax, MaxTimeOK
  <2>. QED
    BY <2>1, <2>2
<1>7. seen'[w] = Max({seen[w], l}) /\ \A v \in Wallets \ {w} : seen'[v] = seen[v]
  BY <1>3, <1>4
<1>8. seen'[w] \in {seen[w], l} /\ seen'[w] >= seen[w] /\ seen'[w] >= l
  BY <1>6, <1>7
<1>9. seen' \in [Wallets -> 0..MaxTime]
  BY <1>2, <1>3, <1>4, <1>6
<1>10. Listing(w) = {} => seen'[w] = seen[w]
  BY <1>2, <1>3, <1>8
<1>11. seen'[w] = seen[w] \/ \E e \in Listing(w) : e.at = seen'[w]
  <2>1. CASE l = 0
    BY <1>3, <1>8, <2>1
  <2>. QED
    BY <1>2, <1>8, <2>1
<1>12. \A e \in Listing(w) : e.at <= seen'[w]
  <2>1. \A e \in Listing(w) : e.at \in Int
    BY <1>1, MaxTimeOK DEF Entry
  <2>. QED
    BY <1>2, <1>8, <1>9, <2>1
<1>. QED
  BY <1>3, <1>7, <1>8, <1>9, <1>10, <1>11, <1>12, MaxTimeOK

LEMMA PollTells ==
  ASSUME IInv, NEW w \in Wallets, Poll(w)
  PROVE  TypeOK' /\ Told' /\ Once' /\ posted \subseteq posted'
<1> DEFINE new == New(w, Listing(w))
           count == Cardinality(ledger)
<1>1. \A e \in new : e \in ledger /\ e.wallet = w /\ e \in Listing(w) /\ e.id \in Ids
  BY DEF New, Listing, Of, IInv, TypeOK, Entry
<1>2. posted' = posted \cup {e.id : e \in new} /\ ledger' = ledger /\ todo' = new \X subs[w]
  BY DEF Poll
<1> HIDE DEF new
<1>3. posted' \subseteq Ids /\ posted \subseteq posted'
  BY <1>1, <1>2 DEF IInv, TypeOK
<1>4. subs[w] \in SUBSET Connections
  BY DEF IInv, TypeOK
<1>5. todo' \subseteq ledger' \X Connections
  BY <1>1, <1>2, <1>4
<1>6. count \in 0..MaxEntries
  BY FS_CardinalityType DEF IInv, Numbered
<1>7. TypeOK'
  <2>1. started' \in [Wallets -> -1..MaxEntries]
    BY <1>6, MaxTimeOK DEF IInv, TypeOK, Poll
  <2>2. checked' \in [Wallets -> {<<>>} \cup (0..MaxEntries) \X (0..MaxEntries)]
    <3>1. checked[w] = <<>> \/ checked[w][1] \in 0..MaxEntries
      BY DEF IInv, TypeOK
    <3>. QED
      BY <1>6, <3>1 DEF IInv, TypeOK, Poll
  <2>3. seen' \in [Wallets -> 0..MaxTime]
    BY SeenGrows DEF IInv
  <2>. QED
    BY <1>3, <1>5, <2>1, <2>2, <2>3 DEF IInv, TypeOK, Poll
<1>8. Told'
  <2>1. ASSUME NEW i \in posted' PROVE i <= count
    <3>1. \A e \in ledger : e.id <= count
      BY DEF IInv, Numbered
    <3>. QED
      BY <1>1, <1>2, <2>1, <3>1 DEF IInv, Told
  <2>2. ASSUME NEW e \in ledger, e.id \in posted'
        PROVE  seen'[e.wallet] = 0 \/ e.at <= seen'[e.wallet]
    <3>0. e \in Entry /\ e.wallet \in Wallets /\ e.at \in Int
      BY MaxTimeOK DEF IInv, TypeOK, Entry
    <3>1. CASE e.wallet # w
      <4>1. e.id \in posted
        BY <1>1, <1>2, <2>2, <3>1 DEF IInv, Numbered
      <4>2. seen'[e.wallet] = seen[e.wallet]
        BY <3>0, <3>1, SeenGrows DEF IInv
      <4>. QED
        BY <4>1, <4>2 DEF IInv, Told
    <3>2. CASE e.wallet = w
      <4>1. e \in Of(w)
        BY <3>2 DEF Of
      <4>2. PICK g \in Listing(w) : e.at <= g.at
        BY <4>1, ListsNewest DEF IInv
      <4>3. g.at <= seen'[w] /\ seen'[w] \in Int
        BY SeenGrows, MaxTimeOK DEF IInv
      <4>4. g \in Entry /\ g.at \in Int
        BY MaxTimeOK DEF Listing, Of, IInv, TypeOK, Entry
      <4>. QED
        BY <3>0, <3>2, <4>2, <4>3, <4>4
    <3>. QED
      BY <3>1, <3>2
  <2>. QED
    BY <1>2, <2>1, <2>2 DEF Told
<1>9. Once'
  BY DEF Poll, IInv, Once, Booked
<1>. QED
  BY <1>3, <1>7, <1>8, <1>9

LEMMA PollWatches ==
  ASSUME IInv, NEW w \in Wallets, Poll(w)
  PROVE  Watched'
<1> DEFINE count == Cardinality(ledger)
<1>1. count \in Nat
  BY FS_CardinalityType DEF IInv, Numbered
<1>2. ledger' = ledger /\ checked'[w] # <<>> /\ checked'[w][2] = count
  BY DEF Poll, IInv, TypeOK
<1>3. started'[w] = IF started[w] < 0 /\ Listing(w) # {} THEN count ELSE started[w]
  BY DEF Poll, IInv, TypeOK
<1>4. \A v \in Wallets \ {w} : checked'[v] = checked[v] /\ started'[v] = started[v]
  BY DEF Poll, IInv, TypeOK
<1>5. \A e \in Listing(w) : e \in Of(w) /\ e.id <= count /\ e.at \in 1..MaxTime
  BY DEF Listing, Of, IInv, Numbered, TypeOK, Entry
<1>6. seen'[w] \in Int /\ seen[w] \in Int /\ started[w] \in Int
  BY SeenGrows, MaxTimeOK DEF IInv, TypeOK
<1>7. ASSUME started'[w] >= 0 PROVE \E f \in Of(w) : f.id <= count /\ f.at = seen'[w]
  <2>1. CASE \E e \in Listing(w) : e.at = seen'[w]
    BY <1>5, <2>1
  <2>2. CASE ~(\E e \in Listing(w) : e.at = seen'[w])
    <3>1. seen'[w] = seen[w]
      BY <2>2, SeenGrows DEF IInv
    <3>2. started[w] >= 0
      <4>1. CASE started[w] < 0
        <5>1. seen[w] = 0 /\ Listing(w) # {}
          BY <1>3, <1>6, <1>7, <4>1 DEF IInv, Watched
        <5>2. PICK e \in Listing(w) : TRUE
          BY <5>1
        <5>3. e.at >= 1 /\ e.at <= 0
          BY <1>5, <3>1, <5>1, <5>2, SeenGrows DEF IInv
        <5>. QED
          BY <1>5, <5>2, <5>3, MaxTimeOK
      <4>. QED
        BY <1>6, <4>1
    <3>3. PICK f \in Of(w) : f.id <= checked[w][2] /\ f.at = seen[w]
      BY <3>2 DEF IInv, Watched
    <3>4. f.id <= count
      BY DEF Of, IInv, Numbered
    <3>. QED
      BY <3>1, <3>3, <3>4
  <2>. QED
    BY <2>1, <2>2
<1>8. ASSUME started'[w] < 0 PROVE seen'[w] = 0
  <2>1. started[w] < 0 /\ Listing(w) = {}
    BY <1>1, <1>3, <1>6, <1>8
  <2>2. seen[w] = 0
    BY <2>1 DEF IInv, Watched
  <2>. QED
    BY <2>1, <2>2, SeenGrows DEF IInv
<1>9. Of(w)' = Of(w) /\ \A v \in Wallets : Of(v)' = Of(v)
  BY <1>2 DEF Of
<1>10. \A v \in Wallets \ {w} : seen'[v] = seen[v]
  BY SeenGrows DEF IInv
<1>11. ASSUME NEW v \in Wallets
       PROVE  /\ checked'[v] = <<>> => started'[v] = -1
              /\ checked'[v] # <<>> => checked'[v][2] <= Cardinality(ledger')
              /\ started'[v] >= 0 =>
                    /\ checked'[v] # <<>>
                    /\ \E f \in Of(v)' : f.id <= checked'[v][2] /\ f.at = seen'[v]
              /\ started'[v] < 0 => seen'[v] = 0
  <2>1. CASE v = w
    BY <1>1, <1>2, <1>7, <1>8, <1>9, <2>1
  <2>2. CASE v # w
    BY <1>2, <1>4, <1>9, <1>10, <2>2 DEF IInv, Watched
  <2>. QED
    BY <2>1, <2>2
<1>. QED
  BY <1>11 DEF Watched

LEMMA PollMisses ==
  ASSUME IInv, NEW w \in Wallets, Poll(w)
  PROVE  MissedForAReason'
<1> DEFINE count == Cardinality(ledger)
<1>1. count \in Nat /\ IsFiniteSet(ledger)
  BY FS_CardinalityType DEF IInv, Numbered
<1>2. ledger' = ledger /\ checked'[w][2] = count /\ posted \subseteq posted'
  BY DEF Poll, IInv, TypeOK
<1>3. started'[w] = IF started[w] < 0 /\ Listing(w) # {} THEN count ELSE started[w]
  BY DEF Poll, IInv, TypeOK
<1>4. \A v \in Wallets \ {w} : checked'[v] = checked[v] /\ started'[v] = started[v]
  BY DEF Poll, IInv, TypeOK
<1>5. \A v \in Wallets : Of(v)' = Of(v) /\ Of(v) \subseteq ledger
  BY <1>2 DEF Of
<1>6. \A e \in ledger : e \in Entry /\ e.id \in Int /\ e.at \in Int /\ e.id <= count
  BY MaxTimeOK DEF IInv, TypeOK, Entry, Ids, Numbered
<1>7. ASSUME started'[w] >= 0, NEW e \in Missed(w)'
      PROVE  \/ \E f \in Of(w) : f.id < e.id /\ f.at = e.at
             \/ Cardinality({f \in Of(w) : f.id > e.id /\ f.id <= count}) >= Shown
  <2>1. e \in Of(w) /\ e.income /\ e.id > started'[w] /\ e.id \notin posted' /\ e \in ledger
    BY <1>2, <1>5, <1>7 DEF Missed
  <2>2. started[w] >= 0 /\ started[w] \in Int /\ started'[w] = started[w]
    <3>1. started[w] \in Int
      BY MaxTimeOK DEF IInv, TypeOK
    <3>2. started'[w] # count
      BY <1>1, <1>6, <2>1
    <3>. QED
      BY <1>3, <1>7, <3>1, <3>2
  <2>3. checked[w] # <<>> /\ checked[w][2] <= count /\ checked[w][2] \in Int
    <3>1. checked[w] # <<>> /\ checked[w][2] <= count
      BY <2>2 DEF IInv, Watched
    <3>2. checked[w] \in {<<>>} \cup (0..MaxEntries) \X (0..MaxEntries)
      BY DEF IInv, TypeOK
    <3>. QED
      BY <3>1, <3>2, MaxTimeOK
  <2>4. PICK f \in Of(w) : f.id <= checked[w][2] /\ f.at = seen[w]
    BY <2>2 DEF IInv, Watched
  <2>5. f \in Entry /\ f \in ledger /\ seen[w] # 0 /\ seen[w] \in Int
    BY <1>5, <2>4, MaxTimeOK DEF IInv, TypeOK, Entry
  <2>6. CASE e \notin Listing(w)
    <3>1. ~(Cardinality({g \in Of(w) : g.id > e.id}) < Shown)
      BY <2>1, <2>6 DEF Listing
    <3>2. {g \in Of(w) : g.id > e.id} = {g \in Of(w) : g.id > e.id /\ g.id <= count}
      BY <1>5, <1>6
    <3>3. Cardinality({g \in Of(w) : g.id > e.id}) \in Nat
      BY <1>1, <1>5, FS_Subset, FS_CardinalityType
    <3>4. Cardinality({g \in Of(w) : g.id > e.id}) >= Shown
      <4>1. Shown \in Nat
        BY MaxTimeOK
      <4>. QED
        BY <3>1, <3>3, <4>1
    <3>. QED
      BY <3>2, <3>4
  <2>7. CASE e \in Listing(w)
    <3>1. e \notin New(w, Listing(w))
      BY <2>1 DEF Poll
    <3>2. e.at <= seen[w]
      BY <1>6, <2>1, <2>5, <2>7, <3>1 DEF New
    <3>3. CASE e.id <= checked[w][2]
      <4>1. e \in Missed(w)
        BY <1>2, <2>1, <2>2, <3>3 DEF Missed
      <4>2. CASE \E g \in Of(w) : g.id < e.id /\ g.at = e.at
        BY <4>2
      <4>3. CASE Cardinality({g \in Of(w) : g.id > e.id /\ g.id <= checked[w][2]}) >= Shown
        <5> DEFINE A == {g \in Of(w) : g.id > e.id /\ g.id <= checked[w][2]}
                   B == {g \in Of(w) : g.id > e.id /\ g.id <= count}
        <5>1. A \subseteq B /\ B \subseteq ledger
          BY <1>1, <1>5, <1>6, <2>3
        <5>2. IsFiniteSet(B)
          BY <1>1, <5>1, FS_Subset
        <5>3. Cardinality(A) <= Cardinality(B)
          BY <5>1, <5>2, FS_Subset
        <5>4. Cardinality(A) \in Nat /\ Cardinality(B) \in Nat
          BY <5>1, <5>2, FS_Subset, FS_CardinalityType
        <5>. QED
          BY <4>3, <5>3, <5>4, MaxTimeOK
      <4>. QED
        BY <2>2, <4>1, <4>2, <4>3 DEF IInv, MissedForAReason
    <3>4. CASE e.id > checked[w][2]
      <4>1. f.id < e.id
        BY <1>6, <2>1, <2>3, <2>4, <2>5, <3>4
      <4>2. f.at <= e.at
        BY <2>1, <2>5, <4>1 DEF IInv, Numbered
      <4>3. f.at = e.at
        BY <1>6, <2>1, <2>4, <2>5, <3>2, <4>2
      <4>. QED
        BY <2>4, <4>1, <4>3
    <3>. QED
      BY <1>6, <2>1, <2>3, <3>3, <3>4
  <2>. QED
    BY <2>6, <2>7
<1>8. ASSUME NEW v \in Wallets \ {w}, started'[v] >= 0, NEW e \in Missed(v)'
      PROVE  \/ \E f \in Of(v) : f.id < e.id /\ f.at = e.at
             \/ Cardinality({f \in Of(v) : f.id > e.id /\ f.id <= checked[v][2]}) >= Shown
  <2>1. e \in Missed(v)
    BY <1>2, <1>4, <1>5, <1>8 DEF Missed
  <2>2. started[v] >= 0
    BY <1>4, <1>8
  <2>. QED
    BY <2>1, <2>2 DEF IInv, MissedForAReason
<1>. QED
  BY <1>2, <1>4, <1>5, <1>7, <1>8 DEF MissedForAReason

-----------------------------------------------------------------------------
(* The other steps *)

LEMMA InitOK == Init => IInv
<1> SUFFICES ASSUME Init PROVE IInv
  OBVIOUS
<1>1. Cardinality(ledger) = 0 /\ IsFiniteSet(ledger)
  BY FS_EmptySet DEF Init
<1>2. TypeOK
  <2>1. 1 \in 1..MaxTime
    BY MaxTimeOK
  <2>. QED
    BY <2>1, ConstantsOK DEF Init, TypeOK, Subscribed
<1>. QED
  BY <1>1, <1>2, ConstantsOK
     DEF Init, IInv, Numbered, Told, Once, BookedOnce, TradeBacked, Watched,
         MissedForAReason

\* The entries that arrive are newer than what was seen, posted or checked.
LEMMA ReceiveKeeps ==
  ASSUME IInv, NEW w \in Wallets, NEW n \in Nat \ {0}, NEW income \in BOOLEAN,
         Receive(w, n, income)
  PROVE  IInv'
<1> DEFINE count == Cardinality(ledger)
<1>1. /\ ledger \subseteq ledger' /\ ledger' \subseteq Entry /\ clock' = clock /\ Numbered'
      /\ count \in Nat /\ count <= Cardinality(ledger')
      /\ \A e \in ledger' \ ledger : e.id > count
  BY NewEntries DEF IInv, TypeOK
<1>2. UNCHANGED <<list, wallet, subs, seen, todo, book, counted, trades, started,
                  checked, posted, edits, restarts>>
  BY DEF Receive, Inside
<1>3. Cardinality(ledger') \in Nat
  BY <1>1, FS_CardinalityType DEF Numbered
<1>4. TypeOK'
  BY <1>1, <1>2 DEF IInv, TypeOK
<1>5. posted \subseteq Ids
  BY DEF IInv, TypeOK
<1>6. Told'
  <2>1. \A i \in posted : i \in Nat /\ i <= count
    BY <1>5 DEF IInv, Told, Ids
  <2>2. \A e \in ledger' : e.id \in posted => e \in ledger
    <3>1. \A e \in ledger' : e.id \in Nat
      BY <1>1 DEF Entry, Ids
    <3>. QED
      BY <1>1, <2>1, <3>1
  <2>3. \A i \in posted' : i <= Cardinality(ledger')
    BY <1>1, <1>2, <1>3, <2>1
  <2>4. \A e \in ledger' :
           e.id \in posted' => seen'[e.wallet] = 0 \/ e.at <= seen'[e.wallet]
    BY <1>2, <2>2 DEF IInv, Told
  <2>. QED
    BY <2>3, <2>4 DEF Told
<1>7. Once' /\ BookedOnce' /\ TradeBacked'
  BY <1>2 DEF IInv, Once, BookedOnce, TradeBacked, Booked
<1>8. ASSUME NEW v \in Wallets, checked[v] # <<>>
      PROVE  checked[v][2] \in Nat /\ checked[v][2] <= count
  <2>1. checked[v] \in {<<>>} \cup (0..MaxEntries) \X (0..MaxEntries)
    BY DEF IInv, TypeOK
  <2>. QED
    BY <1>8, <2>1, MaxTimeOK DEF IInv, Watched
<1>9. \A v \in Wallets : Of(v) \subseteq Of(v)'
  BY <1>1 DEF Of
<1>10. Watched'
  <2>1. ASSUME NEW v \in Wallets
        PROVE  /\ checked[v] = <<>> => started[v] = -1
               /\ checked[v] # <<>> => checked[v][2] <= Cardinality(ledger')
               /\ started[v] >= 0 =>
                     /\ checked[v] # <<>>
                     /\ \E f \in Of(v)' : f.id <= checked[v][2] /\ f.at = seen[v]
               /\ started[v] < 0 => seen[v] = 0
    BY <1>1, <1>3, <1>8, <1>9 DEF IInv, Watched
  <2>. QED
    BY <1>2, <2>1 DEF Watched
<1>11. MissedForAReason'
  <2>1. ASSUME NEW v \in Wallets, started[v] >= 0, NEW e \in Missed(v)'
        PROVE  \/ \E f \in Of(v)' : f.id < e.id /\ f.at = e.at
               \/ Cardinality({f \in Of(v)' : f.id > e.id /\ f.id <= checked[v][2]}) >= Shown
    <3>1. checked[v] # <<>> /\ checked[v][2] \in Nat /\ checked[v][2] <= count
      BY <1>8, <2>1 DEF IInv, Watched
    <3>2. \A f \in Of(v)' : f.id \in Nat /\ (f.id <= checked[v][2] => f \in Of(v))
      <4>1. \A f \in Of(v)' : f \in ledger' /\ f.id \in Nat /\ f.wallet = v
        BY <1>1 DEF Of, Entry, Ids
      <4>2. \A f \in Of(v)' : f.id <= checked[v][2] => f \in ledger
        BY <1>1, <3>1, <4>1
      <4>. QED
        BY <4>1, <4>2 DEF Of
    <3>3. e \in Missed(v)
      BY <1>2, <2>1, <3>2 DEF Missed
    <3>4. {f \in Of(v)' : f.id > e.id /\ f.id <= checked[v][2]}
             = {f \in Of(v) : f.id > e.id /\ f.id <= checked[v][2]}
      BY <1>9, <3>2
    <3>. QED
      BY <1>9, <2>1, <3>3, <3>4 DEF IInv, MissedForAReason
  <2>. QED
    BY <1>2, <2>1 DEF MissedForAReason
<1>. QED
  BY <1>1, <1>4, <1>6, <1>7, <1>10, <1>11 DEF IInv

\* What a connection that is told writes leaves the book, the total and the trades right.
LEMMA WrittenKeeps ==
  ASSUME IInv, NEW p \in todo, NEW n \in 0..4, ~Again(p[1]), Written(p[1], p[2], n)
  PROVE  /\ book' \in Seq([tx: Ids, placed: BOOLEAN]) /\ BookedOnce' /\ TradeBacked'
         /\ counted' \in [Ids -> Nat]
         /\ trades' \in Seq([tx: Ids, by: Connections])
         /\ Once'
<1>1. p[1] \in Entry /\ p[2] \in Connections
  BY DEF IInv, TypeOK
<1>2. GoodBook(book') /\ BookedOnce' /\ TradeBacked'
  BY <1>1, WrittenBook DEF IInv
<1>3. counted' \in [Ids -> Nat] /\ trades' \in Seq([tx: Ids, by: Connections]) /\ Once'
  BY <1>1, WrittenOnce DEF IInv
<1>. QED
  BY <1>2, <1>3 DEF GoodBook, Row

\* A step that leaves the entries, the books and the checks alone keeps what is said of them.
LEMMA BooksAlone ==
  ASSUME IInv,
         UNCHANGED <<ledger, seen, book, counted, trades, started, checked, posted>>
  PROVE  Told' /\ Once' /\ BookedOnce' /\ TradeBacked' /\ Watched' /\ MissedForAReason'
<1>1. Told'
  BY DEF IInv, Told
<1>2. Once' /\ BookedOnce' /\ TradeBacked'
  BY DEF IInv, Once, BookedOnce, TradeBacked, Booked
<1>3. Watched' /\ MissedForAReason'
  BY DEF IInv, Watched, MissedForAReason, Missed, Of
<1>. QED
  BY <1>1, <1>2, <1>3

\* A new session has seen nothing and posted nothing yet.
LEMMA RestartedKeeps ==
  ASSUME IInv, Restarted, BookedOnce', TradeBacked', Once',
         book' \in Seq([tx: Ids, placed: BOOLEAN]),
         counted' \in [Ids -> Nat],
         trades' \in Seq([tx: Ids, by: Connections])
  PROVE  IInv'
<1>1. /\ UNCHANGED <<clock, ledger, list, wallet, posted, edits>> /\ todo' = {}
      /\ \A w \in Wallets : seen'[w] = 0 /\ started'[w] = -1 /\ checked'[w] = <<>>
  BY DEF Restarted
<1>2. TypeOK'
  <2>1. subs' \in [Wallets -> SUBSET Connections]
    BY DEF Restarted, Subscribed, IInv, TypeOK
  <2>2. /\ seen' \in [Wallets -> 0..MaxTime] /\ started' \in [Wallets -> -1..MaxEntries]
        /\ checked' \in [Wallets -> {<<>>} \cup (0..MaxEntries) \X (0..MaxEntries)]
    BY MaxTimeOK DEF Restarted
  <2>3. restarts' \in 0..MaxRestarts
    BY MaxTimeOK DEF Restarted, IInv, TypeOK
  <2>. QED
    BY <1>1, <2>1, <2>2, <2>3 DEF IInv, TypeOK
<1>3. Numbered'
  BY <1>1 DEF IInv, Numbered
<1>4. Told'
  <2>1. \A e \in ledger : e.wallet \in Wallets
    BY DEF IInv, TypeOK, Entry
  <2>. QED
    BY <1>1, <2>1 DEF IInv, Told
<1>5. Watched' /\ MissedForAReason'
  BY <1>1 DEF Watched, MissedForAReason
<1>. QED
  BY <1>2, <1>3, <1>4, <1>5 DEF IInv

LEMMA NextOK == IInv /\ [Next]_vars => IInv'
<1> SUFFICES ASSUME IInv, [Next]_vars PROVE IInv'
  OBVIOUS
<1>1. CASE Tick
  <2>1. clock \in 1..MaxTime /\ clock' = clock + 1 /\ clock < MaxTime /\ ledger' = ledger
    BY <1>1 DEF Tick, IInv, TypeOK
  <2>2. clock' \in 1..MaxTime /\ clock \in Int
    BY <2>1, MaxTimeOK
  <2>3. TypeOK'
    BY <1>1, <2>2 DEF Tick, Inside, IInv, TypeOK
  <2>4. Numbered'
    <3>1. \A e \in ledger : e.at <= clock'
      <4>1. \A e \in ledger : e.at \in Int /\ e.at <= clock
        BY MaxTimeOK DEF IInv, TypeOK, Entry, Numbered
      <4>. QED
        BY <2>1, <2>2, <4>1
    <3>. QED
      BY <2>1, <3>1 DEF IInv, Numbered
  <2>. QED
    BY <1>1, <2>3, <2>4, BooksAlone DEF Tick, Inside, IInv
<1>2. ASSUME NEW w \in Wallets, NEW income \in BOOLEAN, NEW n \in 1..Outputs,
             Receive(w, n, income)
      PROVE  IInv'
  <2>1. n \in Nat \ {0}
    BY ConstantsOK
  <2>. QED
    BY <1>2, <2>1, ReceiveKeeps
<1>3. ASSUME NEW w \in Wallets, Poll(w) PROVE IInv'
  <2>1. TypeOK' /\ Told' /\ Once'
    BY <1>3, PollTells
  <2>2. Numbered' /\ BookedOnce' /\ TradeBacked'
    BY <1>3 DEF Poll, IInv, Numbered, BookedOnce, TradeBacked, Booked
  <2>. QED
    BY <1>3, <2>1, <2>2, PollWatches, PollMisses DEF IInv
<1>4. ASSUME NEW p \in todo, NEW n \in {2, 4}, OnTransaction(p[1], p[2], n)
      PROVE  IInv'
  <2>1. Written(p[1], p[2], n) /\ ~Again(p[1]) /\ todo' = todo \ {p}
    <3>1. p = <<p[1], p[2]>>
      BY DEF IInv, TypeOK
    <3>. QED
      BY <1>4, <3>1 DEF OnTransaction
  <2>2. n \in 0..4
    OBVIOUS
  <2>3. /\ book' \in Seq([tx: Ids, placed: BOOLEAN]) /\ BookedOnce' /\ TradeBacked'
        /\ counted' \in [Ids -> Nat]
        /\ trades' \in Seq([tx: Ids, by: Connections])
        /\ Once'
    BY <2>1, <2>2, WrittenKeeps
  <2>4. UNCHANGED <<clock, ledger, list, wallet, subs, seen, started, checked, posted,
                    edits, restarts>>
    BY <1>4 DEF OnTransaction
  <2>5. TypeOK'
    BY <2>1, <2>3, <2>4 DEF IInv, TypeOK
  <2>6. Numbered' /\ Told' /\ Watched' /\ MissedForAReason'
    BY <2>4 DEF IInv, Numbered, Told, Watched, MissedForAReason, Missed, Of
  <2>. QED
    BY <2>3, <2>5, <2>6 DEF IInv
<1>5. ASSUME Edited, list' \subseteq Connections, wallet' \in [Connections -> Wallets],
             subs' \in [Wallets -> SUBSET Connections]
      PROVE  IInv'
  <2>1. UNCHANGED <<clock, ledger, seen, todo, book, counted, trades, started, checked,
                    posted, restarts>>
    BY <1>5 DEF Edited
  <2>2. TypeOK'
    BY <1>5, <2>1, MaxTimeOK DEF Edited, IInv, TypeOK
  <2>3. Numbered'
    BY <2>1 DEF IInv, Numbered
  <2>. QED
    BY <2>1, <2>2, <2>3, BooksAlone DEF IInv
<1>6. ASSUME NEW c \in Connections, AddConnection(c) PROVE IInv'
  <2>1. WalletOf[c] \in Wallets
    BY ConstantsOK
  <2>. QED
    BY <1>5, <1>6, <2>1 DEF AddConnection, IInv, TypeOK
<1>7. ASSUME NEW c \in Connections, DeleteConnection(c) PROVE IInv'
  BY <1>5, <1>7 DEF DeleteConnection, IInv, TypeOK
<1>8. ASSUME NEW c \in Connections, NEW w \in Moves, EditConnection(c, w) PROVE IInv'
  <2>1. w \in Wallets
    BY ConstantsOK
  <2>. QED
    BY <1>5, <1>8, <2>1 DEF EditConnection, IInv, TypeOK
<1>9. ASSUME NEW p \in todo, NEW n \in 1..3, DieOnTransaction(p[1], p[2], n) PROVE IInv'
  <2>1. Written(p[1], p[2], n) /\ Restarted /\ ~Again(p[1]) /\ n \in 0..4
    BY <1>9 DEF DieOnTransaction
  <2>2. /\ book' \in Seq([tx: Ids, placed: BOOLEAN]) /\ BookedOnce' /\ TradeBacked'
        /\ counted' \in [Ids -> Nat]
        /\ trades' \in Seq([tx: Ids, by: Connections])
        /\ Once'
    BY <2>1, WrittenKeeps
  <2>. QED
    BY <2>1, <2>2, RestartedKeeps
<1>10. CASE Restart
  <2>1. Restarted /\ UNCHANGED <<book, counted, trades>>
    BY <1>10 DEF Restart
  <2>2. Once' /\ BookedOnce' /\ TradeBacked'
    BY <2>1 DEF IInv, Once, BookedOnce, TradeBacked, Booked
  <2>. QED
    BY <2>1, <2>2, RestartedKeeps DEF IInv, TypeOK
<1>11. ASSUME NEW p \in todo, Abort(p[1], p[2]) PROVE IInv'
  BY <1>10, <1>11 DEF Abort
<1>12. CASE UNCHANGED vars
  <2>1. TypeOK' /\ Numbered'
    BY <1>12 DEF vars, IInv, TypeOK, Numbered
  <2>. QED
    BY <1>12, <2>1, BooksAlone DEF vars, IInv
<1>. QED
  BY <1>1, <1>2, <1>3, <1>4, <1>6, <1>7, <1>8, <1>9, <1>10, <1>11, <1>12 DEF Next

LEMMA Invariance == Spec => []IInv
<1>1. Init => IInv
  BY InitOK
<1>2. IInv /\ [Next]_vars => IInv'
  BY NextOK
<1>. QED
  BY <1>1, <1>2, PTL DEF Spec

-----------------------------------------------------------------------------
(* What follows *)

LEMMA InvOnce == IInv => CountedOnce
  BY DEF IInv, CountedOnce, Once, BookedOnce

\* Every reachable state has the declared types: what the checks, the writes of
\* onTransaction, the restarts and the edits of the list leave behind.
THEOREM TypeCorrect == Spec => []TypeOK
<1>1. IInv => TypeOK
  BY DEF IInv
<1>. QED
  BY <1>1, Invariance, PTL

\* A trade of CConnection::tradeIncome has an earning of its transaction in the book,
\* written before it, wherever the process died.
THEOREM TradesAreBacked == Spec => []TradeBacked
<1>1. IInv => TradeBacked
  BY DEF IInv
<1>. QED
  BY <1>1, Invariance, PTL

\* One earning per transaction, and one count and one trade of it over all connections,
\* however often getAddressBalance checks, connections are edited or the program ends:
\* what the lookup in the book and the assertion on it leave.
THEOREM IncomeCountsOnce == Spec => []CountedOnce
  BY InvOnce, Invariance, PTL

\* Between the checks of a session no income is lost except for the two reasons
\* MissedForAReason names, for any number of listed transactions (Shown).
THEOREM NothingElseIsMissed == Spec => []MissedForAReason
<1>1. IInv => MissedForAReason
  BY DEF IInv
<1>. QED
  BY <1>1, Invariance, PTL
=============================================================================
