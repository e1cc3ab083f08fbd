----------------------------- MODULE BookProofs -----------------------------
(***************************************************************************)
(* Proofs about Book, for every set of values, every capacity of a page    *)
(* and every bound.                                                        *)
(*                                                                         *)
(* FileInv is what every write of addEntry leaves on disk and in the book  *)
(* header, wherever the process dies: the stage of the addition says which *)
(* of the two headers is ahead and what room the last page has (Stage),    *)
(* and the pages count no more entries, and leave no more room, than the   *)
(* deaths in additions so far account for.  DamagePerDeath follows.        *)
(*                                                                         *)
(* Until a death cuts an addition short, SessionInv is kept as well: every *)
(* page before the last is full, the pages count what the header counts,   *)
(* the places of pages that are remembered are right, and the cache agrees *)
(* with the file except for the entry that is being                        *)
(* added.  It makes every search end at its page (Finds), from which       *)
(* Coherent and the refinement of Ledger follow.                           *)
(***************************************************************************)
EXTENDS Book, FiniteSetTheorems, SequenceTheorems, WellFoundedInduction, TLAPS

\* The writes that make a page which is not yet complete.
Before == {"pageHeader", "pageBody", "pageFooter"}

Room(ps) == {at \in 1..Len(ps) - 1 : ps[at].nEntry < PerPage}

\* What the headers hold, and how full the last page is, when the next write is w.
Stage(w) ==
    /\ w \in {"none", "slotCount", "entryCount", "entry"} => header = saved
    /\ w \in Before \cup {"pageCount"} =>
          header = [nPage |-> saved.nPage + 1, nEntry |-> saved.nEntry]
    /\ w \in Before =>
          adding.at = Len(pages) + 1 /\ (saved.nPage = 0 \/ Full(Len(pages)))
    /\ w \notin Before \cup {"none"} => adding.at = Len(pages) /\ Len(pages) > 0
    /\ w = "pageCount" => saved.nPage < Len(pages)
    /\ w \in {"pageCount", "slotCount"} => pages[Len(pages)].nEntry < PerPage
    /\ w \in {"entryCount", "entry"} => pages[Len(pages)].nEntry > 0
    /\ w # "none" => adding.id = header.nPage - 1

\* Between the write that counts an entry in its page and the one that counts it in the
\* book, the pages have one more.
Ahead(w) == IF w = "entryCount" THEN 1 ELSE 0

FileType ==
    /\ pages \in Seq(Page) /\ tail \in {"whole", "header", "body", "astray"}
    /\ saved \in Header /\ header \in Header
    /\ adding \in Adding \cup {Idle} /\ crashes \in 0..MaxCrashes /\ cut \in Nat

FileInv ==
    /\ FileType
    /\ Stage(adding.write)
    /\ saved.nPage <= Len(pages)
    /\ saved.nPage = 0 =>
          Len(pages) <= IF adding.write = "pageCount" THEN cut + 1 ELSE cut
    /\ Cardinality(Room(pages)) <= cut
    /\ saved.nEntry + Ahead(adding.write) <= Held(pages)
    /\ Held(pages) <= saved.nEntry + Ahead(adding.write) + cut

\* The page and the slot of an entry, and what is there.
PageOf(id) == id \div PerPage
SlotOf(id) == id % PerPage
Stored(ps, id) == ps[PageOf(id) + 1].slot[SlotOf(id)]

\* Every page but the last is full, and the pages count c entries.
Filled(ps, c) ==
    /\ \A at \in 1..Len(ps) - 1 : ps[at].nEntry = PerPage
    /\ Len(ps) = 0 => c = 0
    /\ Len(ps) > 0 => c = PerPage * (Len(ps) - 1) + ps[Len(ps)].nEntry

\* The places of the pages that are remembered are right.
Remembered(kn) == DOMAIN kn \subseteq Nat /\ \A k \in DOMAIN kn : kn[k] = k + 1

\* The entry that is being added, which the cache has already.
NewId == IF adding.write = "entry" THEN header.nEntry - 1 ELSE header.nEntry
IsNew(id) == adding.write # "none" /\ id = NewId

\* What the cache has is what is stored, or being stored.
CacheOK(ch) ==
    /\ \A id \in DOMAIN ch :
        \/ id \in 0..header.nEntry - 1 /\ ~IsNew(id) /\ ch[id] = Stored(pages, id)
        \/ IsNew(id) /\ ch[id] = adding.value
    /\ adding.write # "none" => NewId \in DOMAIN ch

SessionInv ==
    /\ Len(pages) = IF adding.write \in Before THEN header.nPage - 1 ELSE header.nPage
    /\ Filled(pages, header.nEntry + Ahead(adding.write))
    /\ Remembered(known)
    /\ adding.write \in Before /\ Len(pages) > 0 => Len(pages) - 1 \in DOMAIN known
    /\ \A id \in 0..header.nEntry - 1 : ~IsNew(id) => Stored(pages, id) \in Values
    /\ CacheOK(cache)

-----------------------------------------------------------------------------
(* Numbers and recursive functions *)

NatOrder == OpToRel(<, Nat)

\* Every set of numbers has a least one.
LEMMA NatMin == ASSUME NEW T \in SUBSET Nat, T # {} PROVE \E x \in T : \A y \in T : x <= y
<1>1. IsWellFoundedOn(NatOrder, Nat)
  BY NatLessThanWellFounded, Zenon DEF NatOrder
<1>2. PICK x \in T : \A y \in T : ~(<<y, x>> \in NatOrder)
  BY <1>1, WFMin
<1>3. \A y, z \in Nat : y < z => <<y, z>> \in NatOrder
  BY Zenon DEF NatOrder, OpToRel
<1>4. ASSUME NEW y \in T PROVE x <= y
  <2>1. x \in Nat /\ y \in Nat
    OBVIOUS
  <2>2. ~(y < x)
    BY <1>2, <1>3, <2>1
  <2>. QED
    BY <2>1, <2>2
<1>. QED
  BY <1>4

LEMMA OneLess == ASSUME NEW n \in Nat, 0 < n PROVE \E m \in Nat : n = m + 1
<1>1. n - 1 \in Nat /\ n = (n - 1) + 1
  OBVIOUS
<1>. QED
  BY <1>1

\* What holds of the first value of a function on 0..N, and of the next one when it holds
\* of one, holds of all.
LEMMA Carried ==
  ASSUME NEW N \in Nat, NEW S, NEW f, f[0] \in S,
         \A n \in 1..N : f[n - 1] \in S => f[n] \in S
  PROVE  \A n \in 0..N : f[n] \in S
<1> DEFINE T == {n \in 0..N : f[n] \notin S}
<1> SUFFICES ASSUME T # {} PROVE FALSE
  OBVIOUS
<1>1. T \in SUBSET Nat
  OBVIOUS
<1>2. PICK x \in T : \A y \in T : x <= y
  BY <1>1, NatMin, Zenon
<1>3. x \in 1..N /\ x - 1 \in 0..N
  OBVIOUS
<1>4. x - 1 \notin T
  BY <1>2, <1>3
<1>. QED
  BY <1>3, <1>4

\* f is the recursive function on 0..N with the first value base and these steps.
Solves(f, N, base, step) ==
    f = [n \in 0..N |-> IF n = 0 THEN base ELSE step[n][f[n - 1]]]

\* There is one, when base is in S and the steps stay in S.
LEMMA Recursion ==
  ASSUME NEW N \in Nat, NEW S, NEW base \in S, NEW step \in [1..N -> [S -> S]]
  PROVE  \E f \in [0..N -> S] : Solves(f, N, base, step)
<1> DEFINE Solved(m) == \E f \in [0..m -> S] :
             /\ f[0] = base
             /\ \A n \in 1..m : f[n] = step[n][f[n - 1]]
           T == {m \in 0..N : ~Solved(m)}
<1>1. T = {}
  <2> SUFFICES ASSUME T # {} PROVE FALSE
    OBVIOUS
  <2> HIDE DEF Solved
  <2>1. PICK x \in T : \A y \in T : x <= y
    <3>1. T \in SUBSET Nat
      OBVIOUS
    <3>. QED
      BY <3>1, NatMin, Zenon
  <2> USE DEF Solved
  <2>2. CASE x = 0
    <3> DEFINE f == [n \in 0..0 |-> base]
    <3>1. f \in [0..0 -> S] /\ f[0] = base /\ \A n \in 1..0 : f[n] = step[n][f[n - 1]]
      OBVIOUS
    <3> HIDE DEF f
    <3>2. Solved(0)
      BY <3>1
    <3>. QED
      BY <2>2, <3>2
  <2>3. CASE x # 0
    <3>1. x \in 1..N /\ x - 1 \in 0..N
      BY <2>3
    <3>2. Solved(x - 1)
      <4> HIDE DEF Solved
      <4>. QED
        BY <2>1, <3>1
    <3>3. PICK f \in [0..x - 1 -> S] : f[0] = base /\ \A n \in 1..x - 1 : f[n] = step[n][f[n - 1]]
      BY <3>2
    <3> DEFINE g == [n \in 0..x |-> IF n = x THEN step[x][f[x - 1]] ELSE f[n]]
    <3>4. f[x - 1] \in S /\ step[x] \in [S -> S]
      BY <3>1
    <3>5. g \in [0..x -> S]
      <4>1. ASSUME NEW n \in 0..x PROVE (IF n = x THEN step[x][f[x - 1]] ELSE f[n]) \in S
        <5>1. CASE n = x
          BY <3>4, <5>1
        <5>2. CASE n # x
          <6>1. n \in 0..x - 1
            BY <3>1, <5>2
          <6>. QED
            BY <5>2, <6>1
        <5>. QED
          BY <5>1, <5>2
      <4>. QED
        BY <4>1
    <3>6. g[0] = base /\ \A n \in 1..x : g[n] = step[n][g[n - 1]]
      <4>1. \A n \in 0..x - 1 : g[n] = f[n]
        BY <3>1
      <4>2. 0 \in 0..x - 1
        BY <3>1
      <4>3. ASSUME NEW n \in 1..x PROVE g[n] = step[n][g[n - 1]]
        <5>1. n - 1 \in 0..x - 1
          BY <3>1
        <5>2. g[n - 1] = f[n - 1]
          BY <4>1, <5>1
        <5>3. CASE n = x
          BY <3>1, <5>2, <5>3
        <5>4. CASE n # x
          <6>1. n \in 0..x - 1 /\ n \in 1..x - 1
            BY <3>1, <5>4
          <6>2. g[n] = f[n] /\ f[n] = step[n][f[n - 1]]
            BY <3>3, <4>1, <6>1
          <6>. QED
            BY <5>2, <6>2
        <5>. QED
          BY <5>3, <5>4
      <4>. QED
        BY <3>3, <4>1, <4>2, <4>3
    <3> HIDE DEF g
    <3>7. Solved(x)
      BY <3>5, <3>6
    <3>. QED
      BY <3>7
  <2>. QED
    BY <2>2, <2>3
<1>2. Solved(N)
  <2> HIDE DEF Solved
  <2>. QED
    BY <1>1
<1>3. PICK f \in [0..N -> S] : f[0] = base /\ \A n \in 1..N : f[n] = step[n][f[n - 1]]
  BY <1>2
<1>4. ASSUME NEW n \in 0..N PROVE f[n] = IF n = 0 THEN base ELSE step[n][f[n - 1]]
  BY <1>3
<1>. QED
  BY <1>4 DEF Solves

-----------------------------------------------------------------------------
(* Sequences and sums *)

LEMMA AppendIs ==
  ASSUME NEW S, NEW s \in Seq(S), NEW x \in S
  PROVE  /\ Append(s, x) \in Seq(S) /\ Len(Append(s, x)) = Len(s) + 1 /\ Len(s) \in Nat
         /\ Append(s, x)[Len(s) + 1] = x
         /\ \A i \in 1..Len(s) : Append(s, x)[i] = s[i]
         /\ DOMAIN s = 1..Len(s) /\ DOMAIN Append(s, x) = 1..Len(s) + 1
OBVIOUS

\* t is s with x in the place c.
Replaced(S, s, c, x, t) ==
    /\ t \in Seq(S) /\ Len(t) = Len(s) /\ t[c] = x
    /\ \A i \in 1..Len(s) : i # c => t[i] = s[i]

LEMMA ReplacedIs ==
  ASSUME NEW S, NEW s \in Seq(S), NEW c \in 1..Len(s), NEW x \in S
  PROVE  Replaced(S, s, c, x, [s EXCEPT ![c] = x])
<1>1. DOMAIN s = 1..Len(s) /\ \A i \in 1..Len(s) : s[i] \in S
  BY LenProperties, ElementOfSeq
<1>. QED
  BY <1>1, ExceptSeq DEF Replaced

\* f has the sums of the counts of the first pages of ps.
SumsOf(ps, f) ==
    /\ f \in [0..Len(ps) -> Nat]
    /\ f[0] = 0
    /\ \A k \in 1..Len(ps) : f[k] = f[k - 1] + ps[k].nEntry

LEMMA HeldIs ==
  ASSUME NEW ps \in Seq(Page)
  PROVE  \E f : SumsOf(ps, f) /\ Held(ps) = f[Len(ps)] /\ Held(ps) \in Nat
<1> DEFINE N == Len(ps)
           step == [k \in 1..N |-> [x \in Nat |-> x + ps[k].nEntry]]
           Sums(f) == f = [k \in 0..N |-> IF k = 0 THEN 0 ELSE f[k - 1] + ps[k].nEntry]
           sum == CHOOSE f : Sums(f)
<1>1. N \in Nat /\ \A k \in 1..N : ps[k].nEntry \in Nat
  <2>1. N \in Nat /\ \A k \in 1..N : ps[k] \in Page
    BY LenProperties, ElementOfSeq
  <2>. QED
    BY <2>1 DEF Page
<1>2. Held(ps) = sum[N]
  BY DEF Held
<1> HIDE DEF N
<1>3. step \in [1..N -> [Nat -> Nat]] /\ 0 \in Nat
  BY <1>1
<1>4. PICK f \in [0..N -> Nat] : Solves(f, N, 0, step)
  <2> HIDE DEF step
  <2>. QED
    BY <1>1, <1>3, Recursion
<1>5. \A k \in 0..N : f[k] = IF k = 0 THEN 0 ELSE f[k - 1] + ps[k].nEntry
  <2> SUFFICES ASSUME NEW k \in 0..N
               PROVE  f[k] = IF k = 0 THEN 0 ELSE f[k - 1] + ps[k].nEntry
    OBVIOUS
  <2>1. CASE k = 0
    BY <1>4, <2>1 DEF Solves
  <2>2. CASE k # 0
    <3>1. k \in 1..N /\ k - 1 \in 0..N
      BY <1>1, <2>2
    <3>2. f[k] = step[k][f[k - 1]] /\ f[k - 1] \in Nat
      BY <1>4, <2>2, <3>1 DEF Solves
    <3>. QED
      BY <2>2, <3>1, <3>2
  <2>. QED
    BY <2>1, <2>2
<1>6. Sums(f)
  BY <1>5
<1>7. Sums(sum)
  <2> HIDE DEF Sums
  <2>. QED
    BY <1>6
<1> HIDE DEF sum
<1>8. /\ sum[0] = 0 /\ DOMAIN sum = 0..N
      /\ \A k \in 1..N : sum[k] = sum[k - 1] + ps[k].nEntry
  <2>1. \A k \in 0..N : sum[k] = IF k = 0 THEN 0 ELSE sum[k - 1] + ps[k].nEntry
    BY <1>7
  <2>2. \A k \in 1..N : k \in 0..N /\ k # 0
    BY <1>1
  <2>3. 0 \in 0..N
    BY <1>1
  <2>. QED
    BY <1>7, <2>1, <2>2, <2>3
<1>9. \A k \in 0..N : sum[k] \in Nat
  <2>1. ASSUME NEW k \in 1..N, sum[k - 1] \in Nat PROVE sum[k] \in Nat
    <3>1. sum[k] = sum[k - 1] + ps[k].nEntry /\ ps[k].nEntry \in Nat
      BY <1>1, <1>8
    <3>. QED
      BY <2>1, <3>1
  <2>2. sum[0] \in Nat
    BY <1>8
  <2>. QED
    BY <1>1, <2>1, <2>2, Carried
<1>10. sum \in [0..N -> Nat]
  <2>1. sum = [k \in 0..N |-> sum[k]]
    BY <1>7, <1>8
  <2>. QED
    BY <1>9, <2>1
<1>11. sum[N] \in Nat
  BY <1>1, <1>9
<1>. QED
  BY <1>2, <1>8, <1>10, <1>11 DEF N, SumsOf

\* Sums of the same counts are the same.
LEMMA SameSums ==
  ASSUME NEW ps, NEW qs, NEW f, NEW g, SumsOf(ps, f), SumsOf(qs, g),
         NEW M \in Nat, Len(ps) \in Nat, Len(qs) \in Nat, M <= Len(ps), M <= Len(qs),
         \A k \in 1..M : qs[k].nEntry = ps[k].nEntry
  PROVE  g[M] = f[M] /\ f[M] \in Nat
<1> DEFINE d == [k \in 0..M |-> g[k] - f[k]]
           Zero == {0}
<1>1. ASSUME NEW k \in 0..M
      PROVE  g[k] \in Nat /\ f[k] \in Nat /\ d[k] = g[k] - f[k]
  <2>1. k \in 0..Len(ps) /\ k \in 0..Len(qs)
    OBVIOUS
  <2>. QED
    BY <2>1 DEF SumsOf
<1>2. ASSUME NEW k \in 1..M, d[k - 1] \in Zero PROVE d[k] \in Zero
  <2>1. k \in 1..Len(ps) /\ k \in 1..Len(qs) /\ k - 1 \in 0..M /\ k \in 0..M
    OBVIOUS
  <2>2. g[k - 1] = f[k - 1]
    BY <1>1, <1>2, <2>1
  <2>3. g[k] = f[k]
    BY <2>1, <2>2 DEF SumsOf
  <2>. QED
    BY <1>1, <2>1, <2>3
<1>3. d[0] \in Zero
  <2>1. 0 \in 0..M
    OBVIOUS
  <2>. QED
    BY <1>1, <2>1 DEF SumsOf
<1> HIDE DEF d, Zero
<1>4. \A k \in 1..M : d[k - 1] \in Zero => d[k] \in Zero
  BY <1>2
<1>5. \A k \in 0..M : d[k] \in Zero
  BY <1>3, <1>4, Carried
<1>6. M \in 0..M
  OBVIOUS
<1>. QED
  BY <1>1, <1>5, <1>6 DEF Zero

\* The sum is that of the counts.
LEMMA HeldSame ==
  ASSUME NEW ps \in Seq(Page), NEW qs \in Seq(Page), Len(qs) = Len(ps),
         \A k \in 1..Len(ps) : qs[k].nEntry = ps[k].nEntry
  PROVE  Held(qs) = Held(ps)
<1>1. Len(ps) \in Nat
  BY LenProperties
<1>2. PICK f : SumsOf(ps, f) /\ Held(ps) = f[Len(ps)]
  BY HeldIs
<1>3. PICK g : SumsOf(qs, g) /\ Held(qs) = g[Len(qs)]
  BY HeldIs
<1>4. Len(ps) <= Len(ps) /\ Len(ps) <= Len(qs)
  BY <1>1
<1>. QED
  BY <1>1, <1>2, <1>3, <1>4, SameSums

\* A change of the last page changes it by as much.
LEMMA HeldChanged ==
  ASSUME NEW ps \in Seq(Page), NEW qs \in Seq(Page), NEW N \in Nat,
         Len(ps) = N + 1, Len(qs) = N + 1,
         \A k \in 1..N : qs[k].nEntry = ps[k].nEntry
  PROVE  Held(qs) - qs[N + 1].nEntry = Held(ps) - ps[N + 1].nEntry
<1>2. PICK f : SumsOf(ps, f) /\ Held(ps) = f[N + 1]
  BY HeldIs
<1>3. PICK g : SumsOf(qs, g) /\ Held(qs) = g[N + 1]
  BY HeldIs
<1>4. N <= Len(ps) /\ N <= Len(qs) /\ Len(ps) \in Nat /\ Len(qs) \in Nat
  OBVIOUS
<1>5. g[N] = f[N] /\ f[N] \in Nat
  BY <1>2, <1>3, <1>4, SameSums
<1>6. N + 1 \in 1..Len(ps) /\ N + 1 \in 1..Len(qs) /\ (N + 1) - 1 = N
  OBVIOUS
<1>7. ps[N + 1] \in Page /\ qs[N + 1] \in Page
  BY <1>6, ElementOfSeq
<1>8. ps[N + 1].nEntry \in Nat /\ qs[N + 1].nEntry \in Nat
  BY <1>7 DEF Page
<1>9. f[N + 1] = f[N] + ps[N + 1].nEntry /\ g[N + 1] = g[N] + qs[N + 1].nEntry
  BY <1>2, <1>3, <1>6 DEF SumsOf
<1>. QED
  BY <1>2, <1>3, <1>5, <1>8, <1>9

LEMMA HeldAppend ==
  ASSUME NEW ps \in Seq(Page), NEW page \in Page
  PROVE  Held(Append(ps, page)) = Held(ps) + page.nEntry
<1> DEFINE qs == Append(ps, page)
           N == Len(ps)
<1>1. /\ qs \in Seq(Page) /\ Len(qs) = N + 1 /\ N \in Nat /\ qs[N + 1] = page
      /\ \A k \in 1..N : qs[k] = ps[k]
  BY AppendIs
<1> HIDE DEF qs
<1>2. PICK f : SumsOf(ps, f) /\ Held(ps) = f[N]
  BY HeldIs
<1>3. PICK g : SumsOf(qs, g) /\ Held(qs) = g[N + 1]
  BY <1>1, HeldIs
<1> HIDE DEF N
<1>4. N <= Len(ps) /\ N <= Len(qs) /\ Len(ps) \in Nat /\ Len(qs) \in Nat
  BY <1>1 DEF N
<1>5. g[N] = f[N] /\ f[N] \in Nat
  BY <1>1, <1>2, <1>3, <1>4, SameSums
<1>6. N + 1 \in 1..Len(qs) /\ (N + 1) - 1 = N
  BY <1>1
<1>7. g[N + 1] = g[N] + page.nEntry
  BY <1>1, <1>3, <1>6 DEF SumsOf
<1>. QED
  BY <1>2, <1>3, <1>5, <1>7 DEF qs

LEMMA Constants ==
  /\ PerPage \in Nat /\ 0 < PerPage /\ MaxCrashes \in Nat /\ Blank \notin Values
BY ConstantsOK DEF ConstantsOK

LEMMA PageIs ==
  ASSUME NEW ps \in Seq(Page)
  PROVE  /\ Len(ps) \in Nat /\ DOMAIN ps = 1..Len(ps)
         /\ \A at \in 1..Len(ps) : /\ ps[at] \in Page /\ ps[at].nEntry \in 0..PerPage
                                   /\ ps[at].slot \in [0..PerPage - 1 -> Values \cup {Blank}]
                                   /\ ps[at] = [nEntry |-> ps[at].nEntry, slot |-> ps[at].slot]
<1>1. /\ Len(ps) \in Nat /\ DOMAIN ps = 1..Len(ps)
      /\ \A at \in 1..Len(ps) : ps[at] \in Page
  BY LenProperties, ElementOfSeq
<1>. QED
  BY <1>1 DEF Page

-----------------------------------------------------------------------------
(* Deaths in an addition *)

LEMMA FileIs ==
  ASSUME FileInv
  PROVE  /\ FileType /\ Stage(adding.write)
         /\ pages \in Seq(Page) /\ Len(pages) \in Nat /\ DOMAIN pages = 1..Len(pages)
         /\ saved \in Header /\ header \in Header
         /\ saved = [nPage |-> saved.nPage, nEntry |-> saved.nEntry]
         /\ header = [nPage |-> header.nPage, nEntry |-> header.nEntry]
         /\ saved.nPage \in Nat /\ saved.nEntry \in Nat
         /\ header.nPage \in Nat /\ header.nEntry = saved.nEntry
         /\ cut \in Nat /\ Held(pages) \in Nat
         /\ adding = Idle \/ adding \in Adding
         /\ adding = Idle <=> adding.write = "none"
         /\ \A at \in 1..Len(pages) :
              /\ pages[at] \in Page /\ pages[at].nEntry \in 0..PerPage
              /\ pages[at].slot \in [0..PerPage - 1 -> Values \cup {Blank}]
              /\ pages[at] = [nEntry |-> pages[at].nEntry, slot |-> pages[at].slot]
<1>1. /\ pages \in Seq(Page) /\ saved \in Header /\ header \in Header
      /\ adding \in Adding \cup {Idle} /\ crashes \in 0..MaxCrashes /\ cut \in Nat
  BY DEF FileInv, FileType
<1>2. \A h \in Header : /\ h.nPage \in Nat /\ h.nEntry \in Nat
                        /\ h = [nPage |-> h.nPage, nEntry |-> h.nEntry]
  BY DEF Header
<1>3. /\ Idle.write = "none"
      /\ adding \in Adding => adding.write \in Writes /\ adding.write # "none"
  BY DEF Adding, Writes, Idle
<1>4. adding.write \in Writes \cup {"none"}
  BY <1>1, <1>3
<1>5. header.nEntry = saved.nEntry
  BY <1>2, <1>4 DEF FileInv, Stage, Before, Writes
<1>6. cut \in Nat /\ Held(pages) \in Nat
  BY <1>1, Constants, HeldIs
<1>. QED
  BY <1>1, <1>2, <1>3, <1>5, <1>6, PageIs DEF FileInv

\* A write that leaves the counts of the pages as they are.
LEMMA CountsKept ==
  ASSUME FileInv, FileType', Stage(adding.write)', saved' = saved, cut' = cut,
         Len(pages') = Len(pages),
         \A at \in 1..Len(pages) : pages'[at].nEntry = pages[at].nEntry,
         adding.write # "entryCount", adding'.write # "entryCount",
         adding.write # "pageCount"
  PROVE  FileInv'
<1>1. pages \in Seq(Page) /\ Len(pages) \in Nat /\ cut \in Nat
  BY FileIs
<1>2. pages' \in Seq(Page)
  BY DEF FileType
<1>3. Held(pages') = Held(pages)
  BY <1>1, <1>2, HeldSame
<1>4. Room(pages') = Room(pages)
  <2>1. \A at \in 1..Len(pages) - 1 : at \in 1..Len(pages)
    BY <1>1
  <2>. QED
    BY <2>1 DEF Room
<1>5. Ahead(adding.write) = 0 /\ Ahead(adding'.write) = 0
  BY DEF Ahead
<1>6. saved'.nPage = 0 =>
        Len(pages') <= IF adding'.write = "pageCount" THEN cut' + 1 ELSE cut'
  BY <1>1 DEF FileInv
<1>. QED
  BY <1>3, <1>4, <1>5, <1>6 DEF FileInv

LEMMA UnchangedFile ==
  ASSUME FileInv, UNCHANGED <<pages, tail, saved, header, adding, crashes, cut>>
  PROVE  FileInv'
BY DEF FileInv, FileType, Stage, Full

\* updateEntry writes the value into a slot, and changes no count.
LEMMA UpdatedPages ==
  ASSUME FileInv, NEW id \in Nat, NEW v \in Values, UpdateEntry(id, v)
  PROVE  /\ pages' \in Seq(Page) /\ Len(pages') = Len(pages)
         /\ \A at \in 1..Len(pages) : pages'[at].nEntry = pages[at].nEntry
<1> DEFINE new(at) == [pages[at] EXCEPT !.slot[id % PerPage] = v]
<1>1. pages' = [at \in DOMAIN pages |-> IF \E s \in Slot(id) : s[1] = at
                                        THEN new(at) ELSE pages[at]]
  BY DEF UpdateEntry
<1>2. ASSUME NEW at \in 1..Len(pages)
      PROVE  pages[at] \in Page /\ new(at) \in Page /\ new(at).nEntry = pages[at].nEntry
  <2>1. /\ pages[at] \in Page /\ pages[at].nEntry \in 0..PerPage
        /\ pages[at].slot \in [0..PerPage - 1 -> Values \cup {Blank}]
        /\ pages[at] = [nEntry |-> pages[at].nEntry, slot |-> pages[at].slot]
    BY FileIs, PageIs
  <2>2. new(at) = [nEntry |-> pages[at].nEntry,
                   slot |-> [pages[at].slot EXCEPT ![id % PerPage] = v]]
    BY <2>1
  <2>3. [pages[at].slot EXCEPT ![id % PerPage] = v] \in [0..PerPage - 1 -> Values \cup {Blank}]
    BY <2>1
  <2>. QED
    BY <2>1, <2>2, <2>3 DEF Page
<1> HIDE DEF new
<1>3. DOMAIN pages = 1..Len(pages) /\ Len(pages) \in Nat
  BY FileIs
<1>4. pages' \in [1..Len(pages) -> Page]
  BY <1>1, <1>2, <1>3
<1>5. pages' \in Seq(Page) /\ Len(pages') = Len(pages)
  <2>1. pages' \in Seq(Page)
    BY <1>3, <1>4, SeqDef
  <2>. QED
    BY <1>3, <1>4, <2>1, LenProperties
<1>. QED
  BY <1>1, <1>2, <1>3, <1>5

LEMMA FileUpdate ==
  ASSUME FileInv, NEW id \in Nat, NEW v \in Values, UpdateEntry(id, v)
  PROVE  FileInv'
<1>1. adding = Idle /\ UNCHANGED <<tail, saved, header, adding, crashes, cut>>
  BY DEF UpdateEntry
<1>2. adding.write = "none"
  BY <1>1 DEF Idle
<1>3. /\ pages' \in Seq(Page) /\ Len(pages') = Len(pages)
      /\ \A at \in 1..Len(pages) : pages'[at].nEntry = pages[at].nEntry
  BY UpdatedPages
<1>4. FileType'
  BY <1>1, <1>3 DEF FileInv, FileType
<1>5. Stage(adding.write)'
  BY <1>1, <1>2 DEF FileInv, Stage, Before
<1>. QED
  BY <1>1, <1>2, <1>3, <1>4, <1>5, CountsKept

LEMMA FileAdd ==
  ASSUME FileInv, NEW v \in Values, AddEntry(v)
  PROVE  FileInv'
<1> DEFINE last == header.nPage - 1
           at == Len(pages)
           room == last >= 0 /\ ~Full(at)
           page == IF room THEN last ELSE header.nPage
           place == IF room THEN at ELSE at + 1
<1>1. /\ adding = Idle /\ UNCHANGED <<pages, tail, saved, crashes, cut>>
      /\ adding' = [write |-> IF room THEN "slotCount" ELSE "pageHeader",
                    id |-> page, at |-> place, value |-> v]
      /\ header' = IF room THEN header ELSE [header EXCEPT !.nPage = @ + 1]
  BY DEF AddEntry, disk
<1>2. /\ adding.write = "none" /\ header = saved /\ at \in Nat /\ header.nPage \in Nat
      /\ header = [nPage |-> header.nPage, nEntry |-> header.nEntry]
      /\ header.nEntry \in Nat /\ saved.nPage <= at
  BY <1>1, FileIs DEF Idle, Stage, FileInv
<1>3. CASE room
  <2>1. /\ adding' = [write |-> "slotCount", id |-> last, at |-> at, value |-> v]
        /\ header' = header
    BY <1>1, <1>3
  <2>2. at > 0 /\ last \in Nat /\ pages[at].nEntry < PerPage
    <3>1. at > 0 /\ last \in Nat
      BY <1>2, <1>3
    <3>2. at \in 1..Len(pages)
      BY <1>2, <3>1
    <3>3. pages[at].nEntry \in 0..PerPage
      BY <3>2, FileIs
    <3>. QED
      BY <1>3, <3>1, <3>3, Constants DEF Full
  <2>3. FileType'
    BY <1>1, <1>2, <2>1, <2>2 DEF FileInv, FileType, Adding, Writes
  <2>4. Stage(adding.write)'
    BY <1>1, <1>2, <2>1, <2>2 DEF Stage, Before
  <2>. QED
    BY <1>1, <1>2, <2>1, <2>3, <2>4, CountsKept
<1>4. CASE ~room
  <2>1. /\ adding' = [write |-> "pageHeader", id |-> header.nPage, at |-> at + 1, value |-> v]
        /\ header' = [nPage |-> header.nPage + 1, nEntry |-> header.nEntry]
    BY <1>1, <1>2, <1>4
  <2>2. saved.nPage = 0 \/ Full(at)
    BY <1>2, <1>4
  <2>3. FileType'
    BY <1>1, <1>2, <2>1 DEF FileInv, FileType, Adding, Writes, Header
  <2>4. Stage(adding.write)'
    <3>1. header'.nPage - 1 = header.nPage
      BY <1>2, <2>1
    <3>. QED
      BY <1>1, <1>2, <2>1, <2>2, <3>1 DEF Stage, Before, Full
  <2>. QED
    BY <1>1, <1>2, <2>1, <2>3, <2>4, CountsKept
<1>. QED
  BY <1>3, <1>4

\* A write after which the pages count what they did.
LEMMA FileTail ==
  ASSUME FileInv, WritePageHeader \/ WritePageBody
  PROVE  FileInv'
<1>1. PICK w \in {"pageBody", "pageFooter"} :
        /\ adding.write \in Before /\ adding' = [adding EXCEPT !.write = w]
        /\ tail' \in {"header", "body"}
        /\ UNCHANGED <<pages, saved, header, crashes, cut>>
  BY DEF WritePageHeader, WritePageBody, Before
<1>2. adding \in Adding
  BY <1>1, FileIs DEF Before, Idle
<1>3. /\ adding' \in Adding /\ adding'.write = w /\ adding'.at = adding.at
      /\ adding'.id = adding.id
  BY <1>1, <1>2 DEF Adding, Writes
<1>4. FileType'
  BY <1>1, <1>3 DEF FileInv, FileType
<1>5. Stage(adding.write)'
  BY <1>1, <1>3 DEF FileInv, Stage, Before, Full
<1>. QED
  BY <1>1, <1>3, <1>4, <1>5, CountsKept DEF Before

LEMMA NewPageIs == NewPage \in Page /\ NewPage.nEntry = 0
BY Constants DEF NewPage, Page

\* The page before the new one is full, or the file has no more pages than the process
\* has died so far.
LEMMA FilePage ==
  ASSUME FileInv, WritePageFooter
  PROVE  FileInv'
<1> DEFINE N == Len(pages)
<1>1. /\ adding.write = "pageFooter" /\ pages' = Append(pages, NewPage)
      /\ tail' = "whole" /\ adding' = [adding EXCEPT !.write = "pageCount"]
      /\ UNCHANGED <<saved, header, crashes, cut>>
  BY DEF WritePageFooter
<1>2. /\ adding \in Adding /\ pages \in Seq(Page) /\ cut \in Nat
      /\ saved.nPage \in Nat /\ saved.nEntry \in Nat
      /\ header = [nPage |-> saved.nPage + 1, nEntry |-> saved.nEntry]
      /\ adding.at = N + 1 /\ (saved.nPage = 0 \/ Full(N)) /\ adding.id = header.nPage - 1
      /\ saved.nPage <= N /\ (saved.nPage = 0 => N <= cut)
      /\ saved.nEntry <= Held(pages) /\ Held(pages) <= saved.nEntry + cut
      /\ Held(pages) \in Nat /\ Cardinality(Room(pages)) <= cut
  <2>1. saved.nEntry + 0 = saved.nEntry
    BY FileIs
  <2>. QED
    BY <1>1, <2>1, FileIs DEF FileInv, Stage, Before, Idle, Ahead
<1>3. /\ pages' \in Seq(Page) /\ N \in Nat /\ Len(pages') = N + 1
      /\ pages'[N + 1] = NewPage /\ \A at \in 1..N : pages'[at] = pages[at]
  BY <1>1, <1>2, NewPageIs, AppendIs
<1>4. /\ adding' \in Adding /\ adding'.write = "pageCount" /\ adding'.at = adding.at
      /\ adding'.id = adding.id
  BY <1>1, <1>2 DEF Adding, Writes
<1>5. FileType'
  BY <1>1, <1>3, <1>4 DEF FileInv, FileType
<1>6. Stage(adding.write)'
  <2>1. pages'[Len(pages')].nEntry < PerPage
    BY <1>3, NewPageIs, Constants
  <2>2. saved.nPage < N + 1
    BY <1>2, <1>3
  <2> HIDE DEF N
  <2>. QED
    BY <1>1, <1>2, <1>3, <1>4, <2>1, <2>2 DEF Stage, Before
<1>7. Held(pages') = Held(pages)
  <2>1. Held(pages') = Held(pages) + NewPage.nEntry
    BY <1>1, <1>2, NewPageIs, HeldAppend
  <2>. QED
    BY <1>2, <2>1, NewPageIs
<1> HIDE DEF N
<1>8. Cardinality(Room(pages')) <= cut
  <2>1. Room(pages') = {at \in 1..N : pages[at].nEntry < PerPage}
    BY <1>3 DEF Room
  <2>2. CASE Full(N)
    <3>1. Room(pages') = Room(pages)
      <4>1. \A at \in 1..N : at \in 1..N - 1 \/ at = N
        BY <1>3
      <4>2. ~(pages[N].nEntry < PerPage)
        BY <2>2, Constants DEF Full
      <4>3. \A at \in 1..N - 1 : at \in 1..N
        BY <1>3
      <4>. QED
        BY <2>1, <4>1, <4>2, <4>3 DEF Room, N
    <3>. QED
      BY <1>2, <3>1
  <2>3. CASE saved.nPage = 0
    <3>1. IsFiniteSet(1..N) /\ Cardinality(1..N) = N
      <4>1. N \in Int /\ 1 \in Int /\ (IF 1 > N THEN 0 ELSE N - 1 + 1) = N
        BY <1>3
      <4>. QED
        BY <4>1, FS_Interval
    <3>2. Room(pages') \subseteq 1..N
      BY <2>1
    <3>3. Cardinality(Room(pages')) <= N /\ Cardinality(Room(pages')) \in Nat
      BY <3>1, <3>2, FS_Subset, FS_CardinalityType
    <3>. QED
      BY <1>2, <1>3, <2>3, <3>3
  <2>. QED
    BY <1>2, <2>2, <2>3
<1>9. /\ saved'.nPage <= Len(pages')
      /\ saved'.nPage = 0 => Len(pages') <= cut' + 1
  BY <1>1, <1>2, <1>3 DEF N
<1>. QED
  BY <1>1, <1>2, <1>4, <1>5, <1>6, <1>7, <1>8, <1>9 DEF FileInv, Ahead

LEMMA FilePageCount ==
  ASSUME FileInv, WritePageCount
  PROVE  FileInv'
<1>1. /\ adding.write = "pageCount" /\ saved' = header
      /\ adding' = [adding EXCEPT !.write = "slotCount"]
      /\ UNCHANGED <<pages, tail, header, crashes, cut>>
  BY DEF WritePageCount
<1>2. /\ adding \in Adding /\ Stage("pageCount")
      /\ saved.nPage \in Nat /\ Len(pages) \in Nat /\ saved.nEntry \in Nat
      /\ header = [nPage |-> saved.nPage + 1, nEntry |-> saved.nEntry]
      /\ saved.nPage < Len(pages)
  BY <1>1, FileIs DEF Stage, Idle
<1>3. /\ adding' \in Adding /\ adding'.write = "slotCount" /\ adding'.at = adding.at
      /\ adding'.id = adding.id
  BY <1>1, <1>2 DEF Adding, Writes
<1>4. FileType'
  BY <1>1, <1>3 DEF FileInv, FileType
<1>5. Stage(adding.write)'
  BY <1>1, <1>2, <1>3 DEF Stage, Before
<1>6. saved'.nPage <= Len(pages) /\ saved'.nPage # 0 /\ saved'.nEntry = saved.nEntry
  BY <1>1, <1>2
<1>7. Ahead(adding.write) = 0 /\ Ahead(adding'.write) = 0
  BY <1>1, <1>3 DEF Ahead
<1>. QED
  BY <1>1, <1>4, <1>5, <1>6, <1>7 DEF FileInv

LEMMA FileSlotCount ==
  ASSUME FileInv, WriteSlotCount
  PROVE  FileInv'
<1> DEFINE N == Len(pages)
           p == [pages[N] EXCEPT !.nEntry = @ + 1]
<1>1. /\ adding.write = "slotCount"
      /\ pages' = [pages EXCEPT ![adding.at].nEntry = @ + 1]
      /\ adding' = [adding EXCEPT !.write = "entryCount"]
      /\ UNCHANGED <<tail, saved, header, crashes, cut>>
  BY DEF WriteSlotCount
<1>2. /\ adding \in Adding /\ pages \in Seq(Page) /\ N \in Nat /\ DOMAIN pages = 1..N
      /\ cut \in Nat /\ saved.nEntry \in Nat
      /\ header = saved /\ adding.at = N /\ 0 < N /\ adding.id = header.nPage - 1
      /\ pages[N].nEntry < PerPage
  BY <1>1, FileIs DEF Stage, Before, Idle
<1>3. N \in 1..N
  BY <1>2
<1>4. p \in Page /\ p.nEntry = pages[N].nEntry + 1 /\ pages[N].nEntry \in Nat
  <2>1. /\ pages[N].nEntry \in 0..PerPage
        /\ pages[N].slot \in [0..PerPage - 1 -> Values \cup {Blank}]
        /\ pages[N] = [nEntry |-> pages[N].nEntry, slot |-> pages[N].slot]
    BY <1>2, <1>3, FileIs
  <2>2. p = [nEntry |-> pages[N].nEntry + 1, slot |-> pages[N].slot]
    BY <2>1
  <2>3. pages[N].nEntry + 1 \in 0..PerPage
    BY <1>2, <2>1, Constants
  <2>. QED
    BY <2>1, <2>2, <2>3 DEF Page
<1>5. pages' = [pages EXCEPT ![N] = p]
  BY <1>1, <1>2
<1> HIDE DEF p
<1>6. /\ pages' \in Seq(Page) /\ Len(pages') = N /\ pages'[N] = p
      /\ \A at \in 1..N : at # N => pages'[at] = pages[at]
  <2> HIDE DEF N
  <2>1. N \in 1..Len(pages)
    BY <1>3 DEF N
  <2>2. /\ pages' \in Seq(Page) /\ Len(pages') = Len(pages) /\ pages'[N] = p
        /\ \A at \in 1..Len(pages) : at # N => pages'[at] = pages[at]
    <3>1. Replaced(Page, pages, N, p, [pages EXCEPT ![N] = p])
      BY <1>2, <1>4, <2>1, ReplacedIs
    <3>. QED
      BY <1>5, <3>1 DEF Replaced
  <2>. QED
    BY <1>4, <2>2 DEF N
<1>7. /\ adding' \in Adding /\ adding'.write = "entryCount" /\ adding'.at = adding.at
      /\ adding'.id = adding.id
  BY <1>1, <1>2 DEF Adding, Writes
<1>8. FileType'
  BY <1>1, <1>6, <1>7 DEF FileInv, FileType
<1>9. Stage(adding.write)'
  <2> HIDE DEF N
  <2>1. pages'[Len(pages')].nEntry > 0
    BY <1>4, <1>6
  <2>2. adding'.at = Len(pages') /\ Len(pages') > 0
    BY <1>2, <1>6, <1>7
  <2>. QED
    BY <1>1, <1>2, <1>7, <2>1, <2>2 DEF Stage, Before
<1> HIDE DEF N
<1>10. PICK M \in Nat : N = M + 1
  BY <1>2, OneLess
<1>11. \A at \in 1..M : at \in 1..N /\ at # N
  BY <1>10
<1>12. Held(pages') = Held(pages) + 1
  <2>1. Held(pages') - pages'[M + 1].nEntry = Held(pages) - pages[M + 1].nEntry
    <3>1. Len(pages) = M + 1 /\ Len(pages') = M + 1
      BY <1>6, <1>10 DEF N
    <3>2. \A at \in 1..M : pages'[at].nEntry = pages[at].nEntry
      BY <1>6, <1>11
    <3>. QED
      BY <1>2, <1>6, <3>1, <3>2, HeldChanged
  <2>2. Held(pages') \in Nat /\ Held(pages) \in Nat
    BY <1>2, <1>6, HeldIs
  <2>. QED
    BY <1>4, <1>6, <1>10, <2>1, <2>2
<1>13. Room(pages') = Room(pages)
  <2>1. Room(pages) = {at \in 1..M : pages[at].nEntry < PerPage}
    BY <1>10 DEF Room, N
  <2>2. Room(pages') = {at \in 1..M : pages'[at].nEntry < PerPage}
    BY <1>6, <1>10 DEF Room
  <2>. QED
    BY <1>6, <1>11, <2>1, <2>2
<1>14. Ahead(adding.write) = 0 /\ Ahead(adding'.write) = 1
  BY <1>1, <1>7 DEF Ahead
<1>15. Held(pages) \in Nat
  BY FileIs
<1>. QED
  BY <1>1, <1>2, <1>6, <1>7, <1>8, <1>9, <1>12, <1>13, <1>14, <1>15 DEF FileInv, N

LEMMA FileEntryCount ==
  ASSUME FileInv, WriteEntryCount
  PROVE  FileInv'
<1>1. /\ adding.write = "entryCount" /\ header' = [header EXCEPT !.nEntry = @ + 1]
      /\ saved' = header' /\ adding' = [adding EXCEPT !.write = "entry"]
      /\ UNCHANGED <<pages, tail, crashes, cut>>
  BY DEF WriteEntryCount
<1>2. /\ adding \in Adding /\ header = saved /\ Stage("entryCount")
      /\ saved = [nPage |-> saved.nPage, nEntry |-> saved.nEntry]
      /\ saved.nPage \in Nat /\ saved.nEntry \in Nat
      /\ cut \in Nat /\ Held(pages) \in Nat
  BY <1>1, FileIs DEF Stage, Before, Idle
<1>3. saved' = [nPage |-> saved.nPage, nEntry |-> saved.nEntry + 1] /\ header' = saved'
  BY <1>1, <1>2
<1>4. /\ adding' \in Adding /\ adding'.write = "entry" /\ adding'.at = adding.at
      /\ adding'.id = adding.id
  BY <1>1, <1>2 DEF Adding, Writes
<1>5. FileType'
  BY <1>1, <1>2, <1>3, <1>4 DEF FileInv, FileType, Header
<1>6. Stage(adding.write)'
  BY <1>1, <1>2, <1>3, <1>4 DEF Stage, Before
<1>7. /\ saved.nEntry + 1 <= Held(pages) /\ Held(pages) <= saved.nEntry + 1 + cut
      /\ saved.nPage <= Len(pages) /\ (saved.nPage = 0 => Len(pages) <= cut)
      /\ Cardinality(Room(pages)) <= cut
  BY <1>1 DEF FileInv, Ahead
<1>8. saved'.nPage = saved.nPage /\ saved'.nEntry + Ahead(adding'.write) = saved.nEntry + 1
  BY <1>2, <1>3, <1>4 DEF Ahead
<1>. QED
  BY <1>1, <1>4, <1>5, <1>6, <1>7, <1>8 DEF FileInv

LEMMA FileEntry ==
  ASSUME FileInv, WriteEntry
  PROVE  FileInv'
<1> DEFINE N == Len(pages)
           i == pages[N].nEntry - 1
           p == [pages[N] EXCEPT !.slot[i] = adding.value]
<1>1. /\ adding.write = "entry" /\ adding' = Idle
      /\ pages' = [pages EXCEPT ![adding.at].slot[pages[adding.at].nEntry - 1] = adding.value]
      /\ UNCHANGED <<tail, saved, header, crashes, cut>>
  BY DEF WriteEntry
<1>2. /\ adding \in Adding /\ adding.value \in Values
      /\ pages \in Seq(Page) /\ N \in Nat /\ DOMAIN pages = 1..N
      /\ header = saved /\ adding.at = N /\ 0 < N /\ 0 < pages[N].nEntry
  BY <1>1, FileIs DEF Stage, Before, Idle, Adding
<1>3. N \in 1..N
  BY <1>2
<1>4. p \in Page /\ p.nEntry = pages[N].nEntry
  <2>1. /\ pages[N].nEntry \in 0..PerPage
        /\ pages[N].slot \in [0..PerPage - 1 -> Values \cup {Blank}]
        /\ pages[N] = [nEntry |-> pages[N].nEntry, slot |-> pages[N].slot]
    BY <1>2, <1>3, FileIs
  <2>2. p = [nEntry |-> pages[N].nEntry, slot |-> [pages[N].slot EXCEPT ![i] = adding.value]]
    BY <2>1
  <2> HIDE DEF i
  <2>3. [pages[N].slot EXCEPT ![i] = adding.value] \in [0..PerPage - 1 -> Values \cup {Blank}]
    BY <1>2, <2>1
  <2>. QED
    BY <2>1, <2>2, <2>3 DEF Page
<1>5. pages' = [pages EXCEPT ![N] = p]
  BY <1>1, <1>2
<1> HIDE DEF p
<1>6. /\ pages' \in Seq(Page) /\ Len(pages') = N
      /\ \A at \in 1..N : pages'[at].nEntry = pages[at].nEntry
  <2> HIDE DEF N
  <2>1. N \in 1..Len(pages)
    BY <1>3 DEF N
  <2>2. /\ pages' \in Seq(Page) /\ Len(pages') = Len(pages) /\ pages'[N] = p
        /\ \A at \in 1..Len(pages) : at # N => pages'[at] = pages[at]
    <3>1. Replaced(Page, pages, N, p, [pages EXCEPT ![N] = p])
      BY <1>2, <1>4, <2>1, ReplacedIs
    <3>. QED
      BY <1>5, <3>1 DEF Replaced
  <2>. QED
    BY <1>4, <2>2 DEF N
<1>7. FileType'
  BY <1>1, <1>6 DEF FileInv, FileType
<1>8. Stage(adding.write)'
  BY <1>1, <1>2 DEF Stage, Before, Idle
<1>. QED
  BY <1>1, <1>6, <1>7, <1>8, CountsKept DEF Idle

LEMMA FileCrash ==
  ASSUME FileInv, Crash
  PROVE  FileInv'
<1>1. /\ crashes < MaxCrashes /\ crashes' = crashes + 1
      /\ cut' = IF adding = Idle THEN cut ELSE cut + 1
      /\ header' = saved /\ adding' = Idle /\ UNCHANGED <<pages, tail, saved>>
  BY DEF Crash, disk
<1>2. /\ cut \in Nat /\ Held(pages) \in Nat /\ saved.nEntry \in Nat /\ saved.nPage \in Nat
      /\ Len(pages) \in Nat /\ saved \in Header
  BY FileIs
<1>3. FileType'
  <2>1. crashes \in 0..MaxCrashes
    BY DEF FileInv, FileType
  <2>. QED
    BY <1>1, <1>2, <2>1, Constants DEF FileInv, FileType
<1>4. Stage(adding.write)' /\ adding'.write = "none"
  BY <1>1 DEF Stage, Before, Idle
<1>5. CASE adding = Idle
  <2>1. cut' = cut /\ adding.write = "none" /\ Ahead(adding.write) = 0 /\ Ahead(adding'.write) = 0
    BY <1>1, <1>5 DEF Idle, Ahead
  <2>. QED
    BY <1>1, <1>3, <1>4, <2>1 DEF FileInv
<1>6. CASE adding # Idle
  <2>1. cut' = cut + 1
    BY <1>1, <1>6
  <2>2. saved.nPage = 0 => Len(pages) <= cut + 1
    BY <1>2 DEF FileInv
  <2>3. Cardinality(Room(pages)) <= cut + 1
    <3>1. IsFiniteSet(1..Len(pages) - 1)
      BY <1>2, FS_Interval
    <3>2. Cardinality(Room(pages)) \in Nat
      BY <3>1, FS_Subset, FS_CardinalityType DEF Room
    <3>. QED
      BY <1>2, <3>2 DEF FileInv
  <2>4. saved.nEntry <= Held(pages) /\ Held(pages) <= saved.nEntry + (cut + 1)
    <3>1. Ahead(adding.write) \in {0, 1}
      BY DEF Ahead
    <3>. QED
      BY <1>2, <3>1 DEF FileInv
  <2>5. saved.nEntry + Ahead(adding'.write) = saved.nEntry
    BY <1>2, <1>4 DEF Ahead
  <2>. QED
    BY <1>1, <1>3, <1>4, <2>1, <2>2, <2>3, <2>4, <2>5 DEF FileInv
<1>. QED
  BY <1>5, <1>6

\* What an operation that goes astray does to the file is not said: the model ends there.
LEMMA FileAstray ==
  ASSUME FileInv, GoAstray
  PROVE  FileInv'
<1>1. tail' = "astray" /\ UNCHANGED <<pages, saved, header, adding, crashes, cut>>
  BY DEF GoAstray
<1>2. FileType'
  BY <1>1 DEF FileInv, FileType
<1>. QED
  BY <1>1, <1>2 DEF FileInv, Stage, Full

LEMMA FileInit == Init => FileInv
<1> SUFFICES ASSUME Init PROVE FileInv
  OBVIOUS
<1>1. /\ pages = <<>> /\ tail = "whole" /\ saved = [nPage |-> 0, nEntry |-> 0]
      /\ header = saved /\ adding = Idle /\ crashes = 0 /\ cut = 0
  BY DEF Init
<1>2. pages \in Seq(Page) /\ Len(pages) = 0
  BY <1>1
<1>3. FileType
  BY <1>1, <1>2, Constants DEF FileType, Header
<1>4. adding.write = "none" /\ Ahead(adding.write) = 0
  BY <1>1 DEF Idle, Ahead
<1>5. Stage(adding.write)
  BY <1>1, <1>4 DEF Stage, Before
<1>6. Held(pages) = 0
  <2>1. PICK f : SumsOf(pages, f) /\ Held(pages) = f[Len(pages)]
    BY <1>2, HeldIs
  <2>. QED
    BY <1>2, <2>1 DEF SumsOf
<1>7. Room(pages) = {} /\ Cardinality({}) = 0
  BY <1>2, FS_EmptySet DEF Room
<1>8. saved.nPage = 0 /\ saved.nEntry = 0 /\ cut = 0
  BY <1>1
<1>. QED
  BY <1>2, <1>3, <1>4, <1>5, <1>6, <1>7, <1>8 DEF FileInv

LEMMA FileNext == FileInv /\ [Next]_vars => FileInv'
<1> SUFFICES ASSUME FileInv, [Next]_vars PROVE FileInv'
  OBVIOUS
<1>1. ASSUME NEW id \in 0..MaxEntries - 1, GetEntry(id) PROVE FileInv'
  BY <1>1, UnchangedFile DEF GetEntry, disk
<1>2. ASSUME NEW id \in 0..MaxEntries - 1, NEW v \in Values, UpdateEntry(id, v) PROVE FileInv'
  <2>1. id \in Nat
    OBVIOUS
  <2>. QED
    BY <1>2, <2>1, FileUpdate
<1>3. ASSUME NEW v \in Values, AddEntry(v) PROVE FileInv'
  BY <1>3, FileAdd
<1>4. CASE AddEntryWrites
  BY <1>4, FileTail, FilePage, FilePageCount, FileSlotCount, FileEntryCount, FileEntry
     DEF AddEntryWrites
<1>5. CASE Crash
  BY <1>5, FileCrash
<1>6. CASE GoAstray
  BY <1>6, FileAstray
<1>7. CASE UNCHANGED vars
  BY <1>7, UnchangedFile DEF vars, disk
<1>. QED
  BY <1>1, <1>2, <1>3, <1>4, <1>5, <1>6, <1>7 DEF Next

\* Wherever the process dies in an addition, the headers and the counts of the pages are as
\* FileInv says.
THEOREM FileInvariance == Spec => []FileInv
<1>. QED
  BY FileInit, FileNext, PTL DEF Spec

\* However often and wherever the process dies in addEntry, the pages count at most one
\* entry more than the book for every such death, and none less, and at most one page for
\* every such death is left with room before the last: until an operation takes the end of
\* an unfinished page for that of a whole one.
THEOREM DamageBounded == Spec => []DamagePerDeath
<1>1. FileInv => DamagePerDeath
  <2> SUFFICES ASSUME FileInv PROVE DamagePerDeath
    OBVIOUS
  <2>1. ASSUME adding = Idle
        PROVE  saved.nEntry <= Held(pages) /\ Held(pages) <= saved.nEntry + cut
    <3>1. Ahead(adding.write) = 0
      BY <2>1 DEF Idle, Ahead
    <3>2. saved.nEntry + 0 = saved.nEntry
      BY FileIs
    <3>. QED
      BY <3>1, <3>2 DEF FileInv
  <2>2. Cardinality({at \in 1..Len(pages) - 1 : pages[at].nEntry < PerPage}) <= cut
    BY DEF FileInv, Room
  <2>. QED
    BY <2>1, <2>2 DEF DamagePerDeath
<1>. QED
  BY <1>1, FileInvariance, PTL

-----------------------------------------------------------------------------
(* Where an entry is *)

LEMMA Division ==
  ASSUME NEW id \in Nat
  PROVE  /\ PageOf(id) \in Nat /\ SlotOf(id) \in 0..PerPage - 1
         /\ id = PerPage * PageOf(id) + SlotOf(id)
BY Constants DEF PageOf, SlotOf

LEMMA Times ==
  ASSUME NEW a \in Nat, NEW b \in Nat, a <= b
  PROVE  /\ PerPage * a <= PerPage * b /\ PerPage * a \in Nat /\ PerPage * b \in Nat
         /\ PerPage * (a + 1) = PerPage * a + PerPage
BY Constants

LEMMA SamePlace ==
  ASSUME NEW i \in Nat, NEW j \in Nat, PageOf(i) = PageOf(j), SlotOf(i) = SlotOf(j)
  PROVE  i = j
BY Division

LEMMA Quotient ==
  ASSUME NEW id \in Nat, NEW q \in Nat, NEW r \in 0..PerPage - 1, id = PerPage * q + r
  PROVE  PageOf(id) = q /\ SlotOf(id) = r
<1> DEFINE p == PageOf(id)
           s == SlotOf(id)
<1>1. p \in Nat /\ s \in 0..PerPage - 1 /\ id = PerPage * p + s /\ PerPage \in Nat
  BY Division, Constants
<1> HIDE DEF p, s
<1>2. ~(p + 1 <= q)
  <2> SUFFICES ASSUME p + 1 <= q PROVE FALSE
    OBVIOUS
  <2>1. /\ PerPage * (p + 1) <= PerPage * q /\ PerPage * (p + 1) = PerPage * p + PerPage
        /\ PerPage * p \in Nat /\ PerPage * q \in Nat
    BY <1>1, Times
  <2>. QED
    BY <1>1, <2>1
<1>3. ~(q + 1 <= p)
  <2> SUFFICES ASSUME q + 1 <= p PROVE FALSE
    OBVIOUS
  <2>1. /\ PerPage * (q + 1) <= PerPage * p /\ PerPage * (q + 1) = PerPage * q + PerPage
        /\ PerPage * p \in Nat /\ PerPage * q \in Nat
    BY <1>1, Times
  <2>. QED
    BY <1>1, <2>1
<1>4. p = q
  BY <1>1, <1>2, <1>3
<1>5. PICK m : m = PerPage * q /\ m = PerPage * p /\ m \in Nat
  BY <1>1, <1>4
<1>6. id = m + r /\ id = m + s
  BY <1>1, <1>5
<1>7. s = r
  BY <1>1, <1>5, <1>6
<1>. QED
  BY <1>4, <1>7 DEF p, s

\* Every entry that the pages count is in one of them.
LEMMA PlaceIs ==
  ASSUME NEW ps \in Seq(Page), NEW c \in Nat, Filled(ps, c), NEW id \in 0..c - 1
  PROVE  /\ PageOf(id) \in 0..Len(ps) - 1 /\ SlotOf(id) \in 0..PerPage - 1
         /\ PageOf(id) + 1 \in 1..Len(ps)
         /\ SlotOf(id) < ps[PageOf(id) + 1].nEntry
<1> DEFINE p == PageOf(id)
           s == SlotOf(id)
           N == Len(ps)
<1>0. id \in Nat
  OBVIOUS
<1>1. p \in Nat /\ s \in 0..PerPage - 1 /\ id = PerPage * p + s /\ PerPage \in Nat
  BY <1>0, Division, Constants
<1>2. N \in Nat /\ \A at \in 1..N : ps[at].nEntry \in 0..PerPage
  BY PageIs
<1>3. N > 0 /\ c = PerPage * (N - 1) + ps[N].nEntry
  <2>1. c > 0
    OBVIOUS
  <2>. QED
    BY <1>2, <2>1 DEF Filled
<1> HIDE DEF p, s, N
<1>4. PICK M \in Nat : N = M + 1
  BY <1>2, <1>3, OneLess
<1>5. ps[M + 1].nEntry \in 0..PerPage /\ c = PerPage * M + ps[M + 1].nEntry
  <2>1. M + 1 \in 1..N /\ N - 1 = M
    BY <1>4
  <2>. QED
    BY <1>2, <1>3, <1>4, <2>1
<1>6. ~(M + 1 <= p)
  <2> SUFFICES ASSUME M + 1 <= p PROVE FALSE
    OBVIOUS
  <2>1. /\ PerPage * (M + 1) <= PerPage * p /\ PerPage * (M + 1) = PerPage * M + PerPage
        /\ PerPage * M \in Nat /\ PerPage * p \in Nat
    BY <1>1, Times
  <2>2. PICK m \in Nat : m = PerPage * M
    BY <2>1
  <2>3. PICK k \in Nat : k = PerPage * p
    BY <2>1
  <2>4. PICK e \in 0..PerPage : e = ps[M + 1].nEntry
    BY <1>5
  <2>5. c = m + e
    BY <1>5, <2>2, <2>4
  <2>6. id = k + s
    BY <1>1, <2>3
  <2>7. m + PerPage <= k
    BY <2>1, <2>2, <2>3
  <2>. QED
    BY <1>1, <2>5, <2>6, <2>7
<1>7. p \in 0..N - 1 /\ p + 1 \in 1..N
  BY <1>1, <1>4, <1>6
<1>8. s < ps[p + 1].nEntry
  <2>1. CASE p = M
    <3>1. PerPage * M \in Nat
      BY <1>1
    <3>. QED
      BY <1>1, <1>5, <2>1, <3>1
  <2>2. CASE p # M
    <3>1. p + 1 \in 1..N - 1
      BY <1>1, <1>4, <1>6, <2>2
    <3>2. ps[p + 1].nEntry = PerPage
      BY <3>1 DEF Filled, N
    <3>. QED
      BY <1>1, <3>2
  <2>. QED
    BY <2>1, <2>2
<1>. QED
  BY <1>1, <1>7, <1>8 DEF p, s, N

-----------------------------------------------------------------------------
(* Finding a page *)

LEMMA ClosestIs ==
  ASSUME Remembered(known), NEW p \in Nat
  PROVE  /\ Closest(p) \in DOMAIN known \cup {-1}
         /\ (\E n \in DOMAIN known : n >= p) => Closest(p) \in DOMAIN known
<1> DEFINE above == {n \in DOMAIN known : n >= p}
           Takes(t) == t = [n \in 0..p |->
              IF n = 0 THEN -1
              ELSE IF n - 1 \in DOMAIN known /\ p - (n - 1) < (n - 1) - t[n - 1] THEN n - 1
              ELSE t[n - 1]]
           taken == CHOOSE t : Takes(t)
           S == DOMAIN known \cup {-1}
           step == [n \in 1..p |-> [x \in S |->
              IF n - 1 \in DOMAIN known /\ p - (n - 1) < (n - 1) - x THEN n - 1 ELSE x]]
<1>1. Closest(p) = IF above = {} THEN taken[p] ELSE CHOOSE n \in above : \A k \in above : n <= k
  BY DEF Closest
<1>2. CASE above # {}
  <2>1. above \in SUBSET Nat
    BY DEF Remembered
  <2>2. \E n \in above : \A k \in above : n <= k
    <3> HIDE DEF above
    <3>. QED
      BY <1>2, <2>1, NatMin, Zenon
  <2>3. Closest(p) \in above
    <3> HIDE DEF above
    <3>. QED
      BY <1>1, <1>2, <2>2
  <2>. QED
    BY <2>3
<1>3. CASE above = {}
  <2>1. step \in [1..p -> [S -> S]] /\ -1 \in S
    OBVIOUS
  <2>2. PICK t \in [0..p -> S] : Solves(t, p, -1, step)
    <3> HIDE DEF step, S
    <3>. QED
      BY <2>1, Recursion
  <2>3. Takes(t)
    <3>1. ASSUME NEW n \in 0..p
          PROVE  t[n] = IF n = 0 THEN -1
              ELSE IF n - 1 \in DOMAIN known /\ p - (n - 1) < (n - 1) - t[n - 1] THEN n - 1
              ELSE t[n - 1]
      <4>1. CASE n = 0
        BY <2>2, <4>1 DEF Solves
      <4>2. CASE n # 0
        <5>1. n \in 1..p /\ n - 1 \in 0..p
          BY <4>2
        <5>2. t[n] = step[n][t[n - 1]] /\ t[n - 1] \in S
          <6> HIDE DEF step, S
          <6>. QED
            BY <2>2, <4>2, <5>1 DEF Solves
        <5>. QED
          BY <4>2, <5>1, <5>2
      <4>. QED
        BY <4>1, <4>2
    <3>. QED
      BY <3>1
  <2>4. Takes(taken)
    <3> HIDE DEF Takes
    <3>. QED
      BY <2>3
  <2> HIDE DEF taken
  <2>5. ASSUME NEW n \in 1..p, taken[n - 1] \in S PROVE taken[n] \in S
    <3>1. n \in 0..p /\ n # 0
      OBVIOUS
    <3>2. taken[n] \in {n - 1, taken[n - 1]} /\ (taken[n] # taken[n - 1] => n - 1 \in DOMAIN known)
      BY <2>4, <3>1
    <3>. QED
      BY <2>5, <3>2
  <2>6. taken[0] \in S
    <3>1. 0 \in 0..p
      OBVIOUS
    <3>. QED
      BY <2>4, <3>1
  <2> HIDE DEF S
  <2>7. \A n \in 0..p : taken[n] \in S
    BY <2>5, <2>6, Carried
  <2>8. taken[p] \in S
    BY <2>7
  <2>. QED
    BY <1>1, <1>3, <2>8 DEF S
<1>. QED
  BY <1>2, <1>3

\* A page to start from is at its place.
LEMMA StartIs ==
  ASSUME FileInv, SessionInv, NEW p \in 0..Len(pages) - 1
  PROVE  PageStart(p).id \in Nat /\ PageStart(p).at = PageStart(p).id + 1
<1>1. /\ Len(pages) \in Nat /\ header.nPage \in Nat /\ p \in Nat /\ p < Len(pages)
      /\ Remembered(known)
  BY FileIs DEF SessionInv
<1>2. /\ DOMAIN known \subseteq Nat /\ \A k \in DOMAIN known : known[k] = k + 1
  BY <1>1 DEF Remembered
<1>3. /\ Closest(p) \in DOMAIN known \cup {-1}
      /\ (\E n \in DOMAIN known : n >= p) => Closest(p) \in DOMAIN known
  BY <1>1, ClosestIs
<1>4. CASE p = 0
  BY <1>4 DEF PageStart
<1>5. CASE p # 0 /\ Closest(p) >= 0
  <2>1. Closest(p) \in DOMAIN known
    BY <1>3, <1>5
  <2>2. PageStart(p) = [id |-> Closest(p), at |-> known[Closest(p)]]
    BY <1>5 DEF PageStart
  <2>. QED
    BY <1>2, <2>1, <2>2
<1>6. CASE p # 0 /\ ~(Closest(p) >= 0)
  <2>1. CASE p < header.nPage - p
    BY <1>6, <2>1 DEF PageStart
  <2>2. CASE ~(p < header.nPage - p)
    <3>1. PageStart(p) = [id |-> header.nPage - 1, at |-> Len(pages)]
      BY <1>6, <2>2 DEF PageStart
    <3>2. adding.write \notin Before
      <4> SUFFICES ASSUME adding.write \in Before PROVE FALSE
        OBVIOUS
      <4>1. Len(pages) - 1 \in DOMAIN known /\ Len(pages) - 1 >= p
        BY <1>1 DEF SessionInv
      <4>2. Closest(p) \in DOMAIN known
        BY <1>3, <4>1
      <4>. QED
        BY <1>2, <1>6, <4>2
    <3>3. Len(pages) = header.nPage
      BY <3>2 DEF SessionInv
    <3>. QED
      BY <1>1, <3>1, <3>3
  <2>. QED
    BY <2>1, <2>2
<1>. QED
  BY <1>4, <1>5, <1>6

\* A search for a page of the file ends at it.
LEMMA Finds ==
  ASSUME FileInv, SessionInv, NEW p \in 0..Len(pages) - 1
  PROVE  FoundAt(p) = p + 1
<1> DEFINE start == PageStart(p)
           goal == start.at + (p - start.id)
           last == {at \in start.at..goal - 1 : at \notin DOMAIN pages \/ ~Full(at)}
<1>1. start.id \in Nat /\ start.at = start.id + 1
  BY StartIs
<1>2. Len(pages) \in Nat /\ DOMAIN pages = 1..Len(pages) /\ p \in Nat
  BY FileIs
<1>3. FoundAt(p) = IF last = {} THEN goal ELSE CHOOSE at \in last : \A k \in last : at <= k
  BY DEF FoundAt
<1> HIDE DEF start
<1>4. goal = p + 1
  BY <1>1, <1>2
<1>5. last = {}
  <2> SUFFICES ASSUME NEW at \in last PROVE FALSE
    OBVIOUS
  <2>1. at \in start.id + 1..p
    BY <1>1, <1>2, <1>4
  <2>2. at \in 1..Len(pages) - 1
    BY <1>1, <1>2, <2>1
  <2>3. at \in DOMAIN pages
    BY <1>2, <2>2
  <2>4. Full(at)
    BY <2>2 DEF Full, SessionInv, Filled
  <2>. QED
    BY <2>3, <2>4
<1> HIDE DEF last, goal
<1>. QED
  BY <1>3, <1>4, <1>5

\* What is remembered of a search is right.
LEMMA VisitedIs ==
  ASSUME FileInv, SessionInv, NEW p \in 0..Len(pages) - 1
  PROVE  Remembered(Visited(p)) /\ DOMAIN known \subseteq DOMAIN Visited(p)
<1> DEFINE start == PageStart(p)
           way == {k \in 0..header.nPage :
                     (start.id <= k /\ k <= p) \/ (p <= k /\ k <= start.id)}
<1>1. start.id \in Nat /\ start.at = start.id + 1
  BY StartIs
<1>2. Visited(p) = [k \in DOMAIN known \cup way |->
                       IF k \in way THEN start.at + (k - start.id) ELSE known[k]]
  BY DEF Visited
<1>3. way \subseteq Nat
  BY FileIs
<1> HIDE DEF start, way
<1>4. Remembered(known)
  BY DEF SessionInv
<1>5. \A k \in way : start.at + (k - start.id) = k + 1
  BY <1>1, <1>3
<1>. QED
  BY <1>2, <1>3, <1>4, <1>5 DEF Remembered

-----------------------------------------------------------------------------
(* What a session sees *)

LEMMA SlotIs ==
  ASSUME FileInv, SessionInv, NEW id \in 0..header.nEntry - 1
  PROVE  /\ id \in Nat
         /\ PageOf(id) \in 0..Len(pages) - 1 /\ SlotOf(id) \in 0..PerPage - 1
         /\ PageOf(id) + 1 \in 1..Len(pages)
         /\ SlotOf(id) < pages[PageOf(id) + 1].nEntry
         /\ Slot(id) = {<<PageOf(id) + 1, SlotOf(id)>>}
         /\ OnDisk(id) = Stored(pages, id)
<1> DEFINE c == header.nEntry + Ahead(adding.write)
           p == PageOf(id)
<1>1. /\ pages \in Seq(Page) /\ DOMAIN pages = 1..Len(pages) /\ header.nEntry \in Nat
  BY FileIs
<1>2. Ahead(adding.write) \in {0, 1}
  BY DEF Ahead
<1>3. c \in Nat /\ id \in 0..c - 1 /\ id \in Nat
  BY <1>1, <1>2
<1>4. Filled(pages, c)
  BY DEF SessionInv
<1> HIDE DEF c
<1>5. /\ p \in 0..Len(pages) - 1 /\ SlotOf(id) \in 0..PerPage - 1 /\ p + 1 \in 1..Len(pages)
      /\ SlotOf(id) < pages[p + 1].nEntry
  BY <1>1, <1>3, <1>4, PlaceIs
<1>6. FoundAt(p) = p + 1
  BY <1>5, Finds
<1>7. Slot(id) = {<<p + 1, SlotOf(id)>>}
  <2>1. Slot(id) = IF FoundAt(p) \in DOMAIN pages /\ SlotOf(id) < pages[FoundAt(p)].nEntry
                   THEN {<<FoundAt(p), SlotOf(id)>>} ELSE {}
    BY DEF Slot, PageOf, SlotOf
  <2> HIDE DEF p
  <2>. QED
    BY <1>1, <1>5, <1>6, <2>1
<1>8. OnDisk(id) = Stored(pages, id)
  <2> DEFINE place == <<p + 1, SlotOf(id)>>
  <2>1. (CHOOSE s \in {place} : TRUE) = place /\ {place} # {}
    OBVIOUS
  <2>2. OnDisk(id) = pages[place[1]].slot[place[2]]
    <3> HIDE DEF place
    <3>1. Slot(id) = {place}
      BY <1>7 DEF place
    <3>. QED
      BY <2>1, <3>1 DEF OnDisk
  <2>. QED
    BY <2>2 DEF Stored
<1>. QED
  BY <1>3, <1>5, <1>7, <1>8

\* What a session reads under an id.
Value(id) == IF IsNew(id) THEN adding.value ELSE Stored(pages, id)

Agree == \A id \in 0..header.nEntry - 1 : Entry(id) = Value(id) /\ Value(id) \in Values

LEMMA AgreeIs == FileInv /\ SessionInv => Agree
<1> SUFFICES ASSUME FileInv, SessionInv, NEW id \in 0..header.nEntry - 1
             PROVE  Entry(id) = Value(id) /\ Value(id) \in Values
  BY DEF Agree
<1>1. OnDisk(id) = Stored(pages, id)
  BY SlotIs
<1>2. CacheOK(cache)
  BY DEF SessionInv
<1>3. CASE IsNew(id)
  <2>1. id \in DOMAIN cache /\ adding.write # "none"
    BY <1>2, <1>3 DEF CacheOK, IsNew
  <2>2. cache[id] = adding.value
    BY <1>2, <1>3, <2>1 DEF CacheOK
  <2>3. adding.value \in Values
    BY <2>1, FileIs DEF Adding
  <2>. QED
    BY <1>3, <2>1, <2>2, <2>3 DEF Entry, Value
<1>4. CASE ~IsNew(id)
  <2>1. id \in DOMAIN cache => cache[id] = Stored(pages, id)
    BY <1>2, <1>4 DEF CacheOK
  <2>2. Stored(pages, id) \in Values
    BY <1>4 DEF SessionInv
  <2>. QED
    BY <1>1, <1>4, <2>1, <2>2 DEF Entry, Value
<1>. QED
  BY <1>3, <1>4

-----------------------------------------------------------------------------
(* Until an addition is cut short *)

LEMMA UnchangedSession ==
  ASSUME SessionInv, UNCHANGED <<pages, header, known, cache, adding>>
  PROVE  SessionInv'
BY DEF SessionInv, Filled, CacheOK, IsNew, NewId, Stored, Remembered

LEMMA SessionGet ==
  ASSUME FileInv, SessionInv, NEW id \in Nat, GetEntry(id)
  PROVE  SessionInv'
<1>1. /\ adding = Idle /\ id < header.nEntry /\ cache' = Cached(id, OnDisk(id))
      /\ known' = Visited(id \div PerPage)
      /\ UNCHANGED <<pages, header, adding>>
  BY DEF GetEntry, disk
<1>2. id \in 0..header.nEntry - 1 /\ adding.write = "none"
  BY <1>1, FileIs DEF Idle
<1>3. OnDisk(id) = Stored(pages, id) /\ PageOf(id) \in 0..Len(pages) - 1
  BY <1>2, SlotIs
<1>4. Remembered(known')
  <2>1. known' = Visited(PageOf(id))
    BY <1>1 DEF PageOf
  <2>. QED
    BY <1>3, <2>1, VisitedIs
<1>5. CacheOK(cache)'
  <2>1. /\ DOMAIN cache' = DOMAIN cache \cup {id}
        /\ \A k \in DOMAIN cache' : cache'[k] = IF k = id THEN Stored(pages, id) ELSE cache[k]
    BY <1>1, <1>3 DEF Cached
  <2>. QED
    BY <1>1, <1>2, <2>1 DEF SessionInv, CacheOK, IsNew, Stored
<1>6. /\ Filled(pages, header.nEntry + Ahead(adding.write))'
      /\ \A i \in 0..header'.nEntry - 1 : ~IsNew(i)' => Stored(pages', i) \in Values
  BY <1>1 DEF SessionInv, Filled, IsNew, NewId, Stored
<1>. QED
  BY <1>1, <1>2, <1>4, <1>5, <1>6 DEF SessionInv, Before

\* An update changes what is stored under its id, and nothing else.
LEMMA UpdateIs ==
  ASSUME FileInv, SessionInv, NEW id \in Nat, NEW v \in Values, UpdateEntry(id, v),
         NEW i \in 0..header.nEntry - 1
  PROVE  Stored(pages', i) = IF i = id THEN v ELSE Stored(pages, i)
<1>1. /\ adding = Idle /\ id < header.nEntry
      /\ pages' = [at \in DOMAIN pages |-> IF \E s \in Slot(id) : s[1] = at
                                           THEN [pages[at] EXCEPT !.slot[id % PerPage] = v]
                                           ELSE pages[at]]
  BY DEF UpdateEntry
<1>2. id \in 0..header.nEntry - 1
  BY <1>1, FileIs
<1> DEFINE p == PageOf(id) + 1
           q == PageOf(i) + 1
           s == SlotOf(id)
           r == SlotOf(i)
<1>3. /\ p \in 1..Len(pages) /\ s \in 0..PerPage - 1 /\ PageOf(id) \in Int
      /\ Slot(id) = {<<p, s>>}
  BY <1>2, SlotIs
<1>4. q \in 1..Len(pages) /\ r \in 0..PerPage - 1 /\ PageOf(i) \in Int /\ i \in Nat
  BY SlotIs
<1>5. DOMAIN pages = 1..Len(pages)
  BY FileIs
<1>6. /\ pages[q].slot \in [0..PerPage - 1 -> Values \cup {Blank}]
      /\ pages[q] = [nEntry |-> pages[q].nEntry, slot |-> pages[q].slot]
  BY <1>4, FileIs
<1>7. q = p /\ r = s <=> i = id
  <2>1. ASSUME q = p, r = s PROVE i = id
    <3>1. PageOf(i) = PageOf(id)
      BY <1>3, <1>4, <2>1
    <3>. QED
      BY <1>4, <2>1, <3>1, SamePlace
  <2>. QED
    BY <2>1
<1>8. s = id % PerPage /\ Stored(pages', i) = pages'[q].slot[r] /\ Stored(pages, i) = pages[q].slot[r]
  BY DEF SlotOf, Stored
<1> HIDE DEF p, q, s, r
<1>9. CASE q = p
  <2>1. pages'[q] = [pages[q] EXCEPT !.slot[s] = v]
    BY <1>1, <1>3, <1>4, <1>5, <1>8, <1>9
  <2>2. pages'[q].slot = [pages[q].slot EXCEPT ![s] = v]
    BY <1>6, <2>1
  <2>. QED
    BY <1>3, <1>4, <1>6, <1>7, <1>8, <1>9, <2>2
<1>10. CASE q # p
  <2>1. pages'[q] = pages[q]
    BY <1>1, <1>3, <1>4, <1>5, <1>10
  <2>. QED
    BY <1>7, <1>8, <1>10, <2>1
<1>. QED
  BY <1>9, <1>10

LEMMA SessionUpdate ==
  ASSUME FileInv, SessionInv, NEW id \in Nat, NEW v \in Values, UpdateEntry(id, v)
  PROVE  SessionInv'
<1>1. /\ adding = Idle /\ id < header.nEntry /\ cache' = Cached(id, v)
      /\ known' = Visited(id \div PerPage)
      /\ UNCHANGED <<header, adding>>
  BY DEF UpdateEntry
<1>2. id \in 0..header.nEntry - 1 /\ adding.write = "none" /\ header.nEntry \in Nat
  BY <1>1, FileIs DEF Idle
<1>3. PageOf(id) \in 0..Len(pages) - 1
  BY <1>2, SlotIs
<1>4. Remembered(known')
  <2>1. known' = Visited(PageOf(id))
    BY <1>1 DEF PageOf
  <2>. QED
    BY <1>3, <2>1, VisitedIs
<1>5. \A i \in 0..header.nEntry - 1 : Stored(pages', i) = IF i = id THEN v ELSE Stored(pages, i)
  BY UpdateIs
<1>6. CacheOK(cache)'
  <2>1. /\ DOMAIN cache' = DOMAIN cache \cup {id}
        /\ \A k \in DOMAIN cache' : cache'[k] = IF k = id THEN v ELSE cache[k]
    BY <1>1 DEF Cached
  <2>2. \A k \in DOMAIN cache : k \in 0..header.nEntry - 1 /\ cache[k] = Stored(pages, k)
    BY <1>2 DEF SessionInv, CacheOK, IsNew
  <2>. QED
    BY <1>1, <1>2, <1>5, <2>1, <2>2 DEF CacheOK, IsNew
<1>7. \A i \in 0..header'.nEntry - 1 : ~IsNew(i)' => Stored(pages', i) \in Values
  BY <1>1, <1>2, <1>5 DEF SessionInv, IsNew
<1>8. /\ Len(pages') = Len(pages) /\ Len(pages) \in Nat
      /\ \A at \in 1..Len(pages) : pages'[at].nEntry = pages[at].nEntry
  BY UpdatedPages, FileIs
<1>9. Filled(pages', header.nEntry + Ahead(adding.write))
  <2>1. \A at \in 1..Len(pages) - 1 : at \in 1..Len(pages)
    BY <1>8
  <2>2. Len(pages) > 0 => Len(pages) \in 1..Len(pages)
    BY <1>8
  <2>. QED
    BY <1>8, <2>1, <2>2 DEF SessionInv, Filled
<1>. QED
  BY <1>1, <1>2, <1>4, <1>6, <1>7, <1>8, <1>9 DEF SessionInv, Before

\* While an entry is being added, the others are those with the ids before it.
LEMMA OthersAre ==
  FileInv /\ adding.write # "none" =>
    /\ NewId \in Int /\ IsNew(NewId)
    /\ \A id : id \in 0..header.nEntry - 1 /\ ~IsNew(id) <=> id \in 0..NewId - 1
    /\ \A id : IsNew(id) <=> id = NewId
<1> SUFFICES ASSUME FileInv, adding.write # "none"
             PROVE  /\ NewId \in Int
                    /\ \A id : id \in 0..header.nEntry - 1 /\ id # NewId <=> id \in 0..NewId - 1
  BY DEF IsNew
<1>1. header.nEntry \in Nat
  BY FileIs
<1>2. CASE adding.write = "entry"
  <2>1. NewId = header.nEntry - 1
    BY <1>2 DEF NewId
  <2>. QED
    BY <1>1, <2>1
<1>3. CASE adding.write # "entry"
  <2>1. NewId = header.nEntry
    BY <1>3 DEF NewId
  <2>. QED
    BY <1>1, <2>1
<1>. QED
  BY <1>2, <1>3

\* A write that leaves the other entries as they are.
LEMMA OthersKept ==
  ASSUME FileInv, FileInv', SessionInv, adding.write # "none", adding'.write # "none",
         adding'.value = adding.value, NewId' = NewId, cache' = cache,
         \A id \in 0..NewId - 1 : Stored(pages', id) = Stored(pages, id)
  PROVE  /\ \A id \in 0..header'.nEntry - 1 : ~IsNew(id)' => Stored(pages', id) \in Values
         /\ CacheOK(cache)'
<1>1. /\ \A id : id \in 0..header.nEntry - 1 /\ ~IsNew(id) <=> id \in 0..NewId - 1
      /\ \A id : IsNew(id) <=> id = NewId
  BY OthersAre
<1>2. /\ \A id : id \in 0..header'.nEntry - 1 /\ ~IsNew(id)' <=> id \in 0..NewId - 1
      /\ \A id : IsNew(id)' <=> id = NewId
  <2>1. (FileInv /\ adding.write # "none" =>
          /\ \A id : id \in 0..header.nEntry - 1 /\ ~IsNew(id) <=> id \in 0..NewId - 1
          /\ \A id : IsNew(id) <=> id = NewId)'
    BY OthersAre, PTL
  <2>. QED
    BY <2>1
<1>3. \A id \in 0..NewId - 1 : Stored(pages, id) \in Values
  BY <1>1 DEF SessionInv
<1>4. /\ \A id \in DOMAIN cache :
            \/ id \in 0..NewId - 1 /\ cache[id] = Stored(pages, id)
            \/ id = NewId /\ cache[id] = adding.value
      /\ NewId \in DOMAIN cache
  <2>1. CacheOK(cache)
    BY DEF SessionInv
  <2> HIDE DEF NewId, IsNew, Stored
  <2>. QED
    BY <1>1, <2>1 DEF CacheOK
<1> HIDE DEF NewId, IsNew, Stored
<1>5. \A id \in 0..header'.nEntry - 1 : ~IsNew(id)' => Stored(pages', id) \in Values
  BY <1>2, <1>3
<1>6. \A id \in DOMAIN cache' :
        \/ id \in 0..header'.nEntry - 1 /\ ~IsNew(id)' /\ cache'[id] = Stored(pages', id)
        \/ IsNew(id)' /\ cache'[id] = adding'.value
  BY <1>2, <1>4
<1>7. NewId' \in DOMAIN cache'
  BY <1>4
<1>. QED
  BY <1>5, <1>6, <1>7 DEF CacheOK

LEMMA SessionAdd ==
  ASSUME FileInv, FileInv', SessionInv, NEW v \in Values, AddEntry(v)
  PROVE  SessionInv'
<1> DEFINE last == header.nPage - 1
           at == Len(pages)
           room == last >= 0 /\ ~Full(at)
           page == IF room THEN last ELSE header.nPage
           place == IF room THEN at ELSE at + 1
<1>1. /\ adding = Idle /\ UNCHANGED pages /\ cache' = Cached(header.nEntry, v)
      /\ adding' = [write |-> IF room THEN "slotCount" ELSE "pageHeader",
                    id |-> page, at |-> place, value |-> v]
      /\ header' = IF room THEN header ELSE [header EXCEPT !.nPage = @ + 1]
      /\ known' = IF last < 0 THEN known
                  ELSE [k \in DOMAIN known \cup {last} |-> IF k = last THEN at ELSE known[k]]
  BY DEF AddEntry, disk
<1>2. /\ header.nPage \in Nat /\ header.nEntry \in Nat /\ adding.write = "none"
      /\ header = [nPage |-> header.nPage, nEntry |-> header.nEntry]
  BY <1>1, FileIs DEF Idle
<1>3. at = header.nPage
  BY <1>2 DEF SessionInv, Before
<1>4. /\ header'.nEntry = header.nEntry /\ adding'.value = v
      /\ adding'.write \in {"slotCount", "pageHeader"}
      /\ adding'.write = "slotCount" => header'.nPage = at
      /\ adding'.write = "pageHeader" => header'.nPage - 1 = at
  BY <1>1, <1>2, <1>3
<1>5. Remembered(known') /\ (at > 0 => at - 1 \in DOMAIN known')
  <2>1. Remembered(known)
    BY DEF SessionInv
  <2>2. CASE last < 0
    BY <1>1, <1>2, <1>3, <2>1, <2>2
  <2>3. CASE ~(last < 0)
    <3>1. known' = [k \in DOMAIN known \cup {last} |-> IF k = last THEN at ELSE known[k]]
      BY <1>1, <2>3
    <3>2. last \in Nat /\ at = last + 1
      BY <1>2, <1>3, <2>3
    <3> HIDE DEF last, at
    <3>3. Remembered(known') /\ last \in DOMAIN known'
      BY <2>1, <3>1, <3>2 DEF Remembered
    <3>. QED
      BY <3>2, <3>3
  <2>. QED
    BY <2>2, <2>3
<1>6. Filled(pages', header'.nEntry + Ahead(adding'.write))
  <2>1. Ahead(adding'.write) = Ahead(adding.write)
    BY <1>2, <1>4 DEF Ahead
  <2>. QED
    BY <1>1, <1>4, <2>1 DEF SessionInv
<1> HIDE DEF last, at, room, page, place
<1>7. \A id : /\ ~IsNew(id)
              /\ IsNew(id)' <=> id = header.nEntry
  BY <1>2, <1>4 DEF IsNew, NewId
<1>8. \A id \in 0..header'.nEntry - 1 : ~IsNew(id)' => Stored(pages', id) \in Values
  BY <1>1, <1>4, <1>7 DEF SessionInv
<1>9. CacheOK(cache)'
  <2>1. /\ DOMAIN cache' = DOMAIN cache \cup {header.nEntry}
        /\ \A k \in DOMAIN cache' : cache'[k] = IF k = header.nEntry THEN v ELSE cache[k]
    BY <1>1 DEF Cached
  <2>2. \A k \in DOMAIN cache : k \in 0..header.nEntry - 1 /\ cache[k] = Stored(pages, k)
    BY <1>7 DEF SessionInv, CacheOK
  <2>3. NewId' = header.nEntry
    BY <1>4 DEF NewId
  <2>4. header.nEntry \notin 0..header.nEntry - 1
    BY <1>2
  <2>5. ASSUME NEW k \in DOMAIN cache'
        PROVE  \/ k \in 0..header'.nEntry - 1 /\ ~IsNew(k)' /\ cache'[k] = Stored(pages', k)
               \/ IsNew(k)' /\ cache'[k] = adding'.value
    BY <1>1, <1>4, <1>7, <2>1, <2>2, <2>4
  <2>. QED
    BY <2>1, <2>3, <2>5 DEF CacheOK
<1>10. /\ Len(pages') = IF adding'.write \in Before THEN header'.nPage - 1 ELSE header'.nPage
       /\ adding'.write \in Before /\ Len(pages') > 0 => Len(pages') - 1 \in DOMAIN known'
  BY <1>1, <1>4, <1>5 DEF Before, at
<1>. QED
  BY <1>5, <1>6, <1>8, <1>9, <1>10 DEF SessionInv

LEMMA SessionTail ==
  ASSUME FileInv, FileInv', SessionInv, WritePageHeader \/ WritePageBody
  PROVE  SessionInv'
<1>1. PICK w \in {"pageBody", "pageFooter"} :
        /\ adding.write \in Before /\ adding' = [adding EXCEPT !.write = w]
        /\ UNCHANGED <<pages, header, cache>>
        /\ \/ known' = known
           \/ known' = [k \in DOMAIN known \cup {adding.id} |->
                            IF k = adding.id THEN adding.at ELSE known[k]]
  BY DEF WritePageHeader, WritePageBody, Before
<1>2. /\ adding \in Adding /\ adding.at = Len(pages) + 1 /\ adding.id = header.nPage - 1
      /\ Len(pages) \in Nat /\ header.nPage \in Nat
  BY <1>1, FileIs DEF Before, Idle, Stage
<1>3. /\ adding'.write = w /\ adding'.value = adding.value
      /\ adding.write # "none" /\ adding.write # "entry"
      /\ adding.write # "entryCount" /\ adding'.write # "entryCount"
  BY <1>1, <1>2 DEF Adding, Before
<1>4. NewId' = NewId
  BY <1>1, <1>3 DEF NewId
<1>5. Len(pages) = header.nPage - 1
  BY <1>1 DEF SessionInv
<1>6. Remembered(known') /\ DOMAIN known \subseteq DOMAIN known'
  BY <1>1, <1>2, <1>5 DEF SessionInv, Remembered
<1>7. Filled(pages', header'.nEntry + Ahead(adding'.write))
  <2>1. Ahead(adding'.write) = Ahead(adding.write)
    BY <1>3 DEF Ahead
  <2>. QED
    BY <1>1, <2>1 DEF SessionInv
<1>8. /\ \A id \in 0..header'.nEntry - 1 : ~IsNew(id)' => Stored(pages', id) \in Values
      /\ CacheOK(cache)'
  <2>1. adding'.write # "none" /\ \A id \in 0..NewId - 1 : Stored(pages', id) = Stored(pages, id)
    BY <1>1, <1>3
  <2>. QED
    BY <1>1, <1>3, <1>4, <2>1, OthersKept
<1>. QED
  BY <1>1, <1>3, <1>5, <1>6, <1>7, <1>8 DEF SessionInv, Before

\* The page before the new one is full: all the pages of the file are counted.
LEMMA SessionPage ==
  ASSUME FileInv, FileInv', SessionInv, WritePageFooter
  PROVE  /\ SessionInv'
         /\ \A id \in 0..header.nEntry - 1 : Stored(pages', id) = Stored(pages, id)
<1> DEFINE N == Len(pages)
<1>1. /\ adding.write = "pageFooter" /\ pages' = Append(pages, NewPage)
      /\ adding' = [adding EXCEPT !.write = "pageCount"]
      /\ UNCHANGED <<header, known, cache>>
  BY DEF WritePageFooter
<1>2. /\ adding \in Adding /\ pages \in Seq(Page) /\ header.nEntry \in Nat
      /\ saved.nPage \in Nat /\ header.nPage = saved.nPage + 1
      /\ saved.nPage = 0 \/ Full(N)
  BY <1>1, FileIs DEF Before, Idle, Stage
<1>3. /\ N \in Nat /\ Len(pages') = N + 1
      /\ pages'[N + 1] = NewPage /\ \A k \in 1..N : pages'[k] = pages[k]
  BY <1>1, <1>2, NewPageIs, AppendIs
<1>4. /\ adding'.write = "pageCount" /\ adding'.value = adding.value
      /\ Ahead(adding.write) = 0 /\ Ahead(adding'.write) = 0
  BY <1>1, <1>2 DEF Adding, Ahead
<1>5. N = header.nPage - 1 /\ Filled(pages, header.nEntry)
  <2>0. header.nEntry \in Nat
    BY <1>2, Zenon
  <2>1. header.nEntry + 0 = header.nEntry
    BY <2>0
  <2>. QED
    BY <1>1, <1>4, <2>1 DEF SessionInv, Before
<1> HIDE DEF N
<1>6. N > 0 => pages[N].nEntry = PerPage
  BY <1>2, <1>3, <1>5 DEF Full, N
<1>7. Filled(pages', header.nEntry)
  <2>1. ASSUME NEW k \in 1..Len(pages') - 1 PROVE pages'[k].nEntry = PerPage
    <3>1. k \in 1..N
      BY <1>3
    <3>2. CASE k = N
      BY <1>3, <1>6, <3>1, <3>2
    <3>3. CASE k # N
      <4>1. k \in 1..N - 1
        BY <1>3, <3>1, <3>3
      <4>. QED
        BY <1>3, <1>5, <3>1, <4>1 DEF Filled, N
    <3>. QED
      BY <3>2, <3>3
  <2>2. header.nEntry = PerPage * (Len(pages') - 1) + pages'[Len(pages')].nEntry
    <3>1. Len(pages') - 1 = N /\ pages'[Len(pages')].nEntry = 0
      BY <1>3, NewPageIs
    <3>2. CASE N = 0
      <4>1. header.nEntry = 0
        BY <1>5, <3>2 DEF Filled, N
      <4>2. PerPage * 0 = 0 /\ 0 + 0 = 0
        BY Constants
      <4>3. PerPage * 0 + 0 = 0
        BY <4>2
      <4>4. Len(pages') - 1 = 0
        BY <3>1, <3>2
      <4>. QED
        BY <3>1, <4>1, <4>3, <4>4, Zenon
    <3>3. CASE N # 0
      <4>1. N > 0 /\ N - 1 \in Nat /\ N - 1 <= N - 1 /\ (N - 1) + 1 = N
        BY <1>3, <3>3
      <4>2. header.nEntry = PerPage * (N - 1) + PerPage
        BY <1>5, <1>6, <4>1 DEF Filled, N
      <4>3. PerPage * ((N - 1) + 1) = PerPage * (N - 1) + PerPage
        BY <4>1, Times
      <4>4. header.nEntry = PerPage * N
        BY <4>1, <4>2, <4>3
      <4>. QED
        BY <1>2, <3>1, <4>4
    <3>. QED
      BY <3>2, <3>3
  <2>3. Len(pages') # 0
    BY <1>3
  <2>. QED
    BY <2>1, <2>2, <2>3 DEF Filled
<1>8. NewId' = NewId /\ NewId = header.nEntry
  BY <1>1, <1>4 DEF NewId
<1>9. ASSUME NEW id \in 0..NewId - 1 PROVE Stored(pages', id) = Stored(pages, id)
  <2>1. id \in 0..header.nEntry - 1
    BY <1>8
  <2>2. PageOf(id) + 1 \in 1..N
    BY <1>2, <1>5, <2>1, PlaceIs DEF N
  <2>. QED
    BY <1>3, <2>2 DEF Stored
<1>10. /\ \A id \in 0..header'.nEntry - 1 : ~IsNew(id)' => Stored(pages', id) \in Values
       /\ CacheOK(cache)'
  <2>1. adding.write # "none" /\ adding'.write # "none" /\ cache' = cache
    BY <1>1, <1>4
  <2>2. \A id \in 0..NewId - 1 : Stored(pages', id) = Stored(pages, id)
    BY <1>9
  <2>. QED
    BY <1>4, <1>8, <2>1, <2>2, OthersKept
<1>11. Filled(pages', header'.nEntry + Ahead(adding'.write))
  <2>1. header.nEntry + 0 = header.nEntry
    BY <1>2
  <2>. QED
    BY <1>1, <1>4, <1>7, <2>1
<1>12. Len(pages') = header'.nPage
  BY <1>1, <1>2, <1>3, <1>5
<1>13 SessionInv'
  BY <1>1, <1>4, <1>10, <1>11, <1>12 DEF SessionInv, Before
<1>. QED
  BY <1>8, <1>9, <1>13

LEMMA SessionPageCount ==
  ASSUME FileInv, FileInv', SessionInv, WritePageCount
  PROVE  SessionInv'
<1>1. /\ adding.write = "pageCount" /\ adding' = [adding EXCEPT !.write = "slotCount"]
      /\ UNCHANGED <<pages, header, known, cache>>
  BY DEF WritePageCount
<1>2. adding \in Adding
  BY <1>1, FileIs DEF Idle
<1>3. /\ adding'.write = "slotCount" /\ adding'.value = adding.value
      /\ Ahead(adding.write) = Ahead(adding'.write) /\ NewId' = NewId
  BY <1>1, <1>2 DEF Adding, Ahead, NewId
<1>4. /\ \A id \in 0..header'.nEntry - 1 : ~IsNew(id)' => Stored(pages', id) \in Values
      /\ CacheOK(cache)'
  <2>1. /\ adding.write # "none" /\ adding'.write # "none" /\ cache' = cache
        /\ \A id \in 0..NewId - 1 : Stored(pages', id) = Stored(pages, id)
    BY <1>1, <1>3
  <2>. QED
    BY <1>3, <2>1, OthersKept
<1>5. Filled(pages', header'.nEntry + Ahead(adding'.write))
  BY <1>1, <1>3 DEF SessionInv
<1>. QED
  BY <1>1, <1>3, <1>4, <1>5 DEF SessionInv, Before

LEMMA SessionSlotCount ==
  ASSUME FileInv, FileInv', SessionInv, WriteSlotCount
  PROVE  /\ SessionInv'
         /\ \A id \in 0..header.nEntry - 1 : Stored(pages', id) = Stored(pages, id)
<1> DEFINE N == Len(pages)
           p == [pages[N] EXCEPT !.nEntry = @ + 1]
<1>1. /\ adding.write = "slotCount"
      /\ pages' = [pages EXCEPT ![adding.at].nEntry = @ + 1]
      /\ adding' = [adding EXCEPT !.write = "entryCount"]
      /\ UNCHANGED <<header, known, cache>>
  BY DEF WriteSlotCount
<1>2. /\ adding \in Adding /\ pages \in Seq(Page) /\ N \in Nat /\ DOMAIN pages = 1..N
      /\ header.nEntry \in Nat /\ adding.at = N /\ 0 < N /\ pages[N].nEntry < PerPage
  BY <1>1, FileIs DEF Stage, Before, Idle
<1>3. N \in 1..N
  BY <1>2
<1>4. p \in Page /\ p.nEntry = pages[N].nEntry + 1 /\ p.slot = pages[N].slot
      /\ pages[N].nEntry \in Nat
  <2>1. /\ pages[N].nEntry \in 0..PerPage
        /\ pages[N].slot \in [0..PerPage - 1 -> Values \cup {Blank}]
        /\ pages[N] = [nEntry |-> pages[N].nEntry, slot |-> pages[N].slot]
    BY <1>2, <1>3, FileIs
  <2>2. p = [nEntry |-> pages[N].nEntry + 1, slot |-> pages[N].slot]
    BY <2>1
  <2>3. pages[N].nEntry + 1 \in 0..PerPage
    BY <1>2, <2>1, Constants
  <2>. QED
    BY <2>1, <2>2, <2>3 DEF Page
<1>5. Replaced(Page, pages, N, p, pages')
  <2>1. pages' = [pages EXCEPT ![N] = p]
    BY <1>1, <1>2
  <2>2. N \in 1..Len(pages)
    BY <1>3
  <2> HIDE DEF N, p
  <2>. QED
    BY <1>2, <1>4, <2>1, <2>2, ReplacedIs
<1> HIDE DEF p
<1>6. /\ Len(pages') = N /\ pages'[N] = p
      /\ \A at \in 1..N : at # N => pages'[at] = pages[at]
  BY <1>5 DEF Replaced
<1>7. /\ adding'.write = "entryCount" /\ adding'.value = adding.value
      /\ Ahead(adding.write) = 0 /\ Ahead(adding'.write) = 1
  BY <1>1, <1>2 DEF Adding, Ahead
<1>8. N = header.nPage /\ Filled(pages, header.nEntry)
  <2>0. header.nEntry \in Nat
    BY <1>2, Zenon
  <2>1. header.nEntry + 0 = header.nEntry
    BY <2>0
  <2>. QED
    BY <1>1, <1>7, <2>1 DEF SessionInv, Before
<1> HIDE DEF N
<1>9. Filled(pages', header.nEntry + 1)
  <2>1. header.nEntry = PerPage * (N - 1) + pages[N].nEntry
    BY <1>2, <1>8 DEF Filled, N
  <2>2. PICK M \in Nat : M = PerPage * (N - 1)
    <3>1. N - 1 \in Nat /\ N - 1 <= N - 1
      BY <1>2
    <3>. QED
      BY <3>1, Times
  <2>3. header.nEntry + 1 = PerPage * (Len(pages') - 1) + pages'[Len(pages')].nEntry
    BY <1>4, <1>6, <2>1, <2>2
  <2>4. ASSUME NEW at \in 1..Len(pages') - 1 PROVE pages'[at].nEntry = PerPage
    <3>1. at \in 1..N - 1 /\ at \in 1..N /\ at # N
      BY <1>2, <1>6
    <3>. QED
      BY <1>6, <1>8, <3>1 DEF Filled, N
  <2>5. Len(pages') # 0
    BY <1>2, <1>6
  <2>. QED
    BY <2>3, <2>4, <2>5 DEF Filled
<1>10. NewId' = NewId /\ NewId = header.nEntry
  BY <1>1, <1>7 DEF NewId
<1>11. ASSUME NEW id \in 0..NewId - 1 PROVE Stored(pages', id) = Stored(pages, id)
  <2>1. id \in 0..header.nEntry - 1
    BY <1>10
  <2>2. PageOf(id) + 1 \in 1..N
    BY <1>2, <1>8, <2>1, PlaceIs DEF N
  <2>3. pages'[PageOf(id) + 1].slot = pages[PageOf(id) + 1].slot
    BY <1>4, <1>6, <2>2
  <2>. QED
    BY <2>3 DEF Stored
<1>12. /\ \A id \in 0..header'.nEntry - 1 : ~IsNew(id)' => Stored(pages', id) \in Values
       /\ CacheOK(cache)'
  <2>1. adding.write # "none" /\ adding'.write # "none" /\ cache' = cache
    BY <1>1, <1>7
  <2>2. \A id \in 0..NewId - 1 : Stored(pages', id) = Stored(pages, id)
    BY <1>11
  <2>. QED
    BY <1>7, <1>10, <2>1, <2>2, OthersKept
<1>13. Len(pages') = header'.nPage
  BY <1>1, <1>6, <1>8
<1>14 SessionInv'
  BY <1>1, <1>7, <1>9, <1>12, <1>13 DEF SessionInv, Before
<1>. QED
  BY <1>10, <1>11, <1>14

LEMMA SessionEntryCount ==
  ASSUME FileInv, FileInv', SessionInv, WriteEntryCount
  PROVE  SessionInv'
<1>1. /\ adding.write = "entryCount" /\ header' = [header EXCEPT !.nEntry = @ + 1]
      /\ adding' = [adding EXCEPT !.write = "entry"]
      /\ UNCHANGED <<pages, known, cache>>
  BY DEF WriteEntryCount
<1>2. /\ adding \in Adding /\ header.nPage \in Nat /\ header.nEntry \in Nat
      /\ header = [nPage |-> header.nPage, nEntry |-> header.nEntry]
  BY <1>1, FileIs DEF Idle
<1>3. /\ adding'.write = "entry" /\ adding'.value = adding.value
      /\ header'.nPage = header.nPage /\ header'.nEntry = header.nEntry + 1
      /\ Ahead(adding.write) = 1 /\ Ahead(adding'.write) = 0
  BY <1>1, <1>2 DEF Adding, Ahead
<1>4. NewId' = NewId
  <2>1. NewId' = header'.nEntry - 1 /\ NewId = header.nEntry
    BY <1>1, <1>3 DEF NewId
  <2>. QED
    BY <1>2, <1>3, <2>1
<1>5. /\ \A id \in 0..header'.nEntry - 1 : ~IsNew(id)' => Stored(pages', id) \in Values
      /\ CacheOK(cache)'
  <2>1. /\ adding.write # "none" /\ adding'.write # "none" /\ cache' = cache
        /\ \A id \in 0..NewId - 1 : Stored(pages', id) = Stored(pages, id)
    BY <1>1, <1>3
  <2>. QED
    BY <1>3, <1>4, <2>1, OthersKept
<1>6. Filled(pages', header'.nEntry + Ahead(adding'.write))
  <2>1. header'.nEntry + Ahead(adding'.write) = header.nEntry + Ahead(adding.write)
    BY <1>2, <1>3
  <2>. QED
    BY <1>1, <2>1 DEF SessionInv
<1>. QED
  BY <1>1, <1>3, <1>5, <1>6 DEF SessionInv, Before

\* The last slot counted is that of the new entry, and no other entry is in it.
LEMMA SessionEntry ==
  ASSUME FileInv, FileInv', SessionInv, WriteEntry
  PROVE  /\ SessionInv'
         /\ header.nEntry > 0 /\ header' = header /\ NewId = header.nEntry - 1
         /\ \A id \in 0..header.nEntry - 1 : Stored(pages', id) = Value(id)
<1> DEFINE N == Len(pages)
           i == pages[N].nEntry - 1
           p == [pages[N] EXCEPT !.slot[i] = adding.value]
<1>1. /\ adding.write = "entry" /\ adding' = Idle
      /\ pages' = [pages EXCEPT ![adding.at].slot[pages[adding.at].nEntry - 1] = adding.value]
      /\ UNCHANGED <<header, known, cache>>
  BY DEF WriteEntry
<1>2. /\ adding \in Adding /\ adding.value \in Values
      /\ pages \in Seq(Page) /\ N \in Nat /\ DOMAIN pages = 1..N
      /\ header.nEntry \in Nat /\ adding.at = N /\ 0 < N /\ 0 < pages[N].nEntry
  BY <1>1, FileIs DEF Stage, Before, Idle, Adding
<1>3. N \in 1..N
  BY <1>2
<1>4. /\ p \in Page /\ p.nEntry = pages[N].nEntry /\ i \in 0..PerPage - 1
      /\ p.slot = [pages[N].slot EXCEPT ![i] = adding.value]
      /\ pages[N].slot \in [0..PerPage - 1 -> Values \cup {Blank}]
      /\ pages[N].nEntry \in 0..PerPage
  <2>1. /\ pages[N].nEntry \in 0..PerPage
        /\ pages[N].slot \in [0..PerPage - 1 -> Values \cup {Blank}]
        /\ pages[N] = [nEntry |-> pages[N].nEntry, slot |-> pages[N].slot]
    BY <1>2, <1>3, FileIs
  <2>2. p = [nEntry |-> pages[N].nEntry, slot |-> [pages[N].slot EXCEPT ![i] = adding.value]]
    BY <2>1
  <2>3. i \in 0..PerPage - 1
    BY <1>2, <2>1, Constants
  <2> HIDE DEF i
  <2>4. [pages[N].slot EXCEPT ![i] = adding.value] \in [0..PerPage - 1 -> Values \cup {Blank}]
    BY <1>2, <2>1
  <2>. QED
    BY <2>1, <2>2, <2>3, <2>4 DEF Page
<1>5. Replaced(Page, pages, N, p, pages')
  <2>1. pages' = [pages EXCEPT ![N] = p]
    BY <1>1, <1>2
  <2>2. N \in 1..Len(pages)
    BY <1>3
  <2> HIDE DEF N, i, p
  <2>. QED
    BY <1>2, <1>4, <2>1, <2>2, ReplacedIs
<1> HIDE DEF p
<1>6. /\ Len(pages') = N /\ pages'[N] = p
      /\ \A at \in 1..N : at # N => pages'[at] = pages[at]
  BY <1>5 DEF Replaced
<1>7. /\ adding'.write = "none" /\ Ahead(adding.write) = 0 /\ Ahead(adding'.write) = 0
      /\ NewId = header.nEntry - 1
  BY <1>1 DEF Idle, Ahead, NewId
<1>8. N = header.nPage /\ Filled(pages, header.nEntry)
  <2>0. header.nEntry \in Nat
    BY <1>2, Zenon
  <2>1. header.nEntry + 0 = header.nEntry
    BY <2>0
  <2>. QED
    BY <1>1, <1>7, <2>1 DEF SessionInv, Before
<1>9. PICK M \in Nat : N = M + 1 /\ header.nEntry = PerPage * M + pages[N].nEntry
  <2>1. header.nEntry = PerPage * (N - 1) + pages[N].nEntry
    BY <1>2, <1>8 DEF Filled
  <2>2. N \in Nat /\ 0 < N
    BY <1>2
  <2> HIDE DEF N
  <2>3. PICK M \in Nat : N = M + 1
    BY <2>2, OneLess
  <2>4. N - 1 = M
    BY <2>3
  <2>. QED
    BY <2>1, <2>3, <2>4
<1>10. header.nEntry > 0 /\ PageOf(NewId) = M /\ SlotOf(NewId) = i /\ NewId \in Nat
  <2>1. PICK m \in Nat : m = PerPage * M
    BY <1>9, Constants
  <2>2. header.nEntry > 0 /\ NewId \in Nat /\ NewId = m + i
    BY <1>2, <1>4, <1>7, <1>9, <2>1
  <2> HIDE DEF i, N, NewId
  <2>3. NewId = PerPage * M + i
    BY <2>1, <2>2
  <2>. QED
    BY <1>4, <1>9, <2>2, <2>3, Quotient
<1> HIDE DEF N, i
<1>11. ASSUME NEW id \in 0..header.nEntry - 1
       PROVE  Stored(pages', id) = IF id = NewId THEN adding.value ELSE Stored(pages, id)
  <2>0. id \in Nat
    OBVIOUS
  <2>1. PageOf(id) + 1 \in 1..N /\ SlotOf(id) \in 0..PerPage - 1
    <3>1. PageOf(id) + 1 \in 1..Len(pages) /\ SlotOf(id) \in 0..PerPage - 1
      BY <1>2, <1>8, PlaceIs
    <3>. QED
      BY <3>1 DEF N
  <2>2. CASE PageOf(id) + 1 # N
    <3>1. id # NewId
      BY <1>9, <1>10, <2>2
    <3>2. pages'[PageOf(id) + 1] = pages[PageOf(id) + 1]
      BY <1>6, <2>1, <2>2
    <3>. QED
      BY <3>1, <3>2 DEF Stored
  <2>3. CASE PageOf(id) + 1 = N
    <3>1. PageOf(id) = PageOf(NewId)
      <4>1. PageOf(id) \in Nat
        BY <2>0, Division
      <4>. QED
        BY <1>9, <1>10, <2>3, <4>1
    <3>2. id = NewId <=> SlotOf(id) = i
      BY <1>10, <2>0, <3>1, SamePlace
    <3>3. Stored(pages', id) = p.slot[SlotOf(id)] /\ Stored(pages, id) = pages[N].slot[SlotOf(id)]
      BY <1>6, <2>3 DEF Stored
    <3>. QED
      BY <1>4, <2>1, <3>2, <3>3
  <2>. QED
    BY <2>2, <2>3
<1>12. \A id : IsNew(id) <=> id = NewId
  BY <1>1 DEF IsNew
<1>13. \A id : ~IsNew(id)'
  BY <1>7 DEF IsNew
<1>14. NewId \in 0..header.nEntry - 1
  BY <1>2, <1>7, <1>10
<1>15. Filled(pages', header.nEntry)
  <2>1. \A at \in 1..N : pages'[at].nEntry = pages[at].nEntry
    BY <1>4, <1>6
  <2>2. \A at \in 1..N - 1 : at \in 1..N
    BY <1>2
  <2>. QED
    BY <1>3, <1>6, <1>8, <2>1, <2>2 DEF Filled, N
<1>16. Filled(pages', header'.nEntry + Ahead(adding'.write))
  <2>1. header.nEntry + 0 = header.nEntry
    BY <1>2
  <2>. QED
    BY <1>1, <1>7, <1>15, <2>1
<1>17. \A id \in 0..header'.nEntry - 1 : Stored(pages', id) \in Values
  <2>1. \A id \in 0..header.nEntry - 1 : id # NewId => Stored(pages, id) \in Values
    BY <1>12 DEF SessionInv
  <2>. QED
    BY <1>1, <1>2, <1>11, <2>1
<1>18. CacheOK(cache)'
  <2>1. \A id \in DOMAIN cache :
          \/ id \in 0..header.nEntry - 1 /\ id # NewId /\ cache[id] = Stored(pages, id)
          \/ id = NewId /\ cache[id] = adding.value
    BY <1>12 DEF SessionInv, CacheOK
  <2>2. \A id \in DOMAIN cache : id \in 0..header.nEntry - 1 /\ cache[id] = Stored(pages', id)
    BY <1>11, <1>14, <2>1
  <2>. QED
    BY <1>1, <1>7, <1>13, <2>2 DEF CacheOK
<1>19. Len(pages') = header'.nPage
  BY <1>1, <1>6, <1>8 DEF N
<1>20. SessionInv'
  BY <1>1, <1>7, <1>16, <1>17, <1>18, <1>19 DEF SessionInv, Before
<1>21. \A id \in 0..header.nEntry - 1 : Stored(pages', id) = Value(id)
  BY <1>11, <1>12 DEF Value
<1>. QED
  BY <1>1, <1>7, <1>10, <1>20, <1>21

\* A death between operations cuts no addition: nothing is remembered, and the headers are
\* the same.
LEMMA SessionCrash ==
  ASSUME FileInv, SessionInv, cut' = 0, Crash
  PROVE  SessionInv' /\ UNCHANGED <<pages, header, adding>> /\ adding.write = "none"
<1>0. adding = Idle
  <2>1. cut \in Nat /\ cut' = IF adding = Idle THEN cut ELSE cut + 1
    BY FileIs DEF Crash
  <2>. QED
    BY <2>1
<1>1. /\ adding = Idle /\ header' = saved /\ known' = <<>> /\ cache' = <<>> /\ adding' = Idle
      /\ UNCHANGED <<pages, saved>>
  BY <1>0 DEF Crash, disk
<1>2. header' = header /\ adding.write = "none"
  BY <1>1, FileIs DEF Stage, Idle
<1>3. Remembered(known') /\ CacheOK(cache)'
  BY <1>1, <1>2 DEF Remembered, CacheOK
<1>4. /\ Filled(pages, header.nEntry + Ahead(adding.write))'
      /\ \A i \in 0..header'.nEntry - 1 : ~IsNew(i)' => Stored(pages', i) \in Values
  BY <1>1, <1>2 DEF SessionInv, Filled, IsNew, NewId, Stored
<1>. QED
  BY <1>1, <1>2, <1>3, <1>4 DEF SessionInv, Before

LEMMA SessionInit == Init => SessionInv
<1> SUFFICES ASSUME Init PROVE SessionInv
  OBVIOUS
<1>1. /\ pages = <<>> /\ header = [nPage |-> 0, nEntry |-> 0]
      /\ known = <<>> /\ cache = <<>> /\ adding = Idle
  BY DEF Init
<1>2. Len(pages) = 0 /\ header.nPage = 0 /\ header.nEntry = 0 /\ adding.write = "none"
  BY <1>1 DEF Idle
<1>3. Filled(pages, header.nEntry + Ahead(adding.write))
  BY <1>2 DEF Filled, Ahead
<1>4. Remembered(known) /\ CacheOK(cache)
  BY <1>1, <1>2 DEF Remembered, CacheOK
<1>. QED
  BY <1>2, <1>3, <1>4 DEF SessionInv, Before

\* An addition that was cut short stays so.
LEMMA CutKept == FileInv /\ [Next]_vars /\ cut' = 0 => cut = 0
<1> SUFFICES ASSUME FileInv, [Next]_vars, cut' = 0 PROVE cut = 0
  OBVIOUS
<1>1. CASE Crash
  <2>1. cut \in Nat /\ cut' = IF adding = Idle THEN cut ELSE cut + 1
    BY <1>1, FileIs DEF Crash
  <2>. QED
    BY <2>1
<1>2. CASE AddEntryWrites
  BY <1>2 DEF AddEntryWrites, WritePageHeader, WritePageBody, WritePageFooter, WritePageCount,
     WriteSlotCount, WriteEntryCount, WriteEntry
<1>3. CASE ~Crash /\ ~AddEntryWrites
  BY <1>3 DEF Next, vars, GetEntry, UpdateEntry, AddEntry, GoAstray
<1>. QED
  BY <1>1, <1>2, <1>3

LEMMA SessionNext == FileInv /\ SessionInv /\ [Next]_vars /\ cut' = 0 => SessionInv'
<1> SUFFICES ASSUME FileInv, SessionInv, [Next]_vars, cut' = 0 PROVE SessionInv'
  OBVIOUS
<1>0. FileInv'
  BY FileNext
<1>1. ASSUME NEW id \in 0..MaxEntries - 1, GetEntry(id) PROVE SessionInv'
  <2>1. id \in Nat
    OBVIOUS
  <2>. QED
    BY <1>1, <2>1, SessionGet
<1>2. ASSUME NEW id \in 0..MaxEntries - 1, NEW v \in Values, UpdateEntry(id, v)
      PROVE  SessionInv'
  <2>1. id \in Nat
    OBVIOUS
  <2>. QED
    BY <1>2, <2>1, SessionUpdate
<1>3. ASSUME NEW v \in Values, AddEntry(v) PROVE SessionInv'
  BY <1>0, <1>3, SessionAdd
<1>4. CASE AddEntryWrites
  BY <1>0, <1>4, SessionTail, SessionPage, SessionPageCount, SessionSlotCount,
     SessionEntryCount, SessionEntry DEF AddEntryWrites
<1>5. CASE Crash
  BY <1>5, SessionCrash
<1>6. CASE GoAstray
  BY <1>6, UnchangedSession DEF GoAstray
<1>7. CASE UNCHANGED vars
  BY <1>7, UnchangedSession DEF vars, disk
<1>. QED
  BY <1>1, <1>2, <1>3, <1>4, <1>5, <1>6, <1>7 DEF Next

\* Until a death cuts an addition short, every page before the last is full and the pages
\* count what the book does; what is remembered, and what the cache has but for the entry
\* being added, is what the file has.
THEOREM SessionInvariance == Spec => [](cut = 0 => SessionInv)
<1>1. FileInv /\ (cut = 0 => SessionInv) /\ [Next]_vars => (cut = 0 => SessionInv)'
  BY SessionNext, CutKept
<1>. QED
  BY <1>1, SessionInit, FileInvariance, PTL DEF Spec

\* The cache has values of entries, never the blank of a page that was just made, and the
\* places remembered are places (m_cache, pageHeaders), as long as no addition is cut short.
THEOREM TypeCorrect == Spec => []TypeOK
<1>1. FileInv /\ SessionInv =>
        /\ DOMAIN known \subseteq Nat /\ \A k \in DOMAIN known : known[k] \in Nat
        /\ DOMAIN cache \subseteq Nat /\ \A k \in DOMAIN cache : cache[k] \in Values
  <2> SUFFICES ASSUME FileInv, SessionInv
               PROVE  /\ DOMAIN known \subseteq Nat /\ \A k \in DOMAIN known : known[k] \in Nat
                      /\ DOMAIN cache \subseteq Nat /\ \A k \in DOMAIN cache : cache[k] \in Values
    OBVIOUS
  <2>1. CacheOK(cache) /\ Remembered(known)
    BY DEF SessionInv
  <2>2. header.nEntry \in Nat
    BY FileIs
  <2>3. ASSUME NEW id \in DOMAIN cache PROVE id \in Nat /\ cache[id] \in Values
    <3>1. CASE id \in 0..header.nEntry - 1 /\ ~IsNew(id) /\ cache[id] = Stored(pages, id)
      BY <3>1 DEF SessionInv
    <3>2. CASE IsNew(id) /\ cache[id] = adding.value
      <4>1. adding \in Adding
        BY <3>2, FileIs DEF IsNew
      <4>2. adding.value \in Values
        BY <4>1 DEF Adding
      <4>3. id \in Nat
        <5>1. adding.write = "entry" => header.nEntry > 0
          <6> SUFFICES ASSUME adding.write = "entry" PROVE header.nEntry > 0
            OBVIOUS
          <6>1. Len(pages) \in 1..Len(pages) /\ pages[Len(pages)].nEntry > 0 /\ Len(pages) > 0
            BY FileIs DEF Stage, Before
          <6>2. pages[Len(pages)].nEntry \in Nat /\ Len(pages) - 1 \in Nat
            BY <6>1, FileIs
          <6>3. PerPage * (Len(pages) - 1) \in Nat
            BY <6>2, Constants
          <6>4. header.nEntry + 0 = PerPage * (Len(pages) - 1) + pages[Len(pages)].nEntry
            BY <6>1 DEF SessionInv, Filled, Ahead
          <6>5. PICK m : m = PerPage * (Len(pages) - 1) /\ m \in Nat
            BY <6>3
          <6>. QED
            BY <2>2, <6>1, <6>2, <6>4, <6>5
        <5>. QED
          BY <2>2, <3>2, <5>1 DEF IsNew, NewId
      <4>. QED
        BY <3>2, <4>2, <4>3
    <3>. QED
      BY <2>1, <3>1, <3>2 DEF CacheOK
  <2>4. \A k \in DOMAIN known : k \in Nat /\ known[k] \in Nat
    BY <2>1 DEF Remembered
  <2>. QED
    BY <2>3, <2>4
<1>2. FileInv /\ (cut = 0 => SessionInv) => TypeOK
  BY <1>1 DEF TypeOK, FileInv, FileType
<1>. QED
  BY <1>2, FileInvariance, SessionInvariance, PTL

\* Between operations, and as long as no addition is cut short, what the cache has is what
\* the next session reads from the file, the places of the pages that are remembered are
\* right, and a search that starts from any of them ends at the page that is wanted.
THEOREM Coherence == Spec => []Coherent
<1>1. FileInv /\ (cut = 0 => SessionInv) => Coherent
  <2> SUFFICES ASSUME FileInv, SessionInv, adding = Idle
               PROVE  /\ \A id \in DOMAIN cache : cache[id] = OnDisk(id)
                      /\ \A k \in DOMAIN known : known[k] = k + 1
                      /\ \A p \in 0..header.nPage - 1 : FoundAt(p) = p + 1
    BY DEF Coherent
  <2>1. adding.write = "none"
    BY DEF Idle
  <2>2. ASSUME NEW id \in DOMAIN cache PROVE cache[id] = OnDisk(id)
    <3>1. id \in 0..header.nEntry - 1 /\ cache[id] = Stored(pages, id)
      BY <2>1 DEF SessionInv, CacheOK, IsNew
    <3>. QED
      BY <3>1, SlotIs
  <2>3. \A p \in 0..header.nPage - 1 : FoundAt(p) = p + 1
    <3>1. Len(pages) = header.nPage
      BY <2>1 DEF SessionInv, Before
    <3>. QED
      BY <3>1, Finds
  <2>. QED
    BY <2>2, <2>3 DEF SessionInv, Remembered
<1>. QED
  BY <1>1, FileInvariance, SessionInvariance, PTL

-----------------------------------------------------------------------------
(* A session sees a ledger *)

\* Until the new entry is counted, what a session reads is what is stored.
LEMMA ValueIs ==
  FileInv /\ adding.write # "entry" =>
    \A id \in 0..header.nEntry - 1 : Value(id) = Stored(pages, id)
<1> SUFFICES ASSUME FileInv, adding.write # "entry", NEW id \in 0..header.nEntry - 1
             PROVE  Value(id) = Stored(pages, id)
  OBVIOUS
<1>1. header.nEntry \in Nat
  BY FileIs
<1>2. ~IsNew(id)
  BY <1>1 DEF IsNew, NewId
<1>. QED
  BY <1>2 DEF Value

\* What a session reads under an id does not change.
SameView ==
    /\ header'.nEntry = header.nEntry
    /\ \A id \in 0..header.nEntry - 1 : Value(id)' = Value(id)

\* A step that changes nothing stored, away from the last write.
LEMMA StoredSame ==
  ASSUME FileInv, FileInv', adding.write # "entry", adding'.write # "entry",
         header'.nEntry = header.nEntry,
         \A id \in 0..header.nEntry - 1 : Stored(pages', id) = Stored(pages, id)
  PROVE  SameView
<1>1. \A id \in 0..header.nEntry - 1 : Value(id) = Stored(pages, id)
  BY ValueIs
<1>2. \A id \in 0..header'.nEntry - 1 : Value(id)' = Stored(pages', id)
  <2>1. (FileInv /\ adding.write # "entry" =>
          \A id \in 0..header.nEntry - 1 : Value(id) = Stored(pages, id))'
    BY ValueIs, PTL
  <2>. QED
    BY <2>1
<1>. QED
  BY <1>1, <1>2 DEF SameView

LEMMA ViewOf ==
  ASSUME FileInv, Agree, Agree', SameView
  PROVE  Entries' = Entries
<1>1. \A i \in 1..header.nEntry : i - 1 \in 0..header.nEntry - 1
  BY FileIs
<1>2. \A id \in 0..header.nEntry - 1 : Entry(id) = Value(id)
  BY DEF Agree
<1>3. \A id \in 0..header'.nEntry - 1 : Entry(id)' = Value(id)'
  BY DEF Agree
<1>4. \A i \in 1..header.nEntry : Entry(i - 1)' = Entry(i - 1)
  BY <1>1, <1>2, <1>3 DEF SameView
<1>. QED
  BY <1>4 DEF Entries, SameView

\* An update replaces the entry with its id.
LEMMA UpdateView ==
  ASSUME FileInv, SessionInv, FileInv', Agree, Agree',
         NEW id \in Nat, NEW v \in Values, UpdateEntry(id, v)
  PROVE  id + 1 \in DOMAIN Entries /\ Entries' = [Entries EXCEPT ![id + 1] = v]
<1>1. /\ adding.write = "none" /\ adding'.write = "none"
      /\ id < header.nEntry /\ header' = header /\ header.nEntry \in Nat
  BY FileIs DEF UpdateEntry, Idle
<1>2. \A i \in 0..header.nEntry - 1 : Stored(pages', i) = IF i = id THEN v ELSE Stored(pages, i)
  BY UpdateIs
<1>3. \A i \in 0..header.nEntry - 1 : Entry(i) = Stored(pages, i)
  BY <1>1 DEF Agree, Value, IsNew
<1>4. \A i \in 0..header.nEntry - 1 : Entry(i)' = Stored(pages', i)
  BY <1>1 DEF Agree, Value, IsNew
<1>5. ASSUME NEW i \in 1..header.nEntry
      PROVE  Entry(i - 1)' = IF i = id + 1 THEN v ELSE Entry(i - 1)
  <2>1. i - 1 \in 0..header.nEntry - 1 /\ (i - 1 = id <=> i = id + 1)
    BY <1>1
  <2>. QED
    BY <1>2, <1>3, <1>4, <2>1
<1>6. id + 1 \in 1..header.nEntry
  BY <1>1
<1>. QED
  BY <1>1, <1>5, <1>6 DEF Entries

\* The write that counts the entry adds it at the end.
LEMMA AppendView ==
  ASSUME FileInv, SessionInv, FileInv', Agree, Agree', WriteEntryCount
  PROVE  adding.value \in Values /\ Entries' = Append(Entries, adding.value)
<1>1. /\ adding.write = "entryCount" /\ header' = [header EXCEPT !.nEntry = @ + 1]
      /\ adding' = [adding EXCEPT !.write = "entry"] /\ UNCHANGED pages
  BY DEF WriteEntryCount
<1>2. /\ adding \in Adding /\ header.nEntry \in Nat
      /\ header = [nPage |-> header.nPage, nEntry |-> header.nEntry]
  BY <1>1, FileIs DEF Idle
<1>3. /\ adding'.write = "entry" /\ adding'.value = adding.value /\ adding.value \in Values
      /\ header'.nEntry = header.nEntry + 1
  BY <1>1, <1>2 DEF Adding
<1>4. \A id \in 0..header.nEntry - 1 : Entry(id) = Stored(pages, id)
  BY <1>1, ValueIs DEF Agree
<1>5. \A id \in 0..header.nEntry : Entry(id)' = IF id = header.nEntry THEN adding.value
                                                ELSE Stored(pages, id)
  <2>1. \A id : IsNew(id)' <=> id = header.nEntry
    <3>1. NewId' = (header.nEntry + 1) - 1
      BY <1>3 DEF NewId
    <3>2. (header.nEntry + 1) - 1 = header.nEntry
      BY <1>2
    <3>. QED
      BY <1>3, <3>1, <3>2 DEF IsNew
  <2>2. \A id : Value(id)' = IF id = header.nEntry THEN adding.value ELSE Stored(pages, id)
    BY <1>1, <1>3, <2>1 DEF Value, Stored
  <2>3. \A id \in 0..header.nEntry : id \in 0..header'.nEntry - 1
    BY <1>2, <1>3
  <2>. QED
    BY <2>2, <2>3 DEF Agree
<1>6. ASSUME NEW i \in 1..header.nEntry + 1
      PROVE  Entry(i - 1)' = IF i = header.nEntry + 1 THEN adding.value ELSE Entry(i - 1)
  <2>1. i - 1 \in 0..header.nEntry /\ (i - 1 = header.nEntry <=> i = header.nEntry + 1)
    BY <1>2
  <2>2. i - 1 # header.nEntry => i - 1 \in 0..header.nEntry - 1
    BY <1>2, <2>1
  <2>. QED
    BY <1>4, <1>5, <2>1, <2>2
<1>7. Entries' = [i \in 1..header.nEntry + 1 |->
                    IF i = header.nEntry + 1 THEN adding.value ELSE Entry(i - 1)]
  BY <1>3, <1>6 DEF Entries
<1>8. \A id \in 0..header.nEntry - 1 : Entry(id) \in Values
  BY DEF Agree
<1>9. Entries \in Seq(Values) /\ Len(Entries) = header.nEntry
  <2>1. \A i \in 1..header.nEntry : Entry(i - 1) \in Values
    <3>1. \A i \in 1..header.nEntry : i - 1 \in 0..header.nEntry - 1
      BY <1>2
    <3>. QED
      BY <1>8, <3>1
  <2>2. Entries \in [1..header.nEntry -> Values]
    BY <2>1 DEF Entries
  <2>3. Entries \in Seq(Values)
    BY <1>2, <2>2, SeqDef
  <2>. QED
    BY <1>2, <2>2, <2>3, LenProperties
<1>10. /\ Append(Entries, adding.value) \in Seq(Values)
       /\ Append(Entries, adding.value)[header.nEntry + 1] = adding.value
       /\ \A i \in 1..header.nEntry : Append(Entries, adding.value)[i] = Entry(i - 1)
       /\ DOMAIN Append(Entries, adding.value) = 1..header.nEntry + 1
  <2>1. \A i \in 1..header.nEntry : Entries[i] = Entry(i - 1)
    BY DEF Entries
  <2>. QED
    BY <1>3, <1>9, <2>1, AppendIs
<1>11. Append(Entries, adding.value)
         = [i \in 1..header.nEntry + 1 |->
              IF i = header.nEntry + 1 THEN adding.value ELSE Entry(i - 1)]
  <2> DEFINE a == Append(Entries, adding.value)
  <2>1. a = [i \in 1..header.nEntry + 1 |-> a[i]]
    <3> HIDE DEF a
    <3>1. a \in Seq(Values) /\ DOMAIN a = 1..header.nEntry + 1
      BY <1>10 DEF a
    <3>2. a \in [1..Len(a) -> Values]
      BY <3>1, LenProperties
    <3>. QED
      BY <3>1, <3>2
  <2>2. ASSUME NEW i \in 1..header.nEntry + 1
        PROVE  a[i] = IF i = header.nEntry + 1 THEN adding.value ELSE Entry(i - 1)
    <3>1. i # header.nEntry + 1 => i \in 1..header.nEntry
      BY <1>2
    <3>. QED
      BY <1>10, <3>1
  <2> HIDE DEF a
  <2>3. a = [i \in 1..header.nEntry + 1 |->
              IF i = header.nEntry + 1 THEN adding.value ELSE Entry(i - 1)]
    BY <2>1, <2>2
  <2>. QED
    BY <2>3 DEF a
<1>. QED
  BY <1>3, <1>7, <1>11

\* Every other step leaves what a session reads as it is.
LEMMA OtherView ==
  ASSUME cut' = 0, FileInv, SessionInv, FileInv', Agree, Agree', [Next]_vars,
         ~(\E id \in 0..MaxEntries - 1, v \in Values : UpdateEntry(id, v)), ~WriteEntryCount
  PROVE  Entries' = Entries
<1>1. SUFFICES SameView
  BY ViewOf
<1>2. ASSUME NEW id \in 0..MaxEntries - 1, GetEntry(id) PROVE SameView
  <2>1. UNCHANGED <<pages, header, adding>> /\ adding.write = "none"
    BY <1>2 DEF GetEntry, disk, Idle
  <2>. QED
    BY <2>1, StoredSame
<1>3. ASSUME NEW v \in Values, AddEntry(v) PROVE SameView
  <2>1. /\ UNCHANGED pages /\ adding.write = "none" /\ adding'.write # "entry"
        /\ header'.nEntry = header.nEntry
    <3>1. header' = header \/ header' = [header EXCEPT !.nPage = @ + 1]
      BY <1>3 DEF AddEntry
    <3>2. header = [nPage |-> header.nPage, nEntry |-> header.nEntry]
      BY FileIs
    <3>3. header'.nEntry = header.nEntry
      BY <3>1, <3>2
    <3>4. UNCHANGED pages /\ adding.write = "none"
      BY <1>3 DEF AddEntry, disk, Idle
    <3>5. adding'.write # "entry"
      BY <1>3 DEF AddEntry
    <3>. QED
      BY <3>3, <3>4, <3>5
  <2>. QED
    BY <2>1, StoredSame
<1>4. CASE WritePageHeader \/ WritePageBody \/ WritePageCount
  <2>1. PICK w \in {"pageBody", "pageFooter", "slotCount"} :
          /\ UNCHANGED <<pages, header>> /\ adding.write # "entry" /\ adding.write # "none"
          /\ adding' = [adding EXCEPT !.write = w]
    BY <1>4 DEF WritePageHeader, WritePageBody, WritePageCount
  <2>2. adding \in Adding
    BY <2>1, FileIs DEF Idle
  <2>3. adding'.write # "entry"
    BY <2>1, <2>2 DEF Adding
  <2>. QED
    BY <2>1, <2>3, StoredSame
<1>5. CASE WritePageFooter \/ WriteSlotCount
  <2>1. PICK w \in {"pageCount", "entryCount"} :
          /\ UNCHANGED header /\ adding.write # "entry" /\ adding.write # "none"
          /\ adding' = [adding EXCEPT !.write = w]
    BY <1>5 DEF WritePageFooter, WriteSlotCount
  <2>2. adding \in Adding
    BY <2>1, FileIs DEF Idle
  <2>3. adding'.write # "entry"
    BY <2>1, <2>2 DEF Adding
  <2>4. \A id \in 0..header.nEntry - 1 : Stored(pages', id) = Stored(pages, id)
    BY <1>5, SessionPage, SessionSlotCount
  <2>. QED
    BY <2>1, <2>3, <2>4, StoredSame
<1>6. CASE WriteEntry
  <2>1. header' = header /\ \A id \in 0..header.nEntry - 1 : Stored(pages', id) = Value(id)
    BY <1>6, SessionEntry
  <2>2. adding'.write = "none"
    BY <1>6 DEF WriteEntry, Idle
  <2>3. \A id : Value(id)' = Stored(pages', id)
    BY <2>2 DEF Value, IsNew
  <2>. QED
    BY <2>1, <2>3 DEF SameView
<1>7. CASE Crash
  <2>1. UNCHANGED <<pages, header, adding>> /\ adding.write = "none"
    BY <1>7, SessionCrash
  <2>. QED
    BY <2>1, StoredSame
<1>8. CASE GoAstray \/ UNCHANGED vars
  <2>1. UNCHANGED <<pages, header, adding>>
    BY <1>8 DEF GoAstray, vars, disk
  <2>. QED
    BY <2>1 DEF SameView, Value, IsNew, NewId, Stored
<1>. QED
  BY <1>2, <1>3, <1>4, <1>5, <1>6, <1>7, <1>8 DEF Next, AddEntryWrites

\* A session sees a ledger, across deaths up to the first that cuts an addition short: it
\* grows at its end by the entry given to addEntry, an update replaces the entry with its id, and nothing else that
\* the book does, on disk or in its cache, changes what is read under any id.
THEOREM Refines == Spec => ImplementsLedger
<1>1. Init => Seen!Init
  <2> SUFFICES ASSUME Init PROVE Entries = <<>>
    BY DEF Seen!Init, Entries
  <2>1. header.nEntry = 0
    BY DEF Init
  <2>2. Entries = [i \in 1..0 |-> Entry(i - 1)]
    BY <2>1 DEF Entries
  <2>. QED
    BY <2>2
<1>2. /\ FileInv /\ SessionInv /\ Agree /\ [Next]_vars
      /\ FileInv' /\ Agree' /\ cut' = 0
      => [Seen!Next]_Entries
  <2> SUFFICES ASSUME FileInv, SessionInv, Agree, [Next]_vars, FileInv', Agree', cut' = 0
               PROVE  Seen!Next \/ Entries' = Entries
    OBVIOUS
  <2>1. ASSUME NEW id \in 0..MaxEntries - 1, NEW v \in Values, UpdateEntry(id, v)
        PROVE  Seen!Next
    <3>0. id \in Nat
      OBVIOUS
    <3>1. id + 1 \in DOMAIN Entries /\ Entries' = [Entries EXCEPT ![id + 1] = v]
      BY <2>1, <3>0, UpdateView
    <3>2. (id + 1) - 1 = id
      BY <3>0
    <3>3. Seen!UpdateEntry((id + 1) - 1, v)
      BY <3>1, <3>2 DEF Seen!UpdateEntry, Entries
    <3>. QED
      BY <3>1, <3>3 DEF Seen!Next, Entries
  <2>2. CASE WriteEntryCount
    <3>1. adding.value \in Values /\ Entries' = Append(Entries, adding.value)
      BY <2>2, AppendView
    <3>2. Seen!AddEntry(adding.value)
      BY <3>1 DEF Seen!AddEntry, Entries
    <3>. QED
      BY <3>1, <3>2 DEF Seen!Next
  <2>3. CASE /\ ~(\E id \in 0..MaxEntries - 1, v \in Values : UpdateEntry(id, v))
             /\ ~WriteEntryCount
    BY <2>3, OtherView
  <2>. QED
    BY <2>1, <2>2, <2>3
<1>3. FileInv /\ SessionInv => Agree
  BY AgreeIs
<1>4. /\ FileInv /\ (cut = 0 => SessionInv) /\ [Next]_vars
      /\ FileInv' /\ (cut = 0 => SessionInv)'
      => [cut' = 0 => [Seen!Next]_Entries]_vars
  <2>1. (FileInv /\ SessionInv => Agree)'
    BY <1>3, PTL
  <2>. QED
    BY <1>2, <1>3, <2>1, CutKept
<1>5. Spec => Seen!Init /\ [][cut' = 0 => [Seen!Next]_Entries]_vars
  BY <1>1, <1>4, FileInvariance, SessionInvariance, PTL DEF Spec
<1>. QED
  BY <1>5 DEF ImplementsLedger
=============================================================================
