----------------------------- MODULE HttpProofs -----------------------------
(***************************************************************************)
(* Proofs about Http, for every limit, interval, validity and timeout.     *)
(*                                                                         *)
(* The limit: m_requests is the number of requests m_times holds, and      *)
(* m_times holds every request that had not expired when the last one was  *)
(* accounted.  If a request came too early after the Limit-th before it,   *)
(* all of those would be held, and it would not have been let through.     *)
(*                                                                         *)
(* Freshness: every entry, in memory and on disk, was the content of its   *)
(* key at most one timeout before its time stamp.                          *)
(***************************************************************************)
EXTENDS Http, FiniteSetTheorems, TLAPS

\* The time does not go back, so the log is ordered.
Ordered ==
    /\ \A n \in DOMAIN log : log[n] <= clock
    /\ \A m, n \in DOMAIN log : m <= n => log[m] <= log[n]

\* m_times and m_requests after the last request that was accounted.
Held ==
    /\ requests = Cardinality(times)
    /\ \A n \in DOMAIN log : log[n] + Span >= log[Len(log)] => n \in times

QuotaInv ==
    /\ TypeOK
    /\ Ordered
    /\ Held
    /\ pending # {} => CanRequest
    /\ RateLimited

\* Content c has been the one of key k, and was at time t or later.
Known(k, c, t) == c \in 1..Current(k) /\ CurrentSince(k, c, t)

EntryOK(k, e) ==
    e.content # Piece => e.timestamp <= clock /\ Known(k, e.content, e.timestamp - Timeout)

PendingOK(p) ==
    /\ p.asked <= clock /\ clock <= p.asked + Timeout
    /\ \A c \in p.content : Known(p.key, c, p.asked)

FreshInv ==
    /\ TypeOK
    /\ \A k \in Keys : Current(k) >= 1
    /\ \A k \in Keys : \A e \in cache[k] \cup disk[k] : EntryOK(k, e)
    /\ \A p \in pending : PendingOK(p)
    /\ FreshAnswer

-----------------------------------------------------------------------------
(* Types *)

\* What accountRequest does to the quota's state keeps its types.
LEMMA AccountType ==
  ASSUME ConstantsOK, TypeOK, Account, requests = Cardinality(times)
  PROVE  /\ log' = Append(log, clock) /\ log' \in Seq(Nat)
         /\ times' \subseteq DOMAIN log'
         /\ requests' = Cardinality(times') /\ requests' \in Nat
<1> DEFINE all == Append(log, clock)
           held == times \cup {Len(all)}
           dropped == {n \in held : Expired(n, all)}
<1>1. /\ log' = all /\ times' = held \ dropped
      /\ requests' = requests + 1 - Cardinality(dropped)
  BY DEF Account
<1>2. /\ all \in Seq(Nat) /\ Len(all) = Len(log) + 1
      /\ times \subseteq 1..Len(log) /\ DOMAIN all = 1..Len(log) + 1
      /\ Len(log) \in Nat /\ requests \in Nat
  BY DEF TypeOK
<1>3. IsFiniteSet(times) /\ Len(all) \notin times
  <2>1. IsFiniteSet(1..Len(log)) /\ times \in SUBSET (1..Len(log))
    BY <1>2, FS_Interval
  <2>2. IsFiniteSet(times)
    BY <2>1, FS_Subset
  <2>3. Len(log) + 1 \notin 1..Len(log)
    BY <1>2
  <2>. QED
    BY <1>2, <2>2, <2>3
<1>4. IsFiniteSet(held) /\ Cardinality(held) = requests + 1
  BY <1>3, FS_AddElement
<1> HIDE DEF held, all
<1>5. /\ dropped \subseteq held
      /\ IsFiniteSet(dropped) /\ Cardinality(dropped) \in Nat
  BY <1>4, FS_Subset, FS_CardinalityType
<1> HIDE DEF dropped
<1>6. /\ IsFiniteSet(held \ dropped) /\ Cardinality(held \ dropped) \in Nat
      /\ Cardinality(held \ dropped) = Cardinality(held) - Cardinality(dropped)
  <2>1. held \cap dropped = dropped
    BY <1>5
  <2>2. /\ IsFiniteSet(held \ dropped)
        /\ Cardinality(held \ dropped) = Cardinality(held) - Cardinality(held \cap dropped)
    BY <1>4, FS_Difference
  <2>3. Cardinality(held \ dropped) \in Nat
    BY <2>2, FS_CardinalityType
  <2>. QED
    BY <2>1, <2>2, <2>3
<1>7. times' \subseteq DOMAIN log'
  <2> DEFINE len == Len(log)
  <2>0. len \in Nat /\ times \subseteq 1..len /\ held = times \cup {len + 1}
    BY <1>2 DEF held
  <2> HIDE DEF len
  <2>1. held \subseteq 1..len + 1
    BY ONLY <2>0
  <2>. QED
    BY <1>1, <1>2, <2>1 DEF len
<1>8. all \in Seq(Nat)
  BY <1>2
<1>9. requests' = Cardinality(times') /\ requests' \in Nat
  <2>1. Cardinality(times') = Cardinality(held \ dropped)
    BY ONLY <1>1, Zenon
  <2>2. /\ Cardinality(held) = requests + 1 /\ requests \in Nat
        /\ requests' = requests + 1 - Cardinality(dropped)
    BY <1>1, <1>2, <1>4
  <2>3. requests' = Cardinality(held \ dropped)
    BY ONLY <2>2, <1>6, <1>5
  <2>. QED
    BY <1>6, <2>1, <2>3
<1>10. log' \in Seq(Nat)
  BY <1>1, <1>8
<1>11. log' = Append(log, clock)
  BY <1>1 DEF all
<1>. QED
  BY <1>7, <1>9, <1>10, <1>11

\* A step of the specification keeps the types, given that m_requests is the number of
\* the requests that m_times holds.
LEMMA TypeStep ==
  ASSUME ConstantsOK, TypeOK, [Next]_vars,
         requests = Cardinality(times)
  PROVE  TypeOK' /\ requests' = Cardinality(times')
<1> USE DEF TypeOK
<1>e. Cardinality({}) = 0
  BY FS_EmptySet
<1>p. \A k \in Keys, p \in BOOLEAN : Erased(k, p) \in [Keys -> SUBSET Entry]
                          /\ \A j \in Keys : Erased(k, p)[j] \subseteq cache[j]
  BY DEF Erased
<1>1. CASE Tick
  BY <1>1 DEF Tick
<1>2. ASSUME NEW k \in Keys, Change(k) PROVE TypeOK' /\ requests' = Cardinality(times')
  BY <1>2 DEF Change
<1>3. ASSUME NEW k \in Keys, GetCached(k) PROVE TypeOK' /\ requests' = Cardinality(times')
  <2>1. answer' \subseteq [key: Keys, content: Nat, plain: BOOLEAN, at: Nat, allowed: BOOLEAN]
    BY <1>3 DEF GetCached, Answer, Entry, CanRequest
  <2>. QED
    BY <1>3, <2>1 DEF GetCached
<1>4. ASSUME NEW k \in Keys, NEW plain \in BOOLEAN, Refuse(k, plain)
      PROVE  TypeOK' /\ requests' = Cardinality(times')
  BY <1>4, <1>p DEF Refuse
<1>5. ASSUME NEW k \in Keys, NEW plain \in BOOLEAN, Ask(k, plain)
      PROVE  TypeOK' /\ requests' = Cardinality(times')
  <2>1. pending' \subseteq Request
    BY <1>5 DEF Ask, Request
  <2>. QED
    BY <1>5, <1>p, <2>1 DEF Ask
<1>6. ASSUME NEW p \in pending, Serve(p) PROVE TypeOK' /\ requests' = Cardinality(times')
  <2>1. Current(p.key) \in Nat
    BY DEF Current, Request
  <2>2. [p EXCEPT !.content = {Current(p.key)}] \in Request
    <3>1. p \in Request /\ {Current(p.key)} \in SUBSET Nat
      BY <2>1
    <3>. QED
      BY ONLY <3>1 DEF Request
  <2>. QED
    BY <1>6, <2>2 DEF Serve
<1>7. ASSUME NEW p \in pending, Fail(p) PROVE TypeOK' /\ requests' = Cardinality(times')
  BY <1>7 DEF Fail
<1>8. ASSUME NEW p \in pending, Reject(p) PROVE TypeOK' /\ requests' = Cardinality(times')
  BY <1>8, AccountType DEF Reject
<1>9. ASSUME NEW p \in pending, Accept(p) PROVE TypeOK' /\ requests' = Cardinality(times')
  <2>1. p.key \in Keys /\ p.plain \in BOOLEAN /\ p.content \subseteq Nat
    BY DEF Request
  <2>2. PICK c \in p.content :
          /\ answer' = Answer(p.key, c, p.plain)
          /\ IF p.plain THEN cache' = Kept(p, c) /\ disk' = Saved(Kept(p, c))
                        ELSE UNCHANGED <<cache, disk>>
    BY <1>9 DEF Accept
  <2>3. answer' \subseteq [key: Keys, content: Nat, plain: BOOLEAN, at: Nat, allowed: BOOLEAN]
    BY <2>1, <2>2 DEF Answer, CanRequest
  <2>4. Kept(p, c) \in [Keys -> SUBSET Entry] /\ \A k \in Keys : \A e, f \in Kept(p, c)[k] : e = f
    BY <2>1 DEF Kept, Entry
  <2>5. /\ cache' \in [Keys -> SUBSET Entry] /\ disk' \in [Keys -> SUBSET Entry]
        /\ \A k \in Keys : \A e, f \in cache'[k] : e = f
        /\ \A k \in Keys : \A e, f \in disk'[k] : e = f
    BY <2>2, <2>4 DEF Saved
  <2>. QED
    BY <1>9, <2>3, <2>5, AccountType DEF Accept
<1>10. ASSUME NEW file \in [Keys -> SUBSET Entry], Restarted(file),
              \A k \in Keys : \A e, f \in file[k] : e = f
       PROVE  TypeOK' /\ requests' = Cardinality(times')
  BY <1>10, <1>e DEF Restarted
<1>11. CASE Restart
  BY <1>11, <1>10 DEF Restart
<1>12. ASSUME NEW p \in pending, NEW k \in Keys, NEW cut \in BOOLEAN, DieSaving(p, k, cut)
       PROVE  TypeOK' /\ requests' = Cardinality(times')
  <2>1. PICK c \in p.content : Restarted(Truncated(Kept(p, c), k, cut))
    BY <1>12 DEF DieSaving
  <2>2. p.key \in Keys /\ c \in Nat
    BY DEF Request
  <2> DEFINE kept == Kept(p, c)
  <2>3. kept \in [Keys -> SUBSET Entry] /\ \A j \in Keys : \A e, f \in kept[j] : e = f
    BY <2>2 DEF Kept, Entry
  <2> HIDE DEF kept
  <2>4. \A e \in Entry : [e EXCEPT !.content = Piece] \in Entry
    BY DEF Entry, Piece
  <2>5. /\ Truncated(kept, k, cut) \in [Keys -> SUBSET Entry]
        /\ \A j \in Keys : \A e, f \in Truncated(kept, k, cut)[j] : e = f
    BY ONLY <2>3, <2>4 DEF Truncated
  <2>. QED
    BY <2>1, <2>5, <1>10 DEF kept
<1>13. CASE UNCHANGED vars
  BY <1>13 DEF vars
<1>. QED
  BY <1>1, <1>2, <1>3, <1>4, <1>5, <1>6, <1>7, <1>8, <1>9, <1>11, <1>12, <1>13 DEF Next

-----------------------------------------------------------------------------
(* The limit *)

\* An interval of n numbers has n elements, and a set of requests that holds it has
\* at least as many.
LEMMA HoldsInterval ==
  ASSUME NEW S, IsFiniteSet(S), NEW a \in Nat, NEW n \in Nat, a..(a + n - 1) \subseteq S
  PROVE  Cardinality(S) >= n
<1>1. IsFiniteSet(a..(a + n - 1)) /\ Cardinality(a..(a + n - 1)) = n
  BY FS_Interval
<1>2. Cardinality(a..(a + n - 1)) <= Cardinality(S)
  BY FS_Subset
<1>3. Cardinality(S) \in Nat
  BY FS_CardinalityType
<1>. QED
  BY <1>1, <1>2, <1>3

\* Accounting a request that was let through keeps the log ordered, the count right and
\* the limit.
LEMMA AccountQuota ==
  ASSUME ConstantsOK, QuotaInv, CanRequest, Account, UNCHANGED <<clock, limited>>
  PROVE  Ordered' /\ Held' /\ RateLimited'
<1> DEFINE N == Len(log)
           all == Append(log, clock)
<1>1. /\ log \in Seq(Nat) /\ clock \in Nat /\ limited \in BOOLEAN
      /\ N \in Nat /\ DOMAIN log = 1..N
      /\ Limit \in Nat \ {0} /\ Interval \in Nat /\ Span \in Nat
      /\ times \subseteq 1..N /\ requests \in Nat
  BY DEF QuotaInv, TypeOK, ConstantsOK, Span
<1>2. /\ log' = all /\ requests' = Cardinality(times')
      /\ times' = (times \cup {N + 1}) \ {n \in times \cup {N + 1} : Expired(n, all)}
  <2>1. requests' = Cardinality(times') /\ log' = all
    BY AccountType DEF QuotaInv, Held
  <2>2. Len(all) = N + 1
    BY <1>1
  <2>. QED
    BY <2>1, <2>2 DEF Account
<1>3. /\ DOMAIN log' = 1..N + 1 /\ Len(log') = N + 1 /\ log'[N + 1] = clock
      /\ \A n \in 1..N : log'[n] = log[n] /\ log[n] \in Nat
  BY <1>1, <1>2
<1>4. /\ \A n \in 1..N : log[n] <= clock
      /\ \A m, n \in 1..N : m <= n => log[m] <= log[n]
  BY <1>1 DEF QuotaInv, Ordered
<1>5. \A n \in 1..N : log[n] + Span >= log[N] => n \in times
  BY <1>1 DEF QuotaInv, Held
<1> HIDE DEF N
<1>6. Ordered'
  <2>1. \A n \in 1..N + 1 : log'[n] \in Nat /\ log'[n] <= clock
    <3>1. \A n \in 1..N + 1 : n \in 1..N \/ n = N + 1
      BY <1>1
    <3>. QED
      BY <1>1, <1>3, <1>4, <3>1
  <2>2. \A m, n \in 1..N + 1 : m <= n => log'[m] <= log'[n]
    <3> SUFFICES ASSUME NEW m \in 1..N + 1, NEW n \in 1..N + 1, m <= n
                 PROVE  log'[m] <= log'[n]
      OBVIOUS
    <3>1. CASE n = N + 1
      BY <1>3, <2>1, <3>1
    <3>2. CASE n \in 1..N /\ m \in 1..N
      BY <1>3, <1>4, <3>2
    <3>. QED
      BY <1>1, <3>1, <3>2, SMTT(30)
  <2>. QED
    BY <1>3, <2>1, <2>2 DEF Ordered
<1>7. Held'
  <2>1. \A n \in 1..N + 1 : log'[n] + Span >= clock => n \in times'
    <3> SUFFICES ASSUME NEW n \in 1..N + 1, log'[n] + Span >= clock PROVE n \in times'
      OBVIOUS
    <3>1. ~Expired(n, all)
      BY <1>1, <1>2, <1>3, SMTT(30) DEF Expired
    <3>2. n \in times \cup {N + 1}
      <4>1. CASE n = N + 1
        BY <4>1
      <4>2. CASE n \in 1..N
        <5>1. N \in 1..N /\ log[N] <= clock /\ log[N] \in Nat /\ log[n] + Span >= clock
          BY <1>1, <1>3, <1>4, <4>2
        <5>. QED
          BY <1>1, <1>3, <1>5, <4>2, <5>1, SMTT(30)
      <4>. QED
        BY <1>1, <4>1, <4>2
    <3>. QED
      BY <1>2, <3>1, <3>2
  <2>2. Span' = Span
    BY DEF Span
  <2>. QED
    BY <1>2, <1>3, <2>1, <2>2 DEF Held
<1>8. RateLimited'
  <2> SUFFICES ASSUME limited, NEW n \in 1..N + 1, n + Limit \in 1..N + 1
               PROVE  log'[n + Limit] - log'[n] > Interval
    BY <1>3 DEF RateLimited
  <2>1. CASE n + Limit <= N
    <3>1. n \in 1..N /\ n + Limit \in 1..N
      BY <1>1, <2>1
    <3>2. log[n + Limit] - log[n] > Interval
      BY <1>1, <3>1 DEF QuotaInv, RateLimited
    <3>. QED
      BY <1>3, <3>1, <3>2
  <2>2. CASE n + Limit = N + 1
    <3>1. n \in 1..N /\ Span = Interval
      BY <1>1, <2>2 DEF Span
    <3> SUFFICES ASSUME ~(clock - log[n] > Interval) PROVE FALSE
      BY <1>3, <2>2, <3>1
    <3>2. \A k \in n..N : k \in times
      <4> SUFFICES ASSUME NEW k \in n..N PROVE k \in times
        OBVIOUS
      <4>1. k \in 1..N /\ N \in 1..N /\ n <= k
        BY <1>1, <3>1
      <4>2. log[n] <= log[k] /\ log[N] <= clock /\ log[k] \in Nat /\ log[N] \in Nat /\ log[n] \in Nat
        BY <1>3, <1>4, <3>1, <4>1
      <4>3. log[k] + Span >= log[N]
        <5>1. ~(clock - log[n] > Span) /\ Span \in Nat /\ clock \in Nat
          BY <1>1, <3>1
        <5>. QED
          BY ONLY <4>2, <5>1
      <4>. QED
        BY <1>5, <4>1, <4>3
    <3>3. n + Limit - 1 = N
      BY <1>1, <2>2
    <3>4. n..(n + Limit - 1) \subseteq times
      BY <3>2, <3>3
    <3>5. IsFiniteSet(times)
      <4>1. IsFiniteSet(1..N) /\ times \in SUBSET (1..N)
        BY <1>1, FS_Interval
      <4>. QED
        BY <4>1, FS_Subset
    <3>6. Cardinality(times) >= Limit
      <4>1. n \in Nat /\ Limit \in Nat
        BY <1>1, <3>1
      <4>. QED
        BY <4>1, <3>4, <3>5, HoldsInterval
    <3>7. requests = Cardinality(times) /\ requests < Limit
      BY DEF QuotaInv, Held, CanRequest
    <3>. QED
      BY <1>1, <3>6, <3>7
  <2>. QED
    BY <1>1, <2>1, <2>2
<1>. QED
  BY <1>6, <1>7, <1>8

\* What a step that accounts nothing leaves alone.
LEMMA QuotaStands ==
  ASSUME QuotaInv, clock' \in Nat, clock <= clock',
         UNCHANGED <<limited, times, requests, log>>
  PROVE  Ordered' /\ Held' /\ RateLimited' /\ (CanRequest => CanRequest')
<1>1. /\ clock \in Nat /\ \A n \in DOMAIN log : log[n] \in Nat
  BY DEF QuotaInv, TypeOK
<1>2. Ordered'
  BY <1>1 DEF QuotaInv, Ordered
<1>3. Held'
  BY DEF QuotaInv, Held, Span
<1>4. RateLimited'
  BY DEF QuotaInv, RateLimited
<1>. QED
  BY <1>2, <1>3, <1>4 DEF CanRequest

LEMMA QuotaStep == ASSUME ConstantsOK, QuotaInv, [Next]_vars PROVE QuotaInv'
<1>t. TypeOK' /\ clock \in Nat /\ clock' \in Nat /\ clock <= clock
  BY TypeStep, SMTT(30) DEF QuotaInv, Held, TypeOK
<1>1. CASE Tick
  <2>1. clock <= clock'
    BY <1>t, <1>1 DEF Tick
  <2>. QED
    BY <1>1, <1>t, <2>1, QuotaStands DEF Tick, QuotaInv
<1>2. ASSUME NEW k \in Keys, Change(k) PROVE QuotaInv'
  BY <1>2, <1>t, QuotaStands DEF Change, QuotaInv
<1>3. ASSUME NEW k \in Keys, GetCached(k) PROVE QuotaInv'
  BY <1>3, <1>t, QuotaStands DEF GetCached, QuotaInv
<1>4. ASSUME NEW k \in Keys, NEW plain \in BOOLEAN, Refuse(k, plain) PROVE QuotaInv'
  BY <1>4, <1>t, QuotaStands DEF Refuse, QuotaInv
<1>5. ASSUME NEW k \in Keys, NEW plain \in BOOLEAN, Ask(k, plain) PROVE QuotaInv'
  BY <1>5, <1>t, QuotaStands DEF Ask, QuotaInv
<1>6. ASSUME NEW p \in pending, Serve(p) PROVE QuotaInv'
  BY <1>6, <1>t, QuotaStands DEF Serve, QuotaInv
<1>7. ASSUME NEW p \in pending, Fail(p) PROVE QuotaInv'
  BY <1>7, <1>t, QuotaStands DEF Fail, QuotaInv
<1>8. ASSUME NEW p \in pending, Reject(p) PROVE QuotaInv'
  BY <1>8, <1>t, AccountQuota DEF Reject, QuotaInv
<1>9. ASSUME NEW p \in pending, Accept(p) PROVE QuotaInv'
  BY <1>9, <1>t, AccountQuota DEF Accept, QuotaInv
<1>10. ASSUME NEW file, Restarted(file) PROVE QuotaInv'
  <2>1. log' = <<>> /\ times' = {} /\ requests' = 0 /\ pending' = {}
    BY <1>10 DEF Restarted
  <2>2. DOMAIN log' = {}
    BY <2>1
  <2>3. Cardinality({}) = 0
    BY FS_EmptySet
  <2>. QED
    BY <1>t, <2>1, <2>2, <2>3 DEF QuotaInv, Ordered, Held, RateLimited
<1>11. CASE Restart
  BY <1>11, <1>10 DEF Restart
<1>12. ASSUME NEW p \in pending, NEW k \in Keys, NEW cut \in BOOLEAN, DieSaving(p, k, cut)
       PROVE  QuotaInv'
  BY <1>12, <1>10 DEF DieSaving
<1>13. CASE UNCHANGED vars
  BY <1>13, <1>t, QuotaStands DEF vars, QuotaInv
<1>. QED
  BY <1>1, <1>2, <1>3, <1>4, <1>5, <1>6, <1>7, <1>8, <1>9, <1>11, <1>12, <1>13 DEF Next

LEMMA TypeInit == ASSUME ConstantsOK, Init PROVE TypeOK
<1>1. Empty \in [Keys -> SUBSET Entry] /\ \A k \in Keys : Empty[k] = {}
  BY DEF Empty
<1>2. [k \in Keys |-> <<0>>] \in [Keys -> Seq(Nat)]
  <2>1. <<0>> \in Seq(Nat)
    OBVIOUS
  <2>. QED
    BY <2>1
<1>3. <<>> \in Seq(Nat) /\ DOMAIN <<>> = {}
  OBVIOUS
<1>. QED
  BY <1>1, <1>2, <1>3 DEF Init, TypeOK

LEMMA QuotaInit == ASSUME ConstantsOK, Init PROVE QuotaInv
<1>1. log = <<>> /\ times = {} /\ requests = 0 /\ pending = {}
  BY DEF Init
<1>2. DOMAIN log = {} /\ Cardinality({}) = 0
  BY <1>1, FS_EmptySet
<1>. QED
  BY <1>1, <1>2, TypeInit DEF QuotaInv, Ordered, Held, RateLimited

LEMMA QuotaAlways == Spec => []QuotaInv
<1>. QED
  BY ConstantsOK, QuotaInit, QuotaStep, PTL DEF Spec

\* Every variable keeps to its type: the cache has one entry for every key, and the count
\* of the quota does not fall below 0.
THEOREM TypeCorrect == Spec => []TypeOK
<1>1. QuotaInv => TypeOK
  BY DEF QuotaInv
<1>. QED
  BY <1>1, QuotaAlways, PTL

\* No interval of a session has more than Limit accounted requests (canRequest,
\* accountRequest, Tidy), whatever the limit and the interval are; a request that fails
\* is not accounted.
THEOREM LimitIsKept == Spec => []RateLimited
<1>1. QuotaInv => RateLimited
  BY DEF QuotaInv
<1>. QED
  BY <1>1, QuotaAlways, PTL

-----------------------------------------------------------------------------
(* The file *)

\* Whatever is answered from memory would be answered again after a death (Save after
\* putCached; getCached erases in memory only).
THEOREM CacheIsOnDisk == Spec => []CacheOnDisk
<1>1. Init => CacheOnDisk
  BY DEF Init, CacheOnDisk
<1>2. TypeOK /\ CacheOnDisk /\ [Next]_vars => CacheOnDisk'
  <2> SUFFICES ASSUME TypeOK, CacheOnDisk, [Next]_vars PROVE CacheOnDisk'
    OBVIOUS
  <2>1. \A k, j \in Keys, plain \in BOOLEAN : Erased(k, plain)[j] \subseteq cache[j]
    BY DEF Erased, TypeOK
  <2>2. ASSUME NEW k \in Keys, NEW plain \in BOOLEAN, Refuse(k, plain) \/ Ask(k, plain)
        PROVE  CacheOnDisk'
    BY <2>1, <2>2 DEF Refuse, Ask, CacheOnDisk
  <2>3. ASSUME NEW p \in pending, Accept(p) PROVE CacheOnDisk'
    BY <2>3 DEF Accept, Saved, CacheOnDisk
  <2>4. ASSUME NEW file, Restarted(file) PROVE CacheOnDisk'
    BY <2>4 DEF Restarted, CacheOnDisk
  <2>5. ASSUME UNCHANGED <<cache, disk>> PROVE CacheOnDisk'
    BY <2>5 DEF CacheOnDisk
  <2>6. CASE Tick \/ UNCHANGED vars
    BY <2>5, <2>6 DEF Tick, vars
  <2>7. ASSUME NEW k \in Keys, Change(k) \/ GetCached(k) PROVE CacheOnDisk'
    BY <2>5, <2>7 DEF Change, GetCached
  <2>8. ASSUME NEW p \in pending, Serve(p) \/ Fail(p) \/ Reject(p) PROVE CacheOnDisk'
    BY <2>5, <2>8 DEF Serve, Fail, Reject
  <2>9. CASE Restart
    BY <2>4, <2>9 DEF Restart
  <2>10. ASSUME NEW p \in pending, NEW k \in Keys, NEW cut \in BOOLEAN, DieSaving(p, k, cut)
         PROVE  CacheOnDisk'
    BY <2>4, <2>10 DEF DieSaving
  <2>. QED
    BY <2>2, <2>3, <2>6, <2>7, <2>8, <2>9, <2>10 DEF Next
<1>. QED
  BY <1>1, <1>2, TypeCorrect, PTL DEF Spec

-----------------------------------------------------------------------------
(* Freshness *)

\* What was known stays known when the time moves on or a content is replaced, and is
\* known for every earlier time.
LEMMA KnownStays ==
  ASSUME TypeOK, NEW k \in Keys, NEW c, NEW t \in Int, t <= clock, Known(k, c, t),
         since' = since \/ \E j \in Keys : since' = [since EXCEPT ![j] = Append(@, clock)]
  PROVE  Known(k, c, t)'
<1>1. since[k] \in Seq(Nat) /\ c \in 1..Len(since[k]) /\ clock \in Nat
  BY DEF TypeOK, Known, Current
<1>2. CASE since'[k] = since[k]
  BY <1>2 DEF Known, CurrentSince, Current
<1>3. CASE since'[k] = Append(since[k], clock)
  <2>1. /\ Len(since'[k]) = Len(since[k]) + 1 /\ since'[k][Len(since[k]) + 1] = clock
        /\ \A n \in 1..Len(since[k]) : since'[k][n] = since[k][n]
    BY <1>1, <1>3
  <2>2. CASE c = Len(since[k])
    BY <1>1, <2>1, <2>2 DEF Known, CurrentSince, Current
  <2>3. CASE c # Len(since[k])
    <3>1. c + 1 \in 1..Len(since[k])
      BY <1>1, <2>3
    <3>. QED
      BY <1>1, <2>1, <2>3, <3>1 DEF Known, CurrentSince, Current
  <2>. QED
    BY <2>2, <2>3
<1>. QED
  BY <1>2, <1>3 DEF TypeOK

LEMMA KnownEarlier ==
  ASSUME TypeOK, NEW k \in Keys, NEW c, NEW t \in Int, NEW u \in Int, u <= t, Known(k, c, t)
  PROVE  Known(k, c, u)
<1>1. since[k] \in Seq(Nat) /\ c \in 1..Len(since[k])
  BY DEF TypeOK, Known, Current
<1>2. CASE c = Current(k)
  BY <1>2 DEF Known, CurrentSince
<1>3. CASE c # Current(k)
  <2>1. c + 1 \in 1..Len(since[k]) /\ since[k][c + 1] >= t
    BY <1>1, <1>3 DEF Known, CurrentSince, Current
  <2>2. since[k][c + 1] \in Nat
    BY <1>1, <2>1
  <2>3. since[k][c + 1] >= u
    BY <2>1, <2>2
  <2>. QED
    BY <2>3 DEF Known, CurrentSince
<1>. QED
  BY <1>2, <1>3

\* A step that changes nothing but the time and the contents keeps what is known of
\* entries and requests.
LEMMA EntriesStand ==
  ASSUME ConstantsOK, FreshInv, clock' \in Nat, clock <= clock',
         since' = since \/ \E j \in Keys : since' = [since EXCEPT ![j] = Append(@, clock)]
  PROVE  /\ \A k \in Keys : Current(k)' >= 1
         /\ \A k \in Keys : \A e \in cache[k] \cup disk[k] : EntryOK(k, e)'
         /\ \A p \in pending : \A c \in p.content : Known(p.key, c, p.asked)'
<1>1. TypeOK /\ Timeout \in Nat
  BY DEF FreshInv, ConstantsOK
<1>2. ASSUME NEW k \in Keys PROVE Current(k)' >= 1
  <2>1. since[k] \in Seq(Nat) /\ Len(since[k]) >= 1 /\ clock \in Nat
    BY DEF FreshInv, TypeOK, Current
  <2>2. since'[k] = since[k] \/ since'[k] = Append(since[k], clock)
    BY DEF FreshInv, TypeOK
  <2>3. Len(Append(since[k], clock)) >= 1
    BY <2>1
  <2>. QED
    BY <2>1, <2>2, <2>3 DEF Current
<1>3. ASSUME NEW k \in Keys, NEW e \in cache[k] \cup disk[k] PROVE EntryOK(k, e)'
  <2> SUFFICES ASSUME e.content # Piece
               PROVE  e.timestamp <= clock' /\ Known(k, e.content, e.timestamp - Timeout)'
    BY DEF EntryOK, Piece
  <2>1. e.timestamp \in Nat /\ e.timestamp <= clock /\ clock \in Nat
        /\ Known(k, e.content, e.timestamp - Timeout)
    BY <1>1 DEF FreshInv, EntryOK, TypeOK, Entry
  <2>2. e.timestamp - Timeout \in Int /\ e.timestamp - Timeout <= clock
    BY <1>1, <2>1
  <2>3. Known(k, e.content, e.timestamp - Timeout)'
    BY <1>1, <2>1, <2>2, KnownStays
  <2>. QED
    BY <2>1, <2>3
<1>4. ASSUME NEW p \in pending, NEW c \in p.content PROVE Known(p.key, c, p.asked)'
  <2>1. p.key \in Keys /\ p.asked \in Nat /\ p.asked <= clock /\ Known(p.key, c, p.asked)
    BY <1>1 DEF FreshInv, PendingOK, TypeOK, Request
  <2>. QED
    BY <1>1, <2>1, KnownStays
<1>. QED
  BY <1>2, <1>3, <1>4

\* The same for a step that gives no answer: the rest of the invariant.
LEMMA Quiet ==
  ASSUME ConstantsOK, FreshInv, TypeOK', clock' \in Nat, clock <= clock', answer' = {},
         since' = since \/ \E j \in Keys : since' = [since EXCEPT ![j] = Append(@, clock)],
         \A k \in Keys : cache'[k] \cup disk'[k] \subseteq cache[k] \cup disk[k],
         \A p \in pending' : p \in pending /\ clock' <= p.asked + Timeout
  PROVE  FreshInv'
<1>1. \A p \in pending : p.asked \in Nat /\ p.asked <= clock
  BY DEF FreshInv, PendingOK, TypeOK, Request
<1>2. \A p \in pending' : PendingOK(p)'
  <2> SUFFICES ASSUME NEW p \in pending, clock' <= p.asked + Timeout PROVE PendingOK(p)'
    OBVIOUS
  <2>1. clock \in Nat /\ p.asked \in Nat /\ p.asked <= clock
    BY <1>1 DEF FreshInv, TypeOK
  <2>2. p.asked <= clock'
    BY <2>1
  <2>3. \A c \in p.content : Known(p.key, c, p.asked)'
    BY EntriesStand
  <2>. QED
    BY <2>2, <2>3 DEF PendingOK
<1>3. \A k \in Keys : \A e \in cache'[k] \cup disk'[k] : EntryOK(k, e)'
  BY EntriesStand
<1>. QED
  BY <1>2, <1>3, EntriesStand DEF FreshInv, FreshAnswer

\* A piece of an entry, or the entry itself: what a file that is loaded holds.
LEMMA FileOK ==
  ASSUME ConstantsOK, FreshInv, TypeOK', NEW file, Restarted(file),
         \A k \in Keys : \A e \in file[k] : EntryOK(k, e)
  PROVE  FreshInv'
<1>1. /\ cache' = file /\ disk' = file /\ pending' = {} /\ answer' = {}
      /\ clock' = clock /\ since' = since
  BY DEF Restarted
<1>2. \A k \in Keys : \A e \in file[k] : EntryOK(k, e)'
  BY <1>1 DEF EntryOK, Known, CurrentSince, Current
<1>. QED
  BY <1>1, <1>2 DEF FreshInv, FreshAnswer, Current

\* What is put into the cache when an answer was read.
LEMMA KeptOK ==
  ASSUME ConstantsOK, FreshInv, NEW p \in pending, NEW c \in p.content
  PROVE  /\ p.key \in Keys /\ c # Piece
         /\ Known(p.key, c, clock - Timeout)
         /\ \A k \in Keys : \A e \in Kept(p, c)[k] : EntryOK(k, e)
<1>1. /\ p.key \in Keys /\ p.asked \in Nat /\ clock \in Nat /\ Timeout \in Nat
      /\ p.asked <= clock /\ clock <= p.asked + Timeout /\ Known(p.key, c, p.asked)
  BY DEF FreshInv, PendingOK, TypeOK, Request, ConstantsOK
<1>2. Known(p.key, c, clock - Timeout)
  <2>1. clock - Timeout \in Int /\ clock - Timeout <= p.asked
    BY <1>1
  <2>. QED
    BY <1>1, <2>1, KnownEarlier DEF FreshInv
<1>3. c # Piece
  BY <1>1 DEF Known, Current, Piece
<1>4. ASSUME NEW k \in Keys, NEW e \in Kept(p, c)[k] PROVE EntryOK(k, e)
  <2>1. CASE e \in cache[k]
    BY <2>1 DEF FreshInv
  <2>2. CASE k = p.key /\ e = [content |-> c, timestamp |-> clock]
    BY <1>1, <1>2, <2>2 DEF EntryOK
  <2>. QED
    BY <2>1, <2>2 DEF Kept, FreshInv, TypeOK
<1>. QED
  BY <1>1, <1>2, <1>3, <1>4

LEMMA FreshStep ==
  ASSUME ConstantsOK, QuotaInv, FreshInv, [Next]_vars PROVE FreshInv'
<1>t. /\ TypeOK /\ TypeOK' /\ clock \in Nat /\ clock' \in Nat /\ clock <= clock
      /\ Timeout \in Nat /\ Validity \in Nat
  <2>1. TypeOK /\ requests = Cardinality(times)
    BY DEF QuotaInv, Held
  <2>2. TypeOK'
    BY <2>1, TypeStep
  <2>3. clock \in Nat
    BY <2>1 DEF TypeOK
  <2>4. clock' \in Nat
    BY <2>2 DEF TypeOK
  <2>5. Timeout \in Nat /\ Validity \in Nat
    BY DEF ConstantsOK
  <2>6. clock <= clock
    BY ONLY <2>3
  <2>. QED
    BY <2>1, <2>2, <2>3, <2>4, <2>5, <2>6
<1>p. \A p \in pending : p.asked \in Nat /\ clock <= p.asked + Timeout
  BY <1>t DEF FreshInv, PendingOK, TypeOK, Request
<1>1. CASE Tick
  <2>1. clock <= clock' /\ \A p \in pending : clock' <= p.asked + Timeout
    BY <1>t, <1>p, <1>1 DEF Tick
  <2>. QED
    BY <1>1, <1>t, <2>1, Quiet DEF Tick
<1>2. ASSUME NEW k \in Keys, Change(k) PROVE FreshInv'
  BY <1>2, <1>t, <1>p, Quiet DEF Change
<1>3. ASSUME NEW k \in Keys, GetCached(k) PROVE FreshInv'
  <2>1. PICK e \in cache[k] : ~Stale(e) /\ answer' = Answer(k, e.content, TRUE)
    BY <1>3 DEF GetCached
  <2>2. /\ e.timestamp \in Nat /\ EntryOK(k, e)
        /\ since' = since /\ cache' = cache /\ disk' = disk /\ pending' = pending
        /\ clock' = clock
    BY <1>3, <1>t DEF GetCached, FreshInv, TypeOK, Entry
  <2>3. FreshAnswer
        => (e.content # Piece /\ CanRequest
            => CurrentSince(k, e.content, clock - Timeout - Validity))
    <3> SUFFICES ASSUME e.content # Piece, CanRequest
                 PROVE  CurrentSince(k, e.content, clock - Timeout - Validity)
      OBVIOUS
    <3>1. Known(k, e.content, e.timestamp - Timeout) /\ e.timestamp + Validity >= clock
      BY <2>1, <2>2, <1>t DEF EntryOK, Stale
    <3>2. /\ e.timestamp - Timeout \in Int /\ clock - Timeout - Validity \in Int
          /\ clock - Timeout - Validity <= e.timestamp - Timeout
      BY <1>t, <2>2, <3>1
    <3>3. Known(k, e.content, clock - Timeout - Validity)
      BY <1>t, <3>1, <3>2, KnownEarlier
    <3>. QED
      BY <3>3 DEF Known
  <2>4. FreshAnswer'
    BY <2>1, <2>2, <2>3 DEF FreshInv, FreshAnswer, Answer, CurrentSince, Current
  <2>. QED
    BY <1>t, <2>2, <2>4 DEF FreshInv, EntryOK, PendingOK, Known, CurrentSince, Current
<1>4. ASSUME NEW k \in Keys, NEW plain \in BOOLEAN, Refuse(k, plain) PROVE FreshInv'
  <2>1. \A j \in Keys : cache'[j] \subseteq cache[j]
    BY <1>4, <1>t DEF Refuse, Erased, TypeOK
  <2>. QED
    BY <1>4, <1>t, <1>p, <2>1, Quiet DEF Refuse
<1>5. ASSUME NEW k \in Keys, NEW plain \in BOOLEAN, Ask(k, plain) PROVE FreshInv'
  <2>1. \A j \in Keys : cache'[j] \subseteq cache[j]
    BY <1>5, <1>t DEF Ask, Erased, TypeOK
  <2>2. \A j \in Keys : \A e \in cache'[j] \cup disk'[j] : EntryOK(j, e)'
    BY <1>5, <2>1 DEF Ask, FreshInv, EntryOK, Known, CurrentSince, Current
  <2>3. \A p \in pending' : PendingOK(p)'
    BY <1>5, <1>t DEF Ask, PendingOK
  <2>. QED
    BY <1>5, <1>t, <2>2, <2>3 DEF Ask, FreshInv, FreshAnswer, Current
<1>6. ASSUME NEW p \in pending, Serve(p) PROVE FreshInv'
  <2>1. ASSUME NEW q \in pending'
        PROVE  /\ q.key = p.key /\ q.asked = p.asked /\ q.content = {Current(p.key)}
               /\ p.key \in Keys
    BY <1>6, <1>t DEF Serve, TypeOK, Request
  <2>2. clock' = clock /\ since' = since
    BY <1>6 DEF Serve
  <2>3. ASSUME NEW q \in pending' PROVE PendingOK(q)'
    <3>1. Known(p.key, Current(p.key), p.asked)
      BY <2>1, <1>t DEF FreshInv, Known, CurrentSince, Current, TypeOK
    <3>. QED
      BY <2>1, <2>2, <3>1 DEF FreshInv, PendingOK, Known, CurrentSince, Current
  <2>4. \A j \in Keys : \A e \in cache'[j] \cup disk'[j] : EntryOK(j, e)'
    BY <1>6 DEF Serve, FreshInv, EntryOK, Known, CurrentSince, Current
  <2>5. \A r \in pending' : PendingOK(r)'
    BY <2>3
  <2>6. FreshAnswer' /\ \A k \in Keys : Current(k)' >= 1
    BY <1>6 DEF Serve, FreshInv, FreshAnswer, Current
  <2>. QED
    BY <1>t, <2>4, <2>5, <2>6 DEF FreshInv
<1>7. ASSUME NEW p \in pending, Fail(p) PROVE FreshInv'
  BY <1>7, <1>t, Quiet DEF Fail
<1>8. ASSUME NEW p \in pending, Reject(p) PROVE FreshInv'
  BY <1>8, <1>t, Quiet DEF Reject
<1>9. ASSUME NEW p \in pending, Accept(p) PROVE FreshInv'
  <2>1. PICK c \in p.content :
          /\ answer' = Answer(p.key, c, p.plain)
          /\ IF p.plain THEN cache' = Kept(p, c) /\ disk' = Saved(Kept(p, c))
                        ELSE UNCHANGED <<cache, disk>>
    BY <1>9 DEF Accept
  <2>2. pending' = {} /\ clock' = clock /\ since' = since
    BY <1>9 DEF Accept
  <2>3. \A k \in Keys : \A e \in cache'[k] \cup disk'[k] : EntryOK(k, e)
    BY <2>1, KeptOK DEF FreshInv, Saved
  <2>4. \A k \in Keys : \A e \in cache'[k] \cup disk'[k] : EntryOK(k, e)'
    BY <2>2, <2>3 DEF EntryOK, Known, CurrentSince, Current
  <2>5. /\ Known(p.key, c, clock - Timeout)
        /\ Known(p.key, c, clock - Timeout - Validity)
    <3>1. p.key \in Keys /\ Known(p.key, c, clock - Timeout)
      BY KeptOK
    <3>2. /\ clock - Timeout \in Int /\ clock - Timeout - Validity \in Int
          /\ clock - Timeout - Validity <= clock - Timeout
      BY <1>t
    <3>. QED
      BY <1>t, <3>1, <3>2, KnownEarlier
  <2>6. FreshAnswer'
    <3>1. p.plain \in BOOLEAN
      BY <1>t DEF TypeOK, Request
    <3>2. clock - Timeout - 0 = clock - Timeout
      BY <1>t
    <3>3. CASE p.plain
      BY <2>1, <2>2, <2>5, <3>3 DEF FreshAnswer, Answer, Known, CurrentSince, Current
    <3>4. CASE ~p.plain
      BY <2>1, <2>2, <2>5, <3>2, <3>4 DEF FreshAnswer, Answer, Known, CurrentSince, Current
    <3>. QED
      BY <3>1, <3>3, <3>4
  <2>. QED
    BY <1>t, <2>2, <2>4, <2>6 DEF FreshInv, Current
<1>10. CASE Restart
  BY <1>10, <1>t, FileOK DEF Restart, FreshInv
<1>11. ASSUME NEW p \in pending, NEW k \in Keys, NEW cut \in BOOLEAN, DieSaving(p, k, cut)
       PROVE  FreshInv'
  <2>1. PICK c \in p.content : Restarted(Truncated(Kept(p, c), k, cut))
    BY <1>11 DEF DieSaving
  <2> DEFINE kept == Kept(p, c)
             file == Truncated(kept, k, cut)
  <2>2. \A j \in Keys : \A e \in kept[j] : EntryOK(j, e) /\ e \in Entry
    <3>1. p.key \in Keys /\ c \in Nat
      BY <1>t DEF TypeOK, Request
    <3>2. kept \in [Keys -> SUBSET Entry]
      BY <1>t, <3>1 DEF TypeOK, Kept, Entry
    <3>. QED
      BY <3>2, KeptOK
  <2> HIDE DEF kept
  <2>3. ASSUME NEW j \in Keys, NEW e \in file[j] PROVE EntryOK(j, e)
    <3>1. CASE e \in kept[j]
      BY <2>2, <3>1
    <3>2. ASSUME NEW f \in kept[j], e = [f EXCEPT !.content = Piece] PROVE EntryOK(j, e)
      BY <2>2, <3>2 DEF EntryOK, Entry
    <3>. QED
      BY <3>1, <3>2 DEF Truncated
  <2> HIDE DEF file
  <2>. QED
    BY <1>t, <2>1, <2>3, FileOK DEF file, kept
<1>12. CASE UNCHANGED vars
  BY <1>12, <1>t DEF vars, FreshInv, EntryOK, PendingOK, FreshAnswer, Known, CurrentSince, Current
<1>. QED
  BY <1>1, <1>2, <1>3, <1>4, <1>5, <1>6, <1>7, <1>8, <1>9, <1>10, <1>11, <1>12 DEF Next

LEMMA FreshInit == ASSUME ConstantsOK, Init PROVE FreshInv
<1>1. \A k \in Keys : Current(k) = 1 /\ cache[k] = {} /\ disk[k] = {}
  BY DEF Init, Current, Empty
<1>2. pending = {} /\ answer = {}
  BY DEF Init
<1>. QED
  BY <1>1, <1>2, TypeInit DEF FreshInv, FreshAnswer

LEMMA FreshAlways == Spec => []FreshInv
<1>1. QuotaInv /\ FreshInv /\ [Next]_vars => FreshInv'
  BY ConstantsOK, FreshStep
<1>2. Init => FreshInv
  BY ConstantsOK, FreshInit
<1>. QED
  BY <1>1, <1>2, QuotaAlways, PTL DEF Spec

\* While the quota allows requests, no answer is older than the validity and the timeout
\* (getCached, putCached, Load), however the program ended before.
THEOREM AnswersAreFresh == Spec => []FreshAnswer
<1>1. FreshInv => FreshAnswer
  BY DEF FreshInv
<1>. QED
  BY <1>1, FreshAlways, PTL

-----------------------------------------------------------------------------
(* Pieces *)

Pieces == {k \in Keys : \E e \in disk[k] \cup cache[k] : e.content = Piece}

LEMMA PiecesFinite ==
  ASSUME ConstantsOK
  PROVE  IsFiniteSet(Pieces) /\ IsFiniteSet(Pieces')
<1>1. Last \in Nat /\ 1 \in Int
  BY DEF ConstantsOK
<1>2. IsFiniteSet(1..Last)
  BY <1>1, FS_Interval
<1>3. Pieces \in SUBSET (1..Last) /\ Pieces' \in SUBSET (1..Last)
  BY DEF Pieces, Keys
<1>. QED
  BY <1>2, <1>3, FS_Subset

\* The pieces after a file was loaded, those of the keys in new aside, were there before.
LEMMA PiecesOfFile ==
  ASSUME TypeOK, NEW file, Restarted(file), NEW new,
         \A k \in Keys \ new : \A e \in file[k] :
            e.content = Piece => e \in disk[k] \cup cache[k]
  PROVE  Pieces' \subseteq Pieces \cup new /\ restarts' = restarts + 1
<1>1. cache' = file /\ disk' = file /\ restarts' = restarts + 1
  BY DEF Restarted
<1>. QED
  BY <1>1 DEF Pieces

\* At most one answer becomes a piece when the program dies, none in any other step: an
\* answer that is kept came from the service.
LEMMA PiecesGrow ==
  ASSUME ConstantsOK, FreshInv, [Next]_vars
  PROVE  \/ Pieces' \subseteq Pieces /\ restarts' \in {restarts, restarts + 1}
         \/ \E k \in Keys : Pieces' \subseteq Pieces \cup {k} /\ restarts' = restarts + 1
<1> DEFINE Goal == \/ Pieces' \subseteq Pieces /\ restarts' \in {restarts, restarts + 1}
                   \/ \E k \in Keys :
                        Pieces' \subseteq Pieces \cup {k} /\ restarts' = restarts + 1
<1>t. TypeOK
  BY DEF FreshInv
<1>1. ASSUME UNCHANGED <<cache, disk, restarts>> PROVE Goal
  BY <1>1 DEF Pieces
<1>2. ASSUME NEW k \in Keys, NEW plain \in BOOLEAN, Refuse(k, plain) \/ Ask(k, plain)
      PROVE  Goal
  <2>1. disk' = disk /\ restarts' = restarts /\ cache' = Erased(k, plain)
    BY <1>2 DEF Refuse, Ask
  <2>2. \A j \in Keys : Erased(k, plain)[j] \subseteq cache[j]
    BY <1>t DEF Erased, TypeOK
  <2>. QED
    BY <2>1, <2>2 DEF Pieces
<1>3. ASSUME NEW p \in pending, Accept(p) PROVE Goal
  <2>1. restarts' = restarts
    BY <1>3 DEF Accept
  <2>2. PICK c \in p.content :
          IF p.plain THEN cache' = Kept(p, c) /\ disk' = Saved(Kept(p, c))
                     ELSE UNCHANGED <<cache, disk>>
    BY <1>3 DEF Accept
  <2>3. \A k \in Keys : \A e \in Kept(p, c)[k] : e.content = Piece => e \in cache[k]
    BY <1>t, KeptOK, ConstantsOK DEF Kept, TypeOK
  <2>. QED
    BY <2>1, <2>2, <2>3 DEF Pieces, Saved
<1>4. CASE Restart
  <2>1. ASSUME NEW file, Restarted(file),
               \A k \in Keys : \A e \in file[k] : e \in disk[k] \cup cache[k]
        PROVE  Goal
    <3>1. Pieces' \subseteq Pieces \cup {} /\ restarts' = restarts + 1
      BY <1>t, <2>1, PiecesOfFile
    <3>. QED
      BY <3>1
  <2>. QED
    BY <1>4, <2>1 DEF Restart
<1>5. ASSUME NEW p \in pending, NEW k \in Keys, NEW cut \in BOOLEAN, DieSaving(p, k, cut)
      PROVE  Goal
  <2>1. PICK c \in p.content : Restarted(Truncated(Kept(p, c), k, cut))
    BY <1>5 DEF DieSaving
  <2> DEFINE kept == Kept(p, c)
             file == Truncated(kept, k, cut)
  <2>2. \A j \in Keys : \A e \in kept[j] : e.content = Piece => e \in cache[j]
    BY <1>t, KeptOK, ConstantsOK DEF Kept, TypeOK
  <2>3. Restarted(file)
    BY <2>1
  <2> HIDE DEF kept
  <2>4. \A j \in Keys \ {k} : \A e \in file[j] : e.content = Piece => e \in disk[j] \cup cache[j]
    BY <2>2 DEF Truncated
  <2> HIDE DEF file
  <2>5. Pieces' \subseteq Pieces \cup {k} /\ restarts' = restarts + 1
    BY <1>t, <2>3, <2>4, PiecesOfFile
  <2>. QED
    BY <2>5
<1>6. CASE Tick \/ UNCHANGED vars
  BY <1>1, <1>6 DEF Tick, vars
<1>7. ASSUME NEW k \in Keys, Change(k) \/ GetCached(k) PROVE Goal
  BY <1>1, <1>7 DEF Change, GetCached
<1>8. ASSUME NEW p \in pending, Serve(p) \/ Fail(p) \/ Reject(p) PROVE Goal
  BY <1>1, <1>8 DEF Serve, Fail, Reject
<1>. QED
  BY <1>2, <1>3, <1>4, <1>5, <1>6, <1>7, <1>8 DEF Next

\* A death while the cache is being written (Save), and loading what it left (Load), costs
\* at most one answer, and a piece is not multiplied by the sessions after it.
THEOREM OnePiecePerDeath == Spec => []PiecePerDeath
<1>1. Init => PiecePerDeath
  <2>1. ASSUME Init PROVE Pieces = {} /\ restarts = 0
    BY <2>1 DEF Init, Empty, Pieces
  <2>2. Cardinality({}) = 0
    BY FS_EmptySet
  <2>. QED
    BY <2>1, <2>2 DEF PiecePerDeath, Pieces
<1>2. ASSUME FreshInv, PiecePerDeath, [Next]_vars PROVE PiecePerDeath'
  <2>1. /\ IsFiniteSet(Pieces) /\ IsFiniteSet(Pieces')
        /\ Cardinality(Pieces) \in Nat /\ Cardinality(Pieces') \in Nat
    BY ConstantsOK, PiecesFinite, FS_CardinalityType
  <2>2. Cardinality(Pieces) <= restarts /\ restarts \in Nat
    BY <1>2 DEF PiecePerDeath, Pieces, FreshInv, TypeOK
  <2>3. CASE Pieces' \subseteq Pieces /\ restarts' \in {restarts, restarts + 1}
    <3>1. Cardinality(Pieces') <= Cardinality(Pieces)
      BY <2>1, <2>3, FS_Subset
    <3>2. Cardinality(Pieces') <= restarts'
      BY <2>1, <2>2, <2>3, <3>1
    <3>. QED
      BY <3>2 DEF PiecePerDeath, Pieces
  <2>4. ASSUME NEW k \in Keys, Pieces' \subseteq Pieces \cup {k}, restarts' = restarts + 1
        PROVE  PiecePerDeath'
    <3>1. /\ IsFiniteSet(Pieces \cup {k})
          /\ Cardinality(Pieces \cup {k}) \in Nat
          /\ Cardinality(Pieces \cup {k}) <= Cardinality(Pieces) + 1
      <4>1. /\ IsFiniteSet(Pieces \cup {k})
            /\ Cardinality(Pieces \cup {k}) \in {Cardinality(Pieces), Cardinality(Pieces) + 1}
        BY <2>1, FS_AddElement
      <4>. QED
        BY <2>1, <4>1
    <3>2. Cardinality(Pieces') <= Cardinality(Pieces \cup {k})
      BY <2>4, <3>1, FS_Subset
    <3>3. Cardinality(Pieces') <= restarts'
      BY <2>1, <2>2, <2>4, <3>1, <3>2
    <3>. QED
      BY <3>3 DEF PiecePerDeath, Pieces
  <2>. QED
    BY <1>2, <2>3, <2>4, ConstantsOK, PiecesGrow
<1>. QED
  BY <1>1, <1>2, FreshAlways, PTL DEF Spec
=============================================================================
