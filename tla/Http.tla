-------------------------------- MODULE Http --------------------------------
(***************************************************************************)
(* One connection to a web service, with its cache and its quota.          *)
(*                                                                         *)
(* A request (CHttpConnection::Send) is answered from the cache, refused   *)
(* because the quota is used up, or sent.  The caller waits for the answer *)
(* and, when it could be read, has it kept (adviseRequestValid), in memory *)
(* and in a file.  The connection of the chain service has a quota         *)
(* (minerstat, 10 requests in 60 seconds), the one of the market has none  *)
(* and sends some requests with Cache-Control: no-store.                   *)
(*                                                                         *)
(* The service is outside: its contents change at any time, also between   *)
(* sending a request and reading the answer.  The clock does not go back.  *)
(***************************************************************************)
EXTENDS Integers, Sequences, FiniteSets

CONSTANTS
    Last,         \* requests have the keys 1..Last, in the order of the cache and its file
    Limit,        \* m_limit
    Interval,     \* m_interval of the connection with a quota, seconds
    Validity,     \* m_validity, seconds
    Timeout,      \* of a request, seconds
    MaxTime,      \* bound: seconds
    MaxSent,      \* bound: requests of one session that were answered
    MaxContents,  \* bound: contents of one key over time
    MaxRestarts   \* bound: times the program ends and is started again

ASSUME ConstantsOK ==
    /\ {Last, Limit, Interval} \subseteq Nat \ {0}
    /\ {Validity, Timeout, MaxTime, MaxSent, MaxContents, MaxRestarts} \subseteq Nat

VARIABLES
    clock,
    limited,   \* whether the connection has a quota
    since,     \* for every key, the times at which its contents 1, 2, ... appeared
    cache,     \* m_cache: for every key at most one entry
    disk,      \* the cache file
    times,     \* m_times: the requests it still holds, by their number in the log
    requests,  \* m_requests
    log,       \* the times of the requests of this session that were accounted
    pending,   \* the request that is under way, if any
    answer,    \* the answer a caller got in the last step, if any
    restarts

vars == <<clock, limited, since, cache, disk, times, requests, log, pending, answer, restarts>>

Keys == 1..Last

\* Content 0 is a piece of a content: what is left of one in a file that was cut.
Piece == 0

Entry == [content: Nat, timestamp: Nat]
Empty == [k \in Keys |-> {}]

Current(k) == Len(since[k])

Init ==
    /\ clock = 0
    /\ limited \in BOOLEAN
    /\ since = [k \in Keys |-> <<0>>]
    /\ cache = Empty
    /\ disk = Empty
    /\ times = {}
    /\ requests = 0
    /\ log = <<>>
    /\ pending = {}
    /\ answer = {}
    /\ restarts = 0

(***************************************************************************)
(* The world: time, the contents, and the service reading one of them      *)
(***************************************************************************)

\* A request that is under way ends within its timeout.
Tick ==
    /\ clock < MaxTime
    /\ \A p \in pending : clock < p.asked + Timeout
    /\ clock' = clock + 1
    /\ UNCHANGED <<limited, since, cache, disk, times, requests, log, pending, restarts>>
    /\ answer' = {}

Change(k) ==
    /\ Len(since[k]) < MaxContents
    /\ since' = [since EXCEPT ![k] = Append(@, clock)]
    /\ UNCHANGED <<clock, limited, cache, disk, times, requests, log, pending, restarts>>
    /\ answer' = {}

Serve(p) ==
    /\ p \in pending
    /\ p.content = {}
    /\ pending' = {[p EXCEPT !.content = {Current(p.key)}]}
    /\ UNCHANGED <<clock, limited, since, cache, disk, times, requests, log, restarts>>
    /\ answer' = {}

(***************************************************************************)
(* Sending: Send up to the request, getCached                              *)
(***************************************************************************)

\* A slip: one more than the limit.
CanRequestOneMore == ~limited \/ requests <= Limit

CanRequest == ~limited \/ requests < Limit

\* A slip: an entry is as good as any other while the program runs.
StaleNever(e) == FALSE

Stale(e) == CanRequest /\ e.timestamp + Validity < clock

Answer(k, content, plain) ==
    {[key |-> k, content |-> content, plain |-> plain, at |-> clock, allowed |-> CanRequest]}

\* A GET without a Cache-Control header (plain) may be answered from the cache.
GetCached(k) ==
    /\ pending = {}
    /\ \E e \in cache[k] : ~Stale(e) /\ answer' = Answer(k, e.content, TRUE)
    /\ UNCHANGED <<clock, limited, since, cache, disk, times, requests, log, pending, restarts>>

\* What a plain request leaves in the cache when it is not answered from there.
Erased(k, plain) ==
    IF plain THEN [cache EXCEPT ![k] = {e \in @ : ~Stale(e)}] ELSE cache

Refuse(k, plain) ==
    /\ pending = {}
    /\ Erased(k, plain)[k] = {} \/ ~plain
    /\ ~CanRequest
    /\ cache' = Erased(k, plain)
    /\ UNCHANGED <<clock, limited, since, disk, times, requests, log, pending, restarts>>
    /\ answer' = {}

Ask(k, plain) ==
    /\ pending = {}
    /\ Erased(k, plain)[k] = {} \/ ~plain
    /\ CanRequest
    /\ Len(log) < MaxSent
    /\ cache' = Erased(k, plain)
    /\ pending' = {[key |-> k, plain |-> plain, asked |-> clock, content |-> {}]}
    /\ UNCHANGED <<clock, limited, since, disk, times, requests, log, restarts>>
    /\ answer' = {}

(***************************************************************************)
(* The answer: accountRequest with Tidy, then adviseRequestValid           *)
(***************************************************************************)

\* The interval of a connection without a quota is 0.
Span == IF limited THEN Interval ELSE 0

Expired(n, all) == all[n] + Span < clock

\* A slip: the request is not counted.
AccountUncounted ==
    LET all == Append(log, clock)
        held == times \cup {Len(all)}
        dropped == {n \in held : Expired(n, all)}
    IN  /\ log' = all
        /\ times' = held \ dropped
        /\ requests' = requests - Cardinality(dropped)

Account ==
    LET all == Append(log, clock)
        held == times \cup {Len(all)}
        dropped == {n \in held : Expired(n, all)}
    IN  /\ log' = all
        /\ times' = held \ dropped
        /\ requests' = requests + 1 - Cardinality(dropped)

\* putCached.
Kept(p, c) == [cache EXCEPT ![p.key] = {[content |-> c, timestamp |-> clock]}]

\* The request ends with an error, or its time is over: nothing is accounted.
Fail(p) ==
    /\ p \in pending
    /\ pending' = {}
    /\ UNCHANGED <<clock, limited, since, cache, disk, times, requests, log, restarts>>
    /\ answer' = {}

\* An answer with an error status, or one that cannot be read.
Reject(p) ==
    /\ p \in pending
    /\ p.content # {}
    /\ Account
    /\ pending' = {}
    /\ UNCHANGED <<clock, limited, since, cache, disk, restarts>>
    /\ answer' = {}

\* A slip: the file is written before the entry is put into the cache.
SavedFirst(kept) == cache

\* Save.
Saved(kept) == kept

Accept(p) ==
    /\ p \in pending
    /\ \E c \in p.content :
          /\ answer' = Answer(p.key, c, p.plain)
          /\ IF p.plain THEN /\ cache' = Kept(p, c)
                             /\ disk' = Saved(Kept(p, c))
                        ELSE UNCHANGED <<cache, disk>>
    /\ Account
    /\ pending' = {}
    /\ UNCHANGED <<clock, limited, since, restarts>>

(***************************************************************************)
(* The program ends and is started again: the cache is loaded from its     *)
(* file, the quota starts at nothing                                       *)
(***************************************************************************)

Restarted(file) ==
    /\ restarts < MaxRestarts
    /\ restarts' = restarts + 1
    /\ disk' = file
    /\ cache' = file
    /\ times' = {}
    /\ requests' = 0
    /\ log' = <<>>
    /\ pending' = {}
    /\ answer' = {}
    /\ UNCHANGED <<clock, limited, since>>

\* It ends regularly and the destructor saves, or it dies.
Restart ==
    \/ pending = {} /\ Restarted(cache)
    \/ Restarted(disk)

\* A slip: every key after the one being written is cut too.
TruncatedAll(kept, k, cut) ==
    [j \in Keys |-> IF j < k THEN kept[j]
                    ELSE {[e EXCEPT !.content = Piece] : e \in kept[j]}]

\* Save overwrites the file, key by key; what it has written of key k when the program
\* dies is nothing, or (cut) a piece that Load takes for a content.
Truncated(kept, k, cut) ==
    [j \in Keys |-> CASE j < k -> kept[j]
                      [] j = k /\ cut -> {[e EXCEPT !.content = Piece] : e \in kept[j]}
                      [] OTHER -> {}]

DieSaving(p, k, cut) ==
    /\ p \in pending
    /\ p.plain
    /\ \E c \in p.content : Restarted(Truncated(Kept(p, c), k, cut))

Next ==
    \/ Tick
    \/ \E k \in Keys : Change(k)
    \/ \E k \in Keys : GetCached(k)
    \/ \E k \in Keys, plain \in BOOLEAN : Refuse(k, plain)
    \/ \E k \in Keys, plain \in BOOLEAN : Ask(k, plain)
    \/ \E p \in pending : Serve(p) \/ Fail(p) \/ Reject(p) \/ Accept(p)
    \/ Restart
    \/ \E p \in pending, k \in Keys, cut \in BOOLEAN : DieSaving(p, k, cut)

Spec == Init /\ [][Next]_vars

(***************************************************************************)
(* Properties                                                              *)
(***************************************************************************)

Request ==
    [key: Keys, plain: BOOLEAN, asked: Nat, content: SUBSET Nat]

TypeOK ==
    /\ clock \in Nat
    /\ limited \in BOOLEAN
    /\ since \in [Keys -> Seq(Nat)]
    /\ cache \in [Keys -> SUBSET Entry]
    /\ disk \in [Keys -> SUBSET Entry]
    /\ \A k \in Keys : \A e, f \in cache[k] : e = f
    /\ \A k \in Keys : \A e, f \in disk[k] : e = f
    /\ times \subseteq DOMAIN log
    /\ requests \in Nat
    /\ log \in Seq(Nat)
    /\ pending \subseteq Request
    /\ answer \subseteq [key: Keys, content: Nat, plain: BOOLEAN, at: Nat, allowed: BOOLEAN]
    /\ restarts \in Nat

\* Of the requests it accounts, those whose answer was received, a session never has
\* more than Limit within an interval: between one and the Limit-th after it lies more
\* than the interval.  The count is only brought up to date when a request is accounted,
\* and it is read before the request is sent.  Nothing bounds the requests that fail or
\* time out: they are not accounted.
RateLimited ==
    limited => \A n \in DOMAIN log :
        n + Limit \in DOMAIN log => log[n + Limit] - log[n] > Interval

\* Content c was the one of key k at time t or later.
CurrentSince(k, c, t) == c = Current(k) \/ since[k][c + 1] >= t

\* Whatever was kept in the cache, loaded from the file or erased from either, an answer
\* given while the quota allows requests is no older than the validity and the timeout
\* of a request, and one to a request that may not be cached no older than the timeout.
FreshAnswer ==
    \A a \in answer :
        a.content # Piece /\ a.allowed =>
            CurrentSince(a.key, a.content,
                         a.at - Timeout - (IF a.plain THEN Validity ELSE 0))

\* An answer the program would give again is on disk, with its time: a restart does not
\* spend the quota on what is known.  The file may have more: what was erased only in
\* memory.
CacheOnDisk == \A k \in Keys : cache[k] \subseteq disk[k]

\* Writing the file key by key, and loading what a death in between has left, turns at
\* most one answer for every death into a piece that is taken for an answer.
PiecePerDeath ==
    Cardinality({k \in Keys : \E e \in disk[k] \cup cache[k] : e.content = Piece}) <= restarts
=============================================================================
