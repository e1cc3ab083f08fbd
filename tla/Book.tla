-------------------------------- MODULE Book --------------------------------
(***************************************************************************)
(* The book file (src/src/common/book.h, book.cpp): entries of fixed size  *)
(* in pages of fixed capacity, found from either end of the file.          *)
(*                                                                         *)
(* addEntry makes up to seven writes: the header, body and footer of a new *)
(* page and the book header when the last page is full, then the page      *)
(* header with one more entry, the book header with one more entry, and    *)
(* the entry.  A seek flushes the write before it, so that a process that  *)
(* dies leaves on disk a prefix of them.  Entries read or written stay in  *)
(* a cache for the session, and so do the page headers.                    *)
(***************************************************************************)
EXTENDS Integers, Sequences, FiniteSets

CONSTANTS
    Values,        \* what entries hold
    Blank,         \* what a new page holds
    PerPage,       \* entryPerPage (32)
    MaxEntries,    \* bound: number of entries
    MaxCrashes     \* bound: number of times the process dies

ASSUME ConstantsOK ==
    /\ Blank \notin Values
    /\ PerPage \in Nat \ {0}
    /\ MaxEntries \in Nat /\ MaxCrashes \in Nat

VARIABLES
    pages,     \* on disk: the complete pages, page k of the file being pages[k + 1]
    tail,      \* on disk: what follows them, "whole" when nothing does, "astray" when
               \* an operation has taken it for the end of a page
    saved,     \* on disk: the book header
    header,    \* bookHeader
    known,     \* pageHeaders: for a page id, the place in pages it was found at
    cache,     \* m_cache: for an id, the entry
    adding,    \* the addEntry in progress: its next write, page and entry
    crashes,   \* number of times the process has died
    cut        \* history: how many of these deaths cut an addEntry short

disk == <<pages, tail, saved>>
vars == <<disk, header, known, cache, adding, crashes, cut>>

Header == [nPage : Nat, nEntry : Nat]
Page == [nEntry : 0..PerPage, slot : [0..(PerPage - 1) -> Values \cup {Blank}]]

\* Slip: a page is made for an entry and counts it, and makeNewEntry counts it again.
NewPageCounted == [nEntry |-> 1, slot |-> [i \in 0..(PerPage - 1) |-> Blank]]

NewPage == [nEntry |-> 0, slot |-> [i \in 0..(PerPage - 1) |-> Blank]]

\* The writes of addEntry, in order.
Writes == {"pageHeader", "pageBody", "pageFooter", "pageCount",
           "slotCount", "entryCount", "entry"}

Idle == [write |-> "none"]
Adding == [write : Writes, id : Nat, at : Nat, value : Values]

Init ==
    /\ pages = <<>> /\ tail = "whole"
    /\ saved = [nPage |-> 0, nEntry |-> 0] /\ header = saved
    /\ known = <<>> /\ cache = <<>>
    /\ adding = Idle
    /\ crashes = 0 /\ cut = 0

-----------------------------------------------------------------------------
(* Finding an entry *)

\* Slip: a page takes one entry too many.
FullBeyond(at) == pages[at].nEntry > PerPage

\* isPageFull
Full(at) == pages[at].nEntry = PerPage

\* The loop of findPageStart over the headers it knows, by ascending page: one is
\* taken when the page wanted is nearer to it than the one taken before (page -1
\* at first), until the page wanted is taken.  Above the page wanted only the
\* first known is.
Closest(pageId) ==
    LET above == {n \in DOMAIN known : n >= pageId}
        taken[n \in 0..pageId] ==
            IF n = 0 THEN -1
            ELSE IF n - 1 \in DOMAIN known /\ pageId - (n - 1) < (n - 1) - taken[n - 1] THEN n - 1
            ELSE taken[n - 1]
    IN IF above = {} THEN taken[pageId]
       ELSE CHOOSE n \in above : \A k \in above : n <= k

\* findPageStart: a page to start from, with its place.
PageStart(pageId) ==
    LET n == header.nPage
        closest == Closest(pageId)
    IN IF pageId = 0 THEN [id |-> 0, at |-> 1]
       ELSE IF closest >= 0 THEN [id |-> closest, at |-> known[closest]]
       ELSE IF pageId < n - pageId THEN [id |-> 0, at |-> 1]
       ELSE [id |-> n - 1, at |-> Len(pages)]

\* findPage: forward from there while pages are full, or backward.
FoundAt(pageId) ==
    LET start == PageStart(pageId)
        goal == start.at + (pageId - start.id)
        last == {at \in start.at..(goal - 1) : at \notin DOMAIN pages \/ ~Full(at)}
    IN IF last = {} THEN goal ELSE CHOOSE at \in last : \A k \in last : at <= k

\* Slip: on the way back a page is remembered at the place of the one after it.
VisitedLate(pageId) ==
    LET start == PageStart(pageId)
        way == {k \in 0..header.nPage :
                    (start.id <= k /\ k <= pageId) \/ (pageId <= k /\ k <= start.id)}
    IN [k \in DOMAIN known \cup way |->
            IF k \notin way THEN known[k]
            ELSE IF k < start.id THEN start.at + (k - start.id) + 1
            ELSE start.at + (k - start.id)]

\* The page headers read on the way are known from then on.
Visited(pageId) ==
    LET start == PageStart(pageId)
        way == {k \in 0..header.nPage :
                    (start.id <= k /\ k <= pageId) \/ (pageId <= k /\ k <= start.id)}
    IN [k \in DOMAIN known \cup way |->
            IF k \in way THEN start.at + (k - start.id) ELSE known[k]]

\* Slip: the page is the one of the next entry.
SlotOfNext(id) ==
    LET at == FoundAt((id + 1) \div PerPage) IN
    IF at \in DOMAIN pages /\ id % PerPage < pages[at].nEntry
    THEN {<<at, id % PerPage>>} ELSE {}

\* getEntryOffset: the place and slot of an entry, none if it is not there.
Slot(id) ==
    LET at == FoundAt(id \div PerPage) IN
    IF at \in DOMAIN pages /\ id % PerPage < pages[at].nEntry
    THEN {<<at, id % PerPage>>} ELSE {}

\* What a session reads from the file under id.
OnDisk(id) ==
    LET found == Slot(id) IN
    IF found = {} THEN Blank
    ELSE LET s == CHOOSE s \in found : TRUE IN pages[s[1]].slot[s[2]]

\* The search for a page starts at the last one, found from the end of the file.
FromEnd(pageId) ==
    pageId # 0 /\ Closest(pageId) < 0 /\ ~(pageId < header.nPage - pageId)

\* getEntry
Entry(id) == IF id \in DOMAIN cache THEN cache[id] ELSE OnDisk(id)

Cached(id, v) == [k \in DOMAIN cache \cup {id} |-> IF k = id THEN v ELSE cache[k]]

-----------------------------------------------------------------------------
(* Operations *)

\* getEntry reads the file and keeps the entry.
GetEntry(id) ==
    /\ adding = Idle /\ id < header.nEntry
    /\ tail # "whole" => ~FromEnd(id \div PerPage)
    /\ id \notin DOMAIN cache /\ Slot(id) # {}
    /\ cache' = Cached(id, OnDisk(id))
    /\ known' = Visited(id \div PerPage)
    /\ UNCHANGED <<disk, header, adding, crashes, cut>>

\* updateEntry: Commit writes the entry where getEntryOffset finds it; its
\* failure is not looked at.
UpdateEntry(id, v) ==
    /\ adding = Idle /\ id < header.nEntry
    /\ tail # "whole" => ~FromEnd(id \div PerPage)
    /\ cache' = Cached(id, v)
    /\ known' = Visited(id \div PerPage)
    /\ pages' = [at \in DOMAIN pages |->
                    IF \E s \in Slot(id) : s[1] = at
                    THEN [pages[at] EXCEPT !.slot[id % PerPage] = v] ELSE pages[at]]
    /\ UNCHANGED <<tail, saved, header, adding, crashes, cut>>

\* addEntry keeps the entry under the next id; makeNewEntry finds the last page
\* from the end of the file, here the end of a page.
AddEntry(v) ==
    /\ adding = Idle /\ header.nEntry < MaxEntries
    /\ tail = "whole"
    /\ cache' = Cached(header.nEntry, v)
    /\ LET last == header.nPage - 1
           at == Len(pages)
           room == last >= 0 /\ ~Full(at)
           page == IF room THEN last ELSE header.nPage
           place == IF room THEN at ELSE at + 1
       IN
        /\ adding' = [write |-> IF room THEN "slotCount" ELSE "pageHeader",
                      id |-> page, at |-> place, value |-> v]
        /\ header' = IF room THEN header ELSE [header EXCEPT !.nPage = @ + 1]
        /\ known' = IF last < 0 THEN known
                    ELSE [k \in DOMAIN known \cup {last} |-> IF k = last THEN at ELSE known[k]]
    /\ UNCHANGED <<disk, crashes, cut>>

\* addPage
WritePageHeader ==
    /\ adding.write = "pageHeader"
    /\ tail' = "header"
    /\ known' = [k \in DOMAIN known \cup {adding.id} |->
                    IF k = adding.id THEN adding.at ELSE known[k]]
    /\ adding' = [adding EXCEPT !.write = "pageBody"]
    /\ UNCHANGED <<pages, saved, header, cache, crashes, cut>>

WritePageBody ==
    /\ adding.write = "pageBody"
    /\ tail' = "body"
    /\ adding' = [adding EXCEPT !.write = "pageFooter"]
    /\ UNCHANGED <<pages, saved, header, known, cache, crashes, cut>>

WritePageFooter ==
    /\ adding.write = "pageFooter"
    /\ pages' = Append(pages, NewPage)
    /\ tail' = "whole"
    /\ adding' = [adding EXCEPT !.write = "pageCount"]
    /\ UNCHANGED <<saved, header, known, cache, crashes, cut>>

WritePageCount ==
    /\ adding.write = "pageCount"
    /\ saved' = header
    /\ adding' = [adding EXCEPT !.write = "slotCount"]
    /\ UNCHANGED <<pages, tail, header, known, cache, crashes, cut>>

\* makeNewEntry
WriteSlotCount ==
    /\ adding.write = "slotCount"
    /\ pages' = [pages EXCEPT ![adding.at].nEntry = @ + 1]
    /\ adding' = [adding EXCEPT !.write = "entryCount"]
    /\ UNCHANGED <<tail, saved, header, known, cache, crashes, cut>>

WriteEntryCount ==
    /\ adding.write = "entryCount"
    /\ header' = [header EXCEPT !.nEntry = @ + 1]
    /\ saved' = header'
    /\ adding' = [adding EXCEPT !.write = "entry"]
    /\ UNCHANGED <<pages, tail, known, cache, crashes, cut>>

\* The entry goes to the last slot counted.
WriteEntry ==
    /\ adding.write = "entry"
    /\ pages' = [pages EXCEPT ![adding.at].slot[pages[adding.at].nEntry - 1] = adding.value]
    /\ adding' = Idle
    /\ UNCHANGED <<tail, saved, header, known, cache, crashes, cut>>

AddEntryWrites ==
    \/ WritePageHeader \/ WritePageBody \/ WritePageFooter \/ WritePageCount
    \/ WriteSlotCount \/ WriteEntryCount \/ WriteEntry

\* An operation looks for the last page from the end of a file that ends in an unfinished
\* one.  getLastPage takes the last four bytes for a footer: of a body these are zeros,
\* the offset of the book header; of a page header, padding that nothing has set.  What
\* is there is taken for the last page, is counted up and gets the entry.  With
\* no page counted the new one goes behind the unfinished one, which getFirstPage
\* finds.  The bytes decide what becomes of the book: the model ends here.
GoAstray ==
    /\ adding = Idle /\ tail \in {"header", "body"}
    /\ \/ header.nEntry < MaxEntries
       \/ \E id \in 0..(header.nEntry - 1) : FromEnd(id \div PerPage)
    /\ tail' = "astray"
    /\ UNCHANGED <<pages, saved, header, known, cache, adding, crashes, cut>>

\* The process dies and opens the book again.
Crash ==
    /\ crashes < MaxCrashes
    /\ crashes' = crashes + 1
    /\ cut' = IF adding = Idle THEN cut ELSE cut + 1
    /\ header' = saved
    /\ known' = <<>> /\ cache' = <<>> /\ adding' = Idle
    /\ UNCHANGED disk

Next ==
    /\ tail # "astray"
    /\ \/ \E id \in 0..(MaxEntries - 1) : GetEntry(id) \/ \E v \in Values : UpdateEntry(id, v)
       \/ \E v \in Values : AddEntry(v)
       \/ AddEntryWrites \/ GoAstray \/ Crash

Spec == Init /\ [][Next]_vars
-----------------------------------------------------------------------------
(* What the book promises *)

\* The cache has values of entries, never the blank of a page that was just made, as long
\* as no addition is cut short: then a session may read an entry that was never written.
TypeOK ==
    /\ pages \in Seq(Page) /\ tail \in {"whole", "header", "body", "astray"}
    /\ saved \in Header /\ header \in Header
    /\ cut = 0 => /\ DOMAIN known \subseteq Nat /\ \A k \in DOMAIN known : known[k] \in Nat
                  /\ DOMAIN cache \subseteq Nat /\ \A k \in DOMAIN cache : cache[k] \in Values
    /\ adding \in Adding \cup {Idle} /\ crashes \in 0..MaxCrashes /\ cut \in Nat

\* What is remembered and the file agree between operations, as long as no addition is cut
\* short: what a session sees under an id, the next session reads under it; the places of
\* pages that are remembered are right, and a search that starts from any of them ends at
\* the page that is wanted.
Coherent ==
    cut = 0 /\ adding = Idle =>
        /\ \A id \in DOMAIN cache : cache[id] = OnDisk(id)
        /\ \A k \in DOMAIN known : known[k] = k + 1
        /\ \A p \in 0..(header.nPage - 1) : FoundAt(p) = p + 1

\* The entries that the headers of these pages count.
Held(ps) ==
    LET sum[k \in 0..Len(ps)] == IF k = 0 THEN 0 ELSE sum[k - 1] + ps[k].nEntry
    IN sum[Len(ps)]

\* A death in an addition costs little, wherever it falls, until an operation goes astray
\* on a page that one has left unfinished (GoAstray): the counts of the pages exceed the
\* count of the book by at most one for every such death, and at most one page for every
\* such death has room before the last one; every other is filled before the next is begun
\* (addEntry, writePage).  What an addition that goes astray costs has no bound.
DamagePerDeath ==
    tail # "astray" =>
        /\ adding = Idle => saved.nEntry <= Held(pages) /\ Held(pages) <= saved.nEntry + cut
        /\ Cardinality({at \in 1..(Len(pages) - 1) : pages[at].nEntry < PerPage}) <= cut

\* A session sees a ledger, across any number of deaths up to the first that cuts an
\* addition short: entries are added at the end, and an update changes the entry with
\* its id only.
Entries == [i \in 1..header.nEntry |-> Entry(i - 1)]

Seen == INSTANCE Ledger WITH entries <- Entries

ImplementsLedger == Seen!Init /\ [][cut' = 0 => [Seen!Next]_Entries]_vars
=============================================================================
