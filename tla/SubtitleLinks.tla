---------------------------- MODULE SubtitleLinks ----------------------------
(***************************************************************************)
(* The snapshot subtitle-links answers from (services/subtitle-links/      *)
(* main.go).  Walking Jellyfin's library takes seconds, so a keeper walks  *)
(* it every hour, a visit to a stale snapshot has it walked behind the     *)
(* answer, and only a request that comes before the first snapshot waits.  *)
(* The library is a version number; a walk reads the films and the series  *)
(* side by side, each series' episodes in a call of its own.               *)
(***************************************************************************)
EXTENDS Integers

CONSTANTS
    Series,       \* the series of the library
    Cold,         \* requests that may come before the first snapshot
    MaxChanges,   \* bound: times the library changes
    MaxVisits,    \* bound: visits that find the snapshot stale
    MaxFailures   \* bound: calls to Jellyfin that fail

ASSUME SubtitleLinksAssumption == Series \cap {"movies", "list"} = {}

VARIABLES
    library,      \* the library's version, in Jellyfin
    items, at,    \* itemsData, and whether itemsAt is set
    stale,        \* itemsAt is more than itemsStaleAfter ago
    refreshMu,    \* who holds it: nobody, or one walker
    refreshing,   \* a background refresh is in flight
    spawned,      \* goroutines of stale visits not yet at their CompareAndSwap
    pc, got,      \* of each walker: where it is, and what its walk has read
    owed,         \* history: a stale visit whose refresh has not ended
    changes, visits, failures

Walkers == {"keeper", "visit"} \cup Cold
Parts == {"movies", "list"} \cup Series
Listed == {"movies"} \cup Series
Unread == -1
Failed == -2

snapshot == <<items, at, stale>>
flight == <<refreshMu, refreshing, spawned>>
walk == <<pc, got>>
counts == <<changes, visits, failures>>
vars == <<library, snapshot, flight, walk, owed, counts>>

Nothing == [p \in Parts |-> Unread]

Init ==
    /\ library = 0
    /\ items = [p \in Listed |-> Failed] /\ at = FALSE /\ stale = FALSE
    /\ refreshMu = {} /\ refreshing = FALSE /\ spawned = 0
    /\ pc = [w \in Walkers |-> IF w = "keeper" THEN "wait" ELSE "off"]
    /\ got = [w \in Walkers |-> Nothing]
    /\ owed = FALSE
    /\ changes = 0 /\ visits = 0 /\ failures = 0
-----------------------------------------------------------------------------
LibraryChanges ==
    /\ changes < MaxChanges
    /\ changes' = changes + 1 /\ library' = library + 1
    /\ UNCHANGED <<snapshot, flight, walk, owed, visits, failures>>

Ages ==
    /\ at /\ ~stale
    /\ stale' = TRUE
    /\ UNCHANGED <<library, items, at, flight, walk, owed, counts>>

\* A request that finds no snapshot walks the library itself.
ColdRequest(c) ==
    /\ pc[c] = "off" /\ ~at
    /\ pc' = [pc EXCEPT ![c] = "wait"]
    /\ UNCHANGED <<library, snapshot, flight, got, owed, counts>>

\* A request that finds a stale one is answered from it; its goroutine follows.
Visit ==
    /\ at /\ stale /\ visits < MaxVisits
    /\ visits' = visits + 1
    /\ spawned' = spawned + 1
    /\ owed' = TRUE
    /\ UNCHANGED <<library, snapshot, refreshMu, refreshing, walk, changes, failures>>

\* Its goroutine: one background walk at a time.
BehindVisit ==
    /\ spawned > 0
    /\ spawned' = spawned - 1
    /\ \/ refreshing /\ UNCHANGED <<refreshing, pc>>
       \/ /\ ~refreshing /\ refreshing' = TRUE
          /\ pc' = [pc EXCEPT !["visit"] = "wait"]
    /\ UNCHANGED <<library, snapshot, refreshMu, got, owed, counts>>

\* The keeper's hour is over.
Tick ==
    /\ pc["keeper"] = "off"
    /\ pc' = [pc EXCEPT !["keeper"] = "wait"]
    /\ UNCHANGED <<library, snapshot, flight, got, owed, counts>>
-----------------------------------------------------------------------------
\* Mutant: walks are not kept apart.
BeginUnlocked(w) ==
    /\ pc[w] = "wait"
    /\ refreshMu' = {w}
    /\ pc' = [pc EXCEPT ![w] = "walk"]
    /\ got' = [got EXCEPT ![w] = Nothing]
    /\ UNCHANGED <<library, snapshot, refreshing, spawned, owed, counts>>

\* refreshItems: refreshMu.Lock.
Begin(w) ==
    /\ pc[w] = "wait" /\ refreshMu = {}
    /\ refreshMu' = {w}
    /\ pc' = [pc EXCEPT ![w] = "walk"]
    /\ got' = [got EXCEPT ![w] = Nothing]
    /\ UNCHANGED <<library, snapshot, refreshing, spawned, owed, counts>>

\* fetchMovies and fetchSeries side by side; a series' episodes after the list.
Due(w, p) ==
    /\ pc[w] = "walk" /\ got[w][p] = Unread
    /\ p \in Series => got[w]["list"] \notin {Unread, Failed}

Fetch(w, p) ==
    /\ Due(w, p)
    /\ got' = [got EXCEPT ![w][p] = library]
    /\ UNCHANGED <<library, snapshot, flight, pc, owed, counts>>

FetchFails(w, p) ==
    /\ Due(w, p) /\ failures < MaxFailures
    /\ failures' = failures + 1
    /\ got' = [got EXCEPT ![w][p] = Failed]
    /\ UNCHANGED <<library, snapshot, flight, pc, owed, changes, visits>>

\* wg.Wait: every call of the walk has ended.
Walked(w) == pc[w] = "walk" /\ \A p \in Parts : ~Due(w, p)
Whole(w) == Failed \notin {got[w]["movies"], got[w]["list"]}

\* The walk is over: the lock goes, and the flag if it was a visit's.
Over(w) ==
    /\ refreshMu' = {}
    /\ refreshing' = (refreshing /\ w # "visit")
    /\ owed' = FALSE
    /\ UNCHANGED <<library, spawned, counts>>

\* Both parts came: the snapshot is replaced, and a first request answered.
\* A series whose episodes did not come is not in it.
Store(w) ==
    /\ Walked(w) /\ Whole(w)
    /\ items' = [p \in Listed |-> got[w][p]]
    /\ at' = TRUE /\ stale' = FALSE
    /\ pc' = [pc EXCEPT ![w] = IF w \in Cold THEN "answered" ELSE "off"]
    /\ got' = [got EXCEPT ![w] = Nothing]
    /\ Over(w)

\* Mutant: a background walk that fails leaves its flag set.
WalkFailsFlagged(w) ==
    /\ Walked(w) /\ ~Whole(w)
    /\ pc' = [pc EXCEPT ![w] = "off"]
    /\ got' = [got EXCEPT ![w] = Nothing]
    /\ refreshMu' = {}
    /\ owed' = FALSE
    /\ UNCHANGED <<library, snapshot, refreshing, spawned, counts>>

\* One did not: the previous snapshot stands, and a first request gets a 502.
WalkFails(w) ==
    /\ Walked(w) /\ ~Whole(w)
    /\ pc' = [pc EXCEPT ![w] = "off"]
    /\ got' = [got EXCEPT ![w] = Nothing]
    /\ Over(w)
    /\ UNCHANGED snapshot

Walking(w) == Begin(w) \/ Store(w) \/ WalkFails(w) \/ \E p \in Parts : Fetch(w, p)

Next ==
    \/ LibraryChanges \/ Ages \/ Visit \/ BehindVisit \/ Tick
    \/ \E c \in Cold : ColdRequest(c)
    \/ \E w \in Walkers : Walking(w) \/ \E p \in Parts : FetchFails(w, p)

Spec == Init /\ [][Next]_vars
-----------------------------------------------------------------------------
\* A snapshot is never replaced by what an earlier walk read: neither films nor
\* the episodes of a series go back to an older library (refreshMu).
NeverGoesBack ==
    [][\A p \in Listed : items[p] = Failed \/ items'[p] = Failed \/ items'[p] >= items[p]]_vars

\* A visit that finds the snapshot stale is followed by a walk that ends, however
\* many visits share it and whatever failed before (refreshing).
VisitRefreshes == owed ~> ~owed
=============================================================================
