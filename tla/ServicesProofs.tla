---------------------------- MODULE ServicesProofs ----------------------------
(***************************************************************************)
(* Proofs about the five services, each for any value of its constants;    *)
(* then of the services side by side, of which every step is one of the    *)
(* service at hand or leaves it alone.                                     *)
(***************************************************************************)
EXTENDS Services, SequenceLemmas, TLAPS

(***************************************************************************)
(* Quiet.  HandKept is about a step.  What makes a toggle safe is what was *)
(* read before it: unless a person crossed it the turtle is still as it    *)
(* was read, and limits taken for the service's own were set by it.        *)
(***************************************************************************)
QuietTypes == turtle \in BOOLEAN /\ want \in BOOLEAN /\ on \in BOOLEAN /\ quietOn \in BOOLEAN

OwnInv ==
    ~crossed =>
        /\ quietOn /\ turtle => setBy = "quiet"
        /\ quietPc = "toggle" => turtle = on /\ want # on /\ (on => quietOn)
LEMMA InitOwn == Q!Init => QuietTypes /\ OwnInv
BY DEF Q!Init, QuietTypes, OwnInv

LEMMA OwnStep == QuietTypes /\ OwnInv /\ [Q!Next]_(Q!vars) => QuietTypes' /\ OwnInv'
<1> SUFFICES ASSUME QuietTypes, OwnInv, [Q!Next]_(Q!vars) PROVE QuietTypes' /\ OwnInv'
    OBVIOUS
<1> USE DEF QuietTypes, OwnInv, Q!mind, Q!counts, Q!history
<1>1. CASE Q!Plays BY <1>1 DEF Q!Plays
<1>2. CASE Q!Hand BY <1>2 DEF Q!Hand
<1>3. CASE Q!Look BY <1>3 DEF Q!Look
<1>4. CASE Q!Mode BY <1>4 DEF Q!Mode
<1>5. CASE Q!Toggle BY <1>5 DEF Q!Toggle, Q!Flip
<1>6. CASE Q!Unread BY <1>6 DEF Q!Unread
<1>7. CASE Q!ToggleUnanswered BY <1>7 DEF Q!ToggleUnanswered, Q!Flip
<1>8. CASE Q!ToggleFails BY <1>8 DEF Q!ToggleFails
<1>9. CASE Q!Restart BY <1>9 DEF Q!Restart
<1>10. CASE UNCHANGED Q!vars BY <1>10 DEF Q!vars
<1> QED BY <1>1, <1>2, <1>3, <1>4, <1>5, <1>6, <1>7, <1>8, <1>9, <1>10 DEF Q!Next, Q!Step

\* Only a toggle of the service's turns the turtle without a hand, and one that
\* turns it off found limits it had set.
LEMMA QuietHandStep ==
    ASSUME QuietTypes, OwnInv, [Q!Next]_(Q!vars), turtle, setBy = "hand", ~crossed, hands' = hands, hands \in Nat
    PROVE  turtle'
<1> USE DEF QuietTypes, OwnInv, Q!mind, Q!counts, Q!history
<1>1. CASE Q!Hand BY <1>1 DEF Q!Hand
<1>2. CASE Q!Toggle BY <1>2 DEF Q!Toggle, Q!Flip
<1>3. CASE Q!ToggleUnanswered BY <1>3 DEF Q!ToggleUnanswered, Q!Flip
<1>4. CASE ~(Q!Hand \/ Q!Toggle \/ Q!ToggleUnanswered)
    BY <1>4 DEF Q!Next, Q!Step, Q!vars, Q!Plays, Q!Look, Q!Mode, Q!Unread, Q!ToggleFails, Q!Restart
<1> QED BY <1>1, <1>2, <1>3, <1>4

LEMMA HandsCount == hands \in Nat /\ [Q!Next]_(Q!vars) => hands' \in Nat
BY DEF Q!Next, Q!Step, Q!vars, Q!counts, Q!Plays, Q!Hand, Q!Look, Q!Mode, Q!Toggle, Q!Unread, Q!ToggleUnanswered,
    Q!ToggleFails, Q!Restart

\* For any linger and any number of flips, restarts, lost answers and failing
\* calls: a turtle turned on by hand and not crossed is not turned off.
LEMMA QuietHandIsKept == Q!Spec => Q!HandKept
<1>1. Q!Init => QuietTypes /\ OwnInv /\ hands \in Nat BY InitOwn DEF Q!Init
<1>2. QuietTypes /\ OwnInv /\ hands \in Nat /\ [Q!Next]_(Q!vars) => (QuietTypes /\ OwnInv /\ hands \in Nat)'
    BY OwnStep, HandsCount
<1>3. QuietTypes /\ OwnInv /\ hands \in Nat /\ [Q!Next]_(Q!vars) =>
         [turtle /\ setBy = "hand" /\ ~crossed /\ hands' = hands => turtle']_(Q!vars)
    BY QuietHandStep
<1> QED BY <1>1, <1>2, <1>3, PTL DEF Q!Spec, Q!HandKept
-----------------------------------------------------------------------------
(***************************************************************************)
(* SubtitleLinks.  NeverGoesBack is about a step; what makes it hold is    *)
(* that only the walk with refreshMu has read anything since the snapshot  *)
(* was stored, so that nothing it read is older than the snapshot.         *)
(***************************************************************************)
Version == Nat \cup {Unread, Failed}

LinksTypes ==
    /\ library \in Nat
    /\ items \in [Listed -> Version]
    /\ got \in [Walkers -> [Parts -> Version]]
    /\ pc \in [Walkers -> {"off", "wait", "walk", "answered"}]

\* What was read is no older than the snapshot, and no newer than the library.
Fresh(w) ==
    \A p \in Listed : got[w][p] \in Nat => items[p] <= got[w][p] /\ got[w][p] <= library

WalkInv ==
    /\ \A w \in Walkers : pc[w] = "walk" => refreshMu = {w} /\ Fresh(w)
    /\ \A p \in Listed : items[p] <= library
LEMMA InitWalk == Init => LinksTypes /\ WalkInv
BY DEF Init, LinksTypes, WalkInv, Fresh, Version, Unread, Failed, Nothing, Listed, Parts, Walkers

LEMMA LinksTypesStep == LinksTypes /\ [Next]_vars => LinksTypes'
<1> SUFFICES ASSUME LinksTypes, [Next]_vars PROVE LinksTypes'
    OBVIOUS
<1> USE DEF LinksTypes, Version, Unread, Failed, snapshot, flight, walk, counts
<1>1. CASE LibraryChanges BY <1>1 DEF LibraryChanges
<1>2. CASE Ages BY <1>2 DEF Ages
<1>3. CASE Visit BY <1>3 DEF Visit
<1>4. CASE BehindVisit BY <1>4 DEF BehindVisit, Walkers
<1>5. CASE Tick BY <1>5 DEF Tick, Walkers
<1>6. ASSUME NEW c \in Cold, ColdRequest(c) PROVE LinksTypes'
    BY <1>6 DEF ColdRequest, Walkers
<1>7. ASSUME NEW w \in Walkers, Walking(w) PROVE LinksTypes'
    <2>1. CASE Begin(w) BY <2>1 DEF Begin, Nothing
    <2>2. CASE Store(w) BY <2>2 DEF Store, Over, Nothing, Listed, Parts
    <2>3. CASE WalkFails(w) BY <2>3 DEF WalkFails, Over, Nothing
    <2>4. ASSUME NEW p \in Parts, Fetch(w, p) PROVE LinksTypes' BY <2>4 DEF Fetch, Due
    <2> QED BY <1>7, <2>1, <2>2, <2>3, <2>4 DEF Walking
<1>8. ASSUME NEW w \in Walkers, NEW p \in Parts, FetchFails(w, p) PROVE LinksTypes'
    BY <1>8 DEF FetchFails, Due
<1>9. CASE UNCHANGED vars BY <1>9 DEF vars
<1> QED BY <1>1, <1>2, <1>3, <1>4, <1>5, <1>6, <1>7, <1>8, <1>9 DEF Next

\* A walk that is whole has read every part of the library.
LEMMA WholeIsRead ==
    ASSUME LinksTypes, NEW w \in Walkers, Walked(w), Whole(w), NEW p \in Listed
    PROVE  got[w][p] # Unread
<1>1. {"movies", "list"} \subseteq Parts /\ Listed \subseteq Parts
    BY DEF Parts, Listed
<1>2. "list" \notin Series /\ "movies" \notin Series
    BY SubtitleLinksAssumption
<1>3. got[w]["list"] \notin {Unread, Failed} /\ got[w]["movies"] # Unread
    BY <1>1, <1>2 DEF Walked, Due, Whole
<1> QED BY <1>1, <1>3 DEF Walked, Due, Listed

\* The step that replaces the snapshot: nothing in it is older than what it replaces.
LEMMA StoreIsNewer ==
    ASSUME LinksTypes, WalkInv, NEW w \in Walkers, Store(w), NEW p \in Listed
    PROVE  items'[p] = got[w][p] /\ (got[w][p] # Failed => items[p] <= got[w][p] /\ got[w][p] <= library)
<1>1. got[w][p] \in Version /\ got[w][p] # Unread
    BY WholeIsRead DEF Store, LinksTypes, Listed, Parts
<1>2. Fresh(w) BY DEF WalkInv, Store, Walked
<1> QED BY <1>1, <1>2 DEF Store, Fresh, Version

LEMMA WalkStep == LinksTypes /\ WalkInv /\ [Next]_vars => WalkInv'
<1> SUFFICES ASSUME LinksTypes, WalkInv, [Next]_vars PROVE WalkInv'
    OBVIOUS
<1> USE DEF WalkInv, Fresh, snapshot, flight, walk, counts
<1>1. CASE LibraryChanges
    BY <1>1 DEF LibraryChanges, LinksTypes, Version, Unread, Failed, Listed, Parts
<1>2. CASE Ages BY <1>2 DEF Ages
<1>3. CASE Visit BY <1>3 DEF Visit
<1>4. CASE BehindVisit BY <1>4 DEF BehindVisit, LinksTypes
<1>5. CASE Tick BY <1>5 DEF Tick, LinksTypes
<1>6. ASSUME NEW c \in Cold, ColdRequest(c) PROVE WalkInv'
    BY <1>6 DEF ColdRequest, LinksTypes
<1>7. ASSUME NEW w \in Walkers, Walking(w) PROVE WalkInv'
    <2>1. CASE Begin(w)
        BY <2>1 DEF Begin, LinksTypes, Nothing, Listed, Parts, Unread
    <2>2. CASE Store(w)
        <3>1. \A v \in Walkers : pc'[v] # "walk"
            BY <2>2 DEF Store, Walked, LinksTypes
        <3>2. ASSUME NEW p \in Listed PROVE items'[p] <= library'
            <4>1. items'[p] = got[w][p] /\ (got[w][p] # Failed => got[w][p] <= library)
                BY <2>2, StoreIsNewer
            <4> QED BY <4>1, <2>2 DEF Store, Over, Failed, LinksTypes
        <3> QED BY <3>1, <3>2
    <2>3. CASE WalkFails(w)
        <3>1. \A v \in Walkers : pc'[v] # "walk"
            BY <2>3 DEF WalkFails, Walked, LinksTypes
        <3> QED BY <2>3, <3>1 DEF WalkFails, Over
    <2>4. ASSUME NEW p \in Parts, Fetch(w, p) PROVE WalkInv'
        BY <2>4 DEF Fetch, Due, LinksTypes, Listed, Parts
    <2> QED BY <1>7, <2>1, <2>2, <2>3, <2>4 DEF Walking
<1>8. ASSUME NEW w \in Walkers, NEW p \in Parts, FetchFails(w, p) PROVE WalkInv'
    BY <1>8 DEF FetchFails, Due, LinksTypes, Failed, Listed, Parts
<1>9. CASE UNCHANGED vars BY <1>9 DEF vars
<1> QED BY <1>1, <1>2, <1>3, <1>4, <1>5, <1>6, <1>7, <1>8, <1>9 DEF Next

\* Only a walk that stores changes the snapshot.
LEMMA SnapshotStep ==
    ASSUME LinksTypes, WalkInv, [Next]_vars
    PROVE  \A p \in Listed : items[p] = Failed \/ items'[p] = Failed \/ items'[p] >= items[p]
<1> SUFFICES ASSUME NEW p \in Listed
             PROVE  items[p] = Failed \/ items'[p] = Failed \/ items'[p] >= items[p]
    OBVIOUS
<1>1. CASE \E w \in Walkers : Store(w)
    <2>1. PICK w \in Walkers : Store(w) BY <1>1
    <2>2. items'[p] = got[w][p] /\ (got[w][p] # Failed => items[p] <= got[w][p])
        BY <2>1, StoreIsNewer
    <2> QED BY <2>2 DEF LinksTypes, Version, Unread, Failed, Listed, Parts
<1>2. CASE \A w \in Walkers : ~Store(w)
    <2>1. UNCHANGED items
        BY <1>2 DEF Next, vars, snapshot, LibraryChanges, Ages, Visit, BehindVisit, Tick,
            ColdRequest, Walking, Begin, WalkFails, Fetch, FetchFails
    <2> QED BY <2>1 DEF LinksTypes, Version, Unread, Failed
<1> QED BY <1>1, <1>2

\* For any series and any requests, visits and failures: a snapshot is never
\* replaced by what an earlier walk read.
LEMMA LinksNeverGoBack == Spec => NeverGoesBack
<1>1. Init => LinksTypes /\ WalkInv BY InitWalk
<1>2. LinksTypes /\ WalkInv /\ [Next]_vars => (LinksTypes /\ WalkInv)' BY LinksTypesStep, WalkStep
<1>3. LinksTypes /\ WalkInv /\ [Next]_vars =>
         [\A p \in Listed : items[p] = Failed \/ items'[p] = Failed \/ items'[p] >= items[p]]_vars
    BY SnapshotStep
<1> QED BY <1>1, <1>2, <1>3, PTL DEF Spec, NeverGoesBack
-----------------------------------------------------------------------------
(***************************************************************************)
(* WatchNext.  GatewayIsCurrent says nothing while a push is under way.    *)
(* PushInv says what carries it through: every body that left was the log  *)
(* at its time, told apart by how many entries had been recorded, and the  *)
(* newest is waiting for the lock, on its way, or there.                   *)
(***************************************************************************)
\* A body written when this many entries had been recorded.
WindowAt(b) == b.events \in Nat /\ b.events <= events /\ (b.events = events => b = W!Window)

Newest == \E b \in flying \cup {gateway} : b.events = events

PushInv ==
    /\ events \in Nat /\ pushes \in Nat /\ watchFailures \in Nat
    /\ overtaken \in BOOLEAN
    /\ \A b \in flying \cup {gateway} : WindowAt(b)
    /\ pushes = 0 /\ watchFailures = 0 /\ ~overtaken => Newest

pushed == <<W!log, W!push, watchFailures>>
LEMMA InitPush == W!Init => PushInv
<1> SUFFICES ASSUME W!Init PROVE PushInv
    OBVIOUS
<1>1. events = 0 /\ pushes = 1 /\ watchFailures = 0 /\ overtaken = FALSE /\ flying = {}
    BY DEF W!Init
<1>2. gateway = [events |-> 0, actions |-> <<>>, errors |-> <<>>] /\ actions = <<>> /\ errors = <<>>
    BY DEF W!Init
<1>3. gateway.events = 0 /\ gateway = W!Window
    BY <1>1, <1>2 DEF W!Window
<1>4. WindowAt(gateway) BY <1>1, <1>3 DEF WindowAt
<1>5. pushes # 0 /\ pushes \in Nat BY <1>1
<1>6. \A b \in flying \cup {gateway} : WindowAt(b) BY <1>1, <1>4
<1> QED BY <1>1, <1>5, <1>6 DEF PushInv

\* A step of a hook that records nothing.
LEMMA UnpushedStep == ASSUME PushInv, UNCHANGED pushed PROVE PushInv'
BY DEF PushInv, WindowAt, Newest, W!Window, pushed, W!log, W!push

\* A step that records nothing and fails a call.
LEMMA FailedStep == ASSUME PushInv, W!Fail, UNCHANGED <<W!log, W!push>> PROVE PushInv'
BY DEF PushInv, WindowAt, Newest, W!Window, W!log, W!push, W!Fail

\* A record is one more entry, and a push that is not at the lock yet.
LEMMA RecordStep ==
    ASSUME PushInv, watchFailures' \in Nat, events' = events + 1, pushes' = pushes + 1,
           UNCHANGED <<flying, gateway, overtaken>>
    PROVE  PushInv'
BY DEF PushInv, WindowAt

LEMMA HookStep ==
    ASSUME PushInv, NEW s \in W!Sources,
           \/ W!Declined(s) \/ (\E w \in Watches : W!Hook(s, w))
           \/ W!LookupSeries(s) \/ W!ListEpisodes(s) \/ W!CallFails(s)
           \/ W!Turn(s) \/ W!TurnFails(s) \/ W!LoopEnds(s) \/ W!Search(s) \/ W!Answer(s)
    PROVE  PushInv'
<1> USE DEF pushed, W!log, W!push
<1> watchFailures \in Nat BY DEF PushInv
<1>1. CASE W!Declined(s) BY <1>1, RecordStep DEF W!Declined, W!RecordError
<1>2. CASE \E w \in Watches : W!Hook(s, w) BY <1>2, UnpushedStep DEF W!Hook
<1>3. CASE W!LookupSeries(s) BY <1>3, UnpushedStep DEF W!LookupSeries
<1>4. CASE W!ListEpisodes(s)
    <2>1. CASE W!Ends(s) /\ UNCHANGED watchFailures BY <2>1, RecordStep DEF W!Ends, W!RecordError
    <2>2. CASE UNCHANGED <<W!log, W!push, watchFailures>> BY <2>2, UnpushedStep
    <2> QED BY <1>4, <2>1, <2>2 DEF W!ListEpisodes
<1>5. CASE W!CallFails(s) BY <1>5, RecordStep DEF W!CallFails, W!Fail, W!Ends, W!RecordError
<1>6. CASE W!Turn(s) BY <1>6, UnpushedStep DEF W!Turn
<1>7. CASE W!TurnFails(s) BY <1>7, FailedStep DEF W!TurnFails
<1>8. CASE W!LoopEnds(s)
    <2>1. CASE W!RecordAction(s) /\ UNCHANGED watchFailures BY <2>1, RecordStep DEF W!RecordAction
    <2>2. CASE UNCHANGED <<W!log, W!push, watchFailures>> BY <2>2, UnpushedStep
    <2> QED BY <1>8, <2>1, <2>2 DEF W!LoopEnds
<1>9. CASE W!Search(s) BY <1>9, RecordStep DEF W!Search, W!RecordAction
<1>10. CASE W!Answer(s) BY <1>10, UnpushedStep DEF W!Answer
<1> QED BY <1>1, <1>2, <1>3, <1>4, <1>5, <1>6, <1>7, <1>8, <1>9, <1>10

\* The last push at the lock takes the log as it is.
LEMMA PushReadsStep == ASSUME PushInv, W!PushReads PROVE PushInv'
<1> USE DEF PushInv, W!PushReads, W!log
<1>1. W!Window.events = events /\ UNCHANGED W!Window BY DEF W!Window
<1>2. ASSUME NEW b \in flying' \cup {gateway'} PROVE WindowAt(b)'
    BY <1>1, <1>2 DEF WindowAt
<1>3. Newest' BY <1>1 DEF Newest
<1> QED BY <1>2, <1>3

\* A body that lands and was not overtaken is as new as what it replaces.
LEMMA PushLandsStep == ASSUME PushInv, NEW b \in flying, W!PushLands(b) PROVE PushInv'
<1> USE DEF PushInv, W!PushLands, W!log
<1>0. UNCHANGED <<actions, errors, events>> OBVIOUS
<1>1. UNCHANGED W!Window BY <1>0 DEF W!Window
<1>2. \A c \in flying' \cup {gateway'} : WindowAt(c)' BY <1>1 DEF WindowAt
<1>3. ASSUME pushes' = 0, watchFailures' = 0, ~overtaken' PROVE Newest'
    <2>1. PICK c \in flying \cup {gateway} : c.events = events BY <1>3 DEF Newest
    <2>2. b.events >= gateway.events
        <3>1. ~(b.events < gateway.events) BY <1>3
        <3>2. b.events \in Nat /\ gateway.events \in Nat BY DEF WindowAt
        <3> QED BY <3>1, <3>2
    <2>3. CASE c = gateway
        <3>1. b.events = events BY <2>1, <2>2, <2>3 DEF WindowAt
        <3> QED BY <3>1 DEF Newest
    <2>4. CASE c \in flying BY <2>1, <2>4 DEF Newest
    <2> QED BY <2>1, <2>3, <2>4
<1> QED BY <1>2, <1>3

LEMMA PushStep == PushInv /\ [W!Next]_(W!vars) => PushInv'
<1> SUFFICES ASSUME PushInv, [W!Next]_(W!vars) PROVE PushInv'
    OBVIOUS
<1>1. ASSUME NEW id \in W!Ids, W!Import(id) PROVE PushInv'
    BY <1>1, UnpushedStep DEF W!Import, pushed
<1>2. CASE W!PushReads BY <1>2, PushReadsStep
<1>3. ASSUME NEW b \in flying, W!PushLands(b) PROVE PushInv' BY <1>3, PushLandsStep
<1>4. ASSUME NEW b \in flying, W!PushFails(b) PROVE PushInv'
    BY <1>4 DEF W!PushFails, PushInv, W!Fail, WindowAt, W!Window, W!log
<1>5. CASE UNCHANGED W!vars BY <1>5, UnpushedStep DEF W!vars, pushed
<1> QED BY <1>1, <1>2, <1>3, <1>4, <1>5, HookStep DEF W!Next

\* For any hooks, interleaved in any way: when no push is under way, none failed
\* and none was overtaken, Pushgateway shows the log as it is.
LEMMA WatchNextGateway == W!Spec => []W!GatewayIsCurrent
<1>1. PushInv => W!GatewayIsCurrent
    BY DEF PushInv, W!GatewayIsCurrent, Newest, WindowAt
<1> QED BY <1>1, InitPush, PushStep, PTL DEF W!Spec
-----------------------------------------------------------------------------
(***************************************************************************)
(* WatchNext, the episodes.  NextAreFetched counts them from the episodes  *)
(* alone; a hook goes through a run of them it sorted and a margin it      *)
(* counts in places.  RunIs and AfterIs bring the two together, and        *)
(* FetchInv follows the loop: what it has gone by is monitored, and there  *)
(* or to be searched, but for the calls that failed.                       *)
(***************************************************************************)
Numbers == Cardinality(W!Numbered)

LEMMA WatchCardinality == ASSUME NEW S PROVE W!Cardinality(S) = Cardinality(S)
BY Zenon DEF W!Cardinality, Cardinality

\* The run has every episode but the specials, each once, in the order of its numbers.
LEMMA RunIs ==
    /\ Numbers \in Nat /\ W!Run \in [1 .. Numbers -> W!Numbered]
    /\ \A j, k \in 1 .. Numbers : j < k => W!Before(W!Run[j], W!Run[k])
    /\ \A j, k \in 1 .. Numbers : W!Run[j] = W!Run[k] => j = k
    /\ \A e \in W!Numbered : \E k \in 1 .. Numbers : W!Run[k] = e
<1> DEFINE R == {p \in W!Ids \X W!Ids : W!Before(p[1], p[2])}
<1>1. \A e \in W!Ids : Episodes[e].season \in Nat /\ Episodes[e].number \in Nat
    BY WatchNextAssumption DEF W!Ids
<1>2. ASSUME NEW e \in W!Ids, NEW f \in W!Ids, e # f PROVE W!Before(e, f) \/ W!Before(f, e)
  <2>1. Episodes[e] # Episodes[f] BY <1>2, WatchNextAssumption DEF W!Ids
  <2>2. Episodes[e].season # Episodes[f].season \/ Episodes[e].number # Episodes[f].number
      BY <2>1, WatchNextAssumption DEF W!Ids
  <2> QED BY <1>1, <2>2 DEF W!Before
<1>3. \A e, f \in W!Ids : <<e, f>> \in R <=> W!Before(e, f) OBVIOUS
<1> HIDE DEF R
<1>4. Orders(R, W!Ids) BY <1>1, <1>2, <1>3 DEF Orders, W!Before
<1>5. W!Numbered \in SUBSET W!Ids /\ IsFiniteSet(W!Numbered)
  <2>1. W!Numbered \in SUBSET W!Ids BY DEF W!Numbered
  <2>2. IsFiniteSet(W!Ids) BY WatchNextAssumption DEF W!Ids
  <2> QED BY <2>1, <2>2, FS_Subset
<1>6. PICK f : Sorted(f, Numbers, W!Numbered, R) BY <1>4, <1>5, OrderExists DEF Numbers
<1>7. f \in [1 .. Numbers -> W!Numbered] /\ \A j, k \in 1 .. Numbers : j < k => W!Before(f[j], f[k])
    BY <1>3, <1>5, <1>6 DEF Sorted
<1>8. /\ W!Run \in [1 .. Numbers -> W!Numbered]
      /\ \A j, k \in 1 .. Numbers : j < k => W!Before(W!Run[j], W!Run[k])
  <2> DEFINE InOrder(g) == \A j, k \in DOMAIN g : j < k => W!Before(g[j], g[k])
  <2>1. \E g \in [1 .. Numbers -> W!Numbered] : InOrder(g) BY <1>7
  <2>2. W!Run = CHOOSE g \in [1 .. Numbers -> W!Numbered] : InOrder(g)
      BY WatchCardinality, Zenon DEF W!Run, Numbers
  <2> HIDE DEF InOrder
  <2>3. W!Run \in [1 .. Numbers -> W!Numbered] /\ InOrder(W!Run) BY <2>1, <2>2
  <2> QED BY <2>3 DEF InOrder
<1>9. Sorted(W!Run, Numbers, W!Numbered, R) BY <1>3, <1>5, <1>8 DEF Sorted
<1>10. Numbers \in Nat BY <1>5, FS_CardinalityType DEF Numbers
<1> QED BY <1>4, <1>5, <1>8, <1>9, <1>10, SortedHasAll DEF Numbers

\* The episodes of the margin are the next ones of the run.
LEMMA AfterIs ==
    ASSUME NEW q \in 1 .. Numbers, NEW e \in W!After(Episodes[W!Run[q]])
    PROVE  \E k \in 1 .. Numbers : q < k /\ k <= q + Margin /\ W!Run[k] = e
<1> DEFINE w == Episodes[W!Run[q]]
<1> DEFINE later == {d \in W!Ids : /\ Episodes[d].season >= 1
                                   /\ \/ Episodes[d].season > w.season
                                      \/ Episodes[d].season = w.season /\ Episodes[d].number > w.number}
<1> DEFINE between == {f \in later : \/ Episodes[f].season < Episodes[e].season
                                     \/ /\ Episodes[f].season = Episodes[e].season
                                        /\ Episodes[f].number <= Episodes[e].number}
<1>1. e \in later /\ Cardinality(between) <= Margin BY WatchCardinality DEF W!After
<1>2. \A d \in W!Ids : Episodes[d].season \in Nat /\ Episodes[d].number \in Nat
    BY WatchNextAssumption DEF W!Ids
<1>3. \A d \in W!Numbered : d \in W!Ids /\ Episodes[d].season >= 1 BY DEF W!Numbered
<1>4. e \in W!Numbered BY <1>1 DEF W!Numbered
<1>5. PICK k \in 1 .. Numbers : W!Run[k] = e BY <1>4, RunIs
<1>6. Numbers \in Nat /\ W!Run[q] \in W!Numbered /\ q \in Nat /\ k \in Nat BY RunIs
<1>7. ~W!Before(e, W!Run[q]) /\ e # W!Run[q] BY <1>1, <1>2, <1>3, <1>4, <1>6 DEF W!Before
<1>8. q < k BY <1>5, <1>6, <1>7, RunIs
<1> DEFINE T == {W!Run[j] : j \in q + 1 .. k}
<1>9. \A j \in q + 1 .. k : j \in 1 .. Numbers /\ q < j /\ (j < k \/ j = k) BY <1>6
<1>10. T \subseteq between
  <2> SUFFICES ASSUME NEW j \in q + 1 .. k PROVE W!Run[j] \in between
      OBVIOUS
  <2>1. W!Run[j] \in W!Numbered /\ W!Before(W!Run[q], W!Run[j]) BY <1>9, RunIs
  <2>2. W!Run[j] = e \/ W!Before(W!Run[j], e) BY <1>5, <1>9, RunIs
  <2>3. W!Run[j] \in later BY <1>2, <1>3, <1>6, <2>1 DEF W!Before
  <2> HIDE DEF later
  <2> QED BY <1>2, <1>3, <1>4, <2>1, <2>2, <2>3 DEF W!Before
<1>11. IsFiniteSet(between)
  <2>1. between \in SUBSET W!Ids OBVIOUS
  <2>2. IsFiniteSet(W!Ids) BY WatchNextAssumption DEF W!Ids
  <2> QED BY <2>1, <2>2, FS_Subset
<1> HIDE DEF between, later, w
<1>12. Cardinality(T) = k - q
  <2> DEFINE f == [j \in q + 1 .. k |-> W!Run[j]]
  <2>1. \A j, l \in q + 1 .. k : f[j] = f[l] => j = l BY <1>9, RunIs
  <2>2. f \in [q + 1 .. k -> T] /\ \A x \in T : \E j \in q + 1 .. k : f[j] = x OBVIOUS
  <2> HIDE DEF f, T
  <2>3. f \in Bijection(q + 1 .. k, T)
      BY <2>1, <2>2 DEF Bijection, Injection, Surjection, IsInjective
  <2>4. IsFiniteSet(q + 1 .. k) /\ Cardinality(q + 1 .. k) = k - q
    <3>1. q + 1 \in Int /\ k \in Int /\ ~(q + 1 > k) /\ k - (q + 1) + 1 = k - q BY <1>6, <1>8
    <3> QED BY <3>1, FS_Interval
  <2> QED BY <2>3, <2>4, FS_Bijection DEF ExistsBijection
<1>13. Cardinality(T) <= Cardinality(between) BY <1>10, <1>11, FS_Subset
<1>14. k - q <= Margin
  <2>1. Cardinality(between) \in Nat BY <1>11, FS_CardinalityType
  <2> QED BY <1>1, <1>6, <1>12, <1>13, <2>1, WatchNextAssumption
<1>15. k <= q + Margin BY <1>6, <1>14, WatchNextAssumption
<1> QED BY <1>5, <1>8, <1>15

Reading == [id : W!Numbered, monitored : BOOLEAN, hasFile : BOOLEAN]

\* What the hook read of the series: the run, and of each episode no more than is true.
ReadsRun(s) ==
    /\ real[s] \in Seq(Reading) /\ Len(real[s]) = Numbers
    /\ \A k \in 1 .. Numbers :
          /\ real[s][k].id = W!Run[k]
          /\ real[s][k].monitored => W!Run[k] \in monitored
          /\ real[s][k].hasFile => W!Run[k] \in hasFile

Caught(s, k) ==
    \/ W!Run[k] \in missed[s]
    \/ W!Run[k] \in monitored /\ W!Run[k] \in toSearch[s] \cup hasFile

\* The hook is about the episode in place q, and what it has gone by is caught.
Fetching(s, q) ==
    /\ ReadsRun(s)
    /\ Episodes[W!Run[q]] = watched[s]
    /\ i[s] \in Nat /\ i[s] > q
    /\ \A k \in 1 .. Numbers : q < k /\ k < i[s] => Caught(s, k)
    /\ hookPc[s] \in {"search", "done"} => i[s] > Numbers \/ i[s] > q + Margin
    /\ hookPc[s] = "done" => toSearch[s] \subseteq searched

Fetches(s) == \E q \in 1 .. Numbers : Fetching(s, q)

Fetched == {"loop", "search", "done"}

HookTypes ==
    /\ DOMAIN hookPc = W!Sources /\ DOMAIN watched = W!Sources /\ DOMAIN real = W!Sources
    /\ DOMAIN i = W!Sources /\ DOMAIN toSearch = W!Sources /\ DOMAIN missed = W!Sources

FetchInv == HookTypes /\ \A s \in W!Sources : hookPc[s] \in Fetched => Fetches(s)

LEMMA InitFetch == W!Init => FetchInv
BY DEF W!Init, FetchInv, HookTypes, Fetched

\* What stands of a hook, and what only grows, while others take their steps.
Stands(s) ==
    /\ hookPc'[s] = hookPc[s] /\ watched'[s] = watched[s] /\ real'[s] = real[s]
    /\ i'[s] = i[s] /\ toSearch'[s] = toSearch[s] /\ missed'[s] = missed[s]
Grows == monitored \subseteq monitored' /\ hasFile \subseteq hasFile' /\ searched \subseteq searched'

LEMMA StandingFetches ==
    ASSUME NEW s \in W!Sources, Fetches(s), Stands(s), Grows
    PROVE  Fetches(s)'
<1>1. PICK q \in 1 .. Numbers : Fetching(s, q) BY DEF Fetches
<1>2. ReadsRun(s)' BY <1>1 DEF Fetching, ReadsRun, Stands, Grows
<1>3. \A k \in 1 .. Numbers : Caught(s, k) => Caught(s, k)' BY DEF Caught, Stands, Grows
<1>4. Fetching(s, q)'
    BY <1>1, <1>2, <1>3 DEF Fetching, Stands, Grows
<1> QED BY <1>4 DEF Fetches

\* A step of one hook: the others stand.
LEMMA OneFetches ==
    ASSUME FetchInv, HookTypes', Grows, NEW t \in W!Sources,
           \A s \in W!Sources \ {t} : Stands(s),
           hookPc'[t] \in Fetched => Fetches(t)'
    PROVE  FetchInv'
<1>1. ASSUME NEW s \in W!Sources, hookPc'[s] \in Fetched PROVE Fetches(s)'
  <2>1. CASE s = t BY <1>1, <2>1
  <2>2. CASE s # t
    <3>1. Stands(s) BY <2>2
    <3>2. Fetches(s) BY <1>1, <3>1 DEF FetchInv, Stands
    <3> QED BY <3>1, <3>2, StandingFetches
  <2> QED BY <2>1, <2>2
<1> QED BY <1>1 DEF FetchInv

\* A hook that is over claims nothing.
LEMMA ReturnFetches ==
    ASSUME FetchInv, NEW t \in W!Sources, W!Return(t), UNCHANGED W!sonarr
    PROVE  FetchInv'
<1> USE DEF FetchInv, HookTypes
<1>1. HookTypes' BY DEF W!Return
<1>2. \A s \in W!Sources \ {t} : Stands(s) BY DEF W!Return, Stands
<1>3. Grows BY DEF Grows, W!sonarr
<1>4. hookPc'[t] \notin Fetched BY DEF W!Return, Fetched
<1> QED BY <1>1, <1>2, <1>3, <1>4, OneFetches

LEMMA HookFetches ==
    ASSUME FetchInv, NEW t \in W!Sources, NEW w \in Watches, W!Hook(t, w)
    PROVE  FetchInv'
<1> USE DEF FetchInv, HookTypes
<1>1. HookTypes' BY DEF W!Hook
<1>2. \A s \in W!Sources \ {t} : Stands(s) BY DEF W!Hook, Stands
<1>3. Grows BY DEF Grows, W!Hook, W!sonarr
<1>4. hookPc'[t] \notin Fetched BY DEF W!Hook, Fetched
<1> QED BY <1>1, <1>2, <1>3, <1>4, OneFetches

LEMMA LookupFetches ==
    ASSUME FetchInv, NEW t \in W!Sources, W!LookupSeries(t)
    PROVE  FetchInv'
<1> USE DEF FetchInv, HookTypes
<1>1. HookTypes' BY DEF W!LookupSeries
<1>2. \A s \in W!Sources \ {t} : Stands(s) BY DEF W!LookupSeries, Stands
<1>3. Grows BY DEF Grows, W!LookupSeries, W!sonarr
<1>4. hookPc'[t] \notin Fetched BY DEF W!LookupSeries, Fetched
<1> QED BY <1>1, <1>2, <1>3, <1>4, OneFetches

\* What a record of this shape has under its names.
LEMMA ReadingFields ==
    ASSUME NEW e, NEW m, NEW h, NEW r, r = [id |-> e, monitored |-> m, hasFile |-> h]
    PROVE  r.id = e /\ r.monitored = m /\ r.hasFile = h
OBVIOUS

\* The series is read whole at once: nothing is gone by yet.
LEMMA ListFetches ==
    ASSUME FetchInv, NEW t \in W!Sources, W!ListEpisodes(t)
    PROVE  FetchInv'
<1>1. CASE W!Place(watched[t]) = {}
  <2>1. W!Return(t) /\ UNCHANGED W!sonarr BY <1>1 DEF W!ListEpisodes, W!Ends
  <2> QED BY <2>1, ReturnFetches
<1>2. CASE W!Place(watched[t]) # {}
  <2>1. PICK q \in W!Place(watched[t]) : q = CHOOSE k \in W!Place(watched[t]) : TRUE
      BY <1>2
  <2>2. /\ real' = [real EXCEPT ![t] = W!Flat] /\ i' = [i EXCEPT ![t] = q + 1]
        /\ hookPc' = [hookPc EXCEPT ![t] = "loop"]
        /\ UNCHANGED <<W!sonarr, watched, toSearch, missed>>
      BY <1>2, <2>1 DEF W!ListEpisodes
  <2>3. HookTypes' BY <2>2 DEF FetchInv, HookTypes
  <2>4. \A s \in W!Sources \ {t} : Stands(s) BY <2>2 DEF FetchInv, HookTypes, Stands
  <2>5. Grows BY <2>2 DEF Grows, W!sonarr
  <2>6. DOMAIN W!Run = 1 .. Numbers /\ Numbers \in Nat BY RunIs
  <2>7. ASSUME NEW k \in 1 .. Numbers
         PROVE  W!Flat[k] = [id |-> W!Run[k], monitored |-> W!Run[k] \in monitored,
                             hasFile |-> W!Run[k] \in hasFile]
      BY <2>6 DEF W!Flat
  <2>8. \A k \in 1 .. Numbers : /\ W!Flat[k].id = W!Run[k]
                                /\ W!Flat[k].monitored = (W!Run[k] \in monitored)
                                /\ W!Flat[k].hasFile = (W!Run[k] \in hasFile)
    <3> SUFFICES ASSUME NEW k \in 1 .. Numbers
                 PROVE  /\ W!Flat[k].id = W!Run[k]
                        /\ W!Flat[k].monitored = (W!Run[k] \in monitored)
                        /\ W!Flat[k].hasFile = (W!Run[k] \in hasFile)
        OBVIOUS
    <3> DEFINE r == W!Flat[k]
    <3> DEFINE e == W!Run[k]
    <3> DEFINE m == W!Run[k] \in monitored
    <3> DEFINE h == W!Run[k] \in hasFile
    <3>1. r = [id |-> e, monitored |-> m, hasFile |-> h] BY <2>7
    <3> HIDE DEF r, e, m, h
    <3>2. r.id = e /\ r.monitored = m /\ r.hasFile = h BY <3>1, ReadingFields, Zenon
    <3> QED BY <3>2, Zenon DEF r, e, m, h
  <2>9. q \in 1 .. Numbers /\ Episodes[W!Run[q]] = watched[t] /\ q \in Nat
    <3>1. DOMAIN W!Flat = 1 .. Numbers BY <2>6 DEF W!Flat
    <3>2. q \in 1 .. Numbers /\ Episodes[W!Flat[q].id] = watched[t] BY <3>1 DEF W!Place
    <3> QED BY <2>6, <2>8, <3>2
  <2>10. real'[t] = W!Flat /\ i'[t] = q + 1 /\ watched'[t] = watched[t] /\ hookPc'[t] = "loop"
      BY <2>2 DEF FetchInv, HookTypes
  <2>11. W!Flat \in Seq(Reading) /\ Len(W!Flat) = Numbers
    <3>1. \A k \in 1 .. Numbers : W!Flat[k] \in Reading BY <2>6, RunIs DEF W!Flat, Reading
    <3>2. DOMAIN W!Flat = 1 .. Numbers /\ W!Flat = [k \in 1 .. Numbers |-> W!Flat[k]]
        BY <2>6 DEF W!Flat
    <3> QED BY <2>6, <3>1, <3>2, TableIsList
  <2>12. monitored' = monitored /\ hasFile' = hasFile BY <2>2 DEF W!sonarr
  <2>13. ReadsRun(t)'
      BY <2>8, <2>10, <2>11, <2>12 DEF ReadsRun
  <2>14. Fetching(t, q)' BY <2>6, <2>9, <2>10, <2>13 DEF Fetching
  <2>15. Fetches(t)' BY <2>9, <2>14 DEF Fetches
  <2> QED BY <2>3, <2>4, <2>5, <2>15, OneFetches
<1> QED BY <1>1, <1>2

\* The place a hook started from is found again.
LEMMA StartIs ==
    ASSUME NEW s \in W!Sources, NEW q \in 1 .. Numbers, Fetching(s, q)
    PROVE  W!Start(s) = q
<1>1. DOMAIN real[s] = 1 .. Numbers /\ \A k \in 1 .. Numbers : real[s][k].id = W!Run[k]
    BY DEF Fetching, ReadsRun
<1>2. \A k \in 1 .. Numbers : Episodes[W!Run[k]] = watched[s] => k = q
  <2> SUFFICES ASSUME NEW k \in 1 .. Numbers, Episodes[W!Run[k]] = Episodes[W!Run[q]]
               PROVE  k = q
      BY DEF Fetching
  <2>1. W!Run[k] \in DOMAIN Episodes /\ W!Run[q] \in DOMAIN Episodes
      BY RunIs DEF W!Numbered, W!Ids
  <2>2. W!Run[k] = W!Run[q] BY <2>1, WatchNextAssumption
  <2> QED BY <2>2, RunIs
<1>3. Episodes[real[s][q].id] = watched[s] BY <1>1 DEF Fetching
<1> QED BY <1>1, <1>2, <1>3 DEF W!Start

\* The turn catches the episode, whatever it had been read as.
LEMMA TurnFetches ==
    ASSUME FetchInv, NEW t \in W!Sources, W!Turn(t) \/ W!TurnFails(t)
    PROVE  FetchInv'
<1>1. hookPc[t] = "loop" /\ W!InMargin(t) BY DEF W!Turn, W!TurnFails
<1>2. PICK q \in 1 .. Numbers : Fetching(t, q) BY <1>1 DEF FetchInv, Fetches, Fetched
<1>3. PICK n \in 1 .. Numbers : n = i[t] /\ Numbers \in Nat /\ n \in Nat /\ q \in Nat /\ n > q
  <2>1. i[t] \in Nat /\ i[t] > q /\ i[t] <= Numbers
      BY <1>1, <1>2 DEF Fetching, ReadsRun, W!InMargin
  <2> QED BY <2>1, RunIs
<1>4. W!This(t) = real[t][n] /\ W!This(t).id = W!Run[n] /\ W!This(t) \in Reading
    BY <1>2, <1>3 DEF Fetching, ReadsRun, W!This
<1>5. /\ hookPc' = hookPc /\ watched' = watched /\ real' = real
      /\ i' = [i EXCEPT ![t] = n + 1]
      /\ hasFile' = hasFile /\ searched' = searched
    BY <1>3 DEF W!Turn, W!TurnFails, W!sonarr
<1>6. \/ /\ monitored' = monitored \cup {W!Run[n]} /\ missed' = missed
         /\ toSearch' = [toSearch EXCEPT ![t] = toSearch[t] \cup
                            (IF W!This(t).hasFile THEN {} ELSE {W!Run[n]})]
      \/ /\ monitored' = monitored /\ toSearch' = toSearch
         /\ missed' = [missed EXCEPT ![t] = missed[t] \cup {W!Run[n]}]
    BY <1>4 DEF W!Turn, W!TurnFails, W!sonarr
<1>7. HookTypes'
    BY <1>5, <1>6 DEF FetchInv, HookTypes
<1>8. \A s \in W!Sources \ {t} : Stands(s)
    BY <1>5, <1>6 DEF FetchInv, HookTypes, Stands
<1>9. Grows BY <1>5, <1>6 DEF Grows
<1>10. i'[t] = n + 1 /\ toSearch[t] \subseteq toSearch'[t] /\ missed[t] \subseteq missed'[t]
    BY <1>5, <1>6 DEF FetchInv, HookTypes
<1>11. ReadsRun(t)' BY <1>2, <1>5, <1>9 DEF Fetching, ReadsRun, Grows
<1>12. \A k \in 1 .. Numbers : Caught(t, k) => Caught(t, k)'
    BY <1>9, <1>10 DEF Caught, Grows
<1>13. Caught(t, n)'
  <2>1. CASE W!Run[n] \in missed'[t] BY <2>1 DEF Caught
  <2>2. CASE /\ monitored' = monitored \cup {W!Run[n]}
             /\ toSearch' = [toSearch EXCEPT ![t] = toSearch[t] \cup
                                (IF W!This(t).hasFile THEN {} ELSE {W!Run[n]})]
    <3>1. W!This(t).hasFile => W!Run[n] \in hasFile'
        BY <1>2, <1>3, <1>4, <1>5 DEF Fetching, ReadsRun
    <3>2. ~W!This(t).hasFile => W!Run[n] \in toSearch'[t]
        BY <2>2 DEF FetchInv, HookTypes
    <3> QED BY <2>2, <3>1, <3>2 DEF Caught
  <2> QED BY <1>6, <2>1, <2>2 DEF FetchInv, HookTypes
<1>14. ASSUME NEW k \in 1 .. Numbers, q < k, k < i'[t] PROVE Caught(t, k)'
  <2>1. k < n \/ k = n BY <1>3, <1>10, <1>14
  <2>2. CASE k < n BY <1>2, <1>3, <1>12, <1>14, <2>2 DEF Fetching
  <2>3. CASE k = n BY <1>13, <2>3
  <2> QED BY <2>1, <2>2, <2>3
<1>15. Fetching(t, q)'
  <2>1. i'[t] \in Nat /\ i'[t] > q BY <1>3, <1>10
  <2>2. hookPc'[t] = "loop" /\ Episodes[W!Run[q]] = watched'[t] BY <1>1, <1>2, <1>5 DEF Fetching
  <2> QED BY <1>11, <1>14, <2>1, <2>2 DEF Fetching
<1>16. Fetches(t)' BY <1>15 DEF Fetches
<1> QED BY <1>7, <1>8, <1>9, <1>16, OneFetches

\* The loop ends at the end of the run or of the margin.
LEMMA EndFetches ==
    ASSUME FetchInv, NEW t \in W!Sources, W!LoopEnds(t)
    PROVE  FetchInv'
<1>1. hookPc[t] = "loop" /\ ~W!InMargin(t) BY DEF W!LoopEnds
<1>2. PICK q \in 1 .. Numbers : Fetching(t, q) BY <1>1 DEF FetchInv, Fetches, Fetched
<1>3. i[t] > Numbers \/ i[t] > q + Margin
  <2>1. ~(i[t] <= Numbers) \/ ~(i[t] <= q + Margin)
      BY <1>1, <1>2, StartIs DEF W!InMargin, Fetching, ReadsRun
  <2>2. i[t] \in Nat /\ Numbers \in Nat /\ q + Margin \in Nat
      BY <1>2, RunIs, WatchNextAssumption DEF Fetching
  <2> QED BY <2>1, <2>2
<1>4. /\ UNCHANGED <<monitored, hasFile, searched, watched, real, i, toSearch, missed>>
      /\ \/ hookPc' = [hookPc EXCEPT ![t] = "done"] /\ toSearch[t] = {}
         \/ hookPc' = [hookPc EXCEPT ![t] = "search"]
    BY DEF W!LoopEnds, W!sonarr
<1>5. HookTypes' BY <1>4 DEF FetchInv, HookTypes
<1>6. \A s \in W!Sources \ {t} : Stands(s) BY <1>4 DEF FetchInv, HookTypes, Stands
<1>7. Grows BY <1>4 DEF Grows
<1>8. hookPc'[t] = "search" \/ (hookPc'[t] = "done" /\ toSearch'[t] = {})
    BY <1>4 DEF FetchInv, HookTypes
<1>9. ReadsRun(t)' BY <1>2, <1>4 DEF Fetching, ReadsRun
<1>10. \A k \in 1 .. Numbers : Caught(t, k) => Caught(t, k)' BY <1>4 DEF Caught
<1>11. Fetching(t, q)' BY <1>2, <1>3, <1>4, <1>8, <1>9, <1>10 DEF Fetching
<1>12. Fetches(t)' BY <1>11 DEF Fetches
<1> QED BY <1>5, <1>6, <1>7, <1>12, OneFetches

LEMMA SearchFetches ==
    ASSUME FetchInv, NEW t \in W!Sources, W!Search(t)
    PROVE  FetchInv'
<1>1. /\ UNCHANGED <<monitored, hasFile, watched, real, i, toSearch, missed>>
      /\ searched' = searched \cup toSearch[t]
      /\ hookPc[t] = "search" /\ hookPc' = [hookPc EXCEPT ![t] = "done"]
    BY DEF W!Search
<1>2. PICK q \in 1 .. Numbers : Fetching(t, q) BY <1>1 DEF FetchInv, Fetches, Fetched
<1>3. HookTypes' BY <1>1 DEF FetchInv, HookTypes
<1>4. \A s \in W!Sources \ {t} : Stands(s) BY <1>1 DEF FetchInv, HookTypes, Stands
<1>5. Grows BY <1>1 DEF Grows
<1>6. ReadsRun(t)' BY <1>1, <1>2 DEF Fetching, ReadsRun
<1>7. \A k \in 1 .. Numbers : Caught(t, k) => Caught(t, k)' BY <1>1 DEF Caught
<1>8. Fetching(t, q)' BY <1>1, <1>2, <1>6, <1>7 DEF Fetching
<1>9. Fetches(t)' BY <1>8 DEF Fetches
<1> QED BY <1>3, <1>4, <1>5, <1>9, OneFetches

\* Steps that leave the hooks where they are: the log, the pushes, an import.
LEMMA ApartFetches ==
    ASSUME FetchInv, UNCHANGED W!hook, Grows
    PROVE  FetchInv'
<1>1. HookTypes' BY DEF FetchInv, HookTypes, W!hook
<1>2. \A s \in W!Sources : Stands(s) BY DEF Stands, W!hook
<1>3. \A s \in W!Sources : hookPc'[s] \in Fetched => Fetches(s)
    BY <1>2 DEF FetchInv, Stands
<1>4. \A s \in W!Sources : hookPc'[s] \in Fetched => Fetches(s)'
    BY <1>2, <1>3, StandingFetches
<1> QED BY <1>1, <1>4 DEF FetchInv

LEMMA FetchStep == FetchInv /\ [W!Next]_(W!vars) => FetchInv'
<1> SUFFICES ASSUME FetchInv, [W!Next]_(W!vars) PROVE FetchInv'
    OBVIOUS
<1>1. ASSUME NEW t \in W!Sources, W!Declined(t) PROVE FetchInv'
    BY <1>1, ApartFetches DEF W!Declined, Grows, W!sonarr
<1>2. ASSUME NEW t \in W!Sources, NEW w \in Watches, W!Hook(t, w) PROVE FetchInv'
    BY <1>2, HookFetches
<1>3. ASSUME NEW t \in W!Sources, W!CallFails(t) PROVE FetchInv'
    BY <1>3, ReturnFetches DEF W!CallFails, W!Ends
<1>4. ASSUME NEW t \in W!Sources, W!Answer(t) PROVE FetchInv'
    BY <1>4, ReturnFetches DEF W!Answer
<1>5. ASSUME NEW id \in W!Ids, W!Import(id) PROVE FetchInv'
    BY <1>5, ApartFetches DEF W!Import, Grows
<1>6. CASE W!PushReads \/ \E b \in flying : W!PushLands(b) \/ W!PushFails(b)
    BY <1>6, ApartFetches DEF W!PushReads, W!PushLands, W!PushFails, Grows, W!sonarr
<1>7. CASE UNCHANGED W!vars BY <1>7, ApartFetches DEF W!vars, Grows, W!sonarr
<1>8. ASSUME NEW t \in W!Sources,
             W!LookupSeries(t) \/ W!ListEpisodes(t) \/ W!Turn(t) \/ W!TurnFails(t)
               \/ W!LoopEnds(t) \/ W!Search(t)
      PROVE  FetchInv'
    BY <1>8, LookupFetches, ListFetches, TurnFetches, EndFetches, SearchFetches
<1> QED BY <1>1, <1>2, <1>3, <1>4, <1>5, <1>6, <1>7, <1>8, Zenon DEF W!Next

\* When a hook is done every episode of its margin was gone by.
LEMMA WatchNextFetches == W!Spec => []W!NextAreFetched
<1>1. FetchInv => W!NextAreFetched
  <2> SUFFICES ASSUME FetchInv, NEW s \in W!Sources, hookPc[s] = "done",
                      NEW e \in W!After(watched[s]) \ missed[s]
               PROVE  e \in monitored /\ e \in searched \cup hasFile
      BY DEF W!NextAreFetched
  <2>1. PICK q \in 1 .. Numbers : Fetching(s, q) BY DEF FetchInv, Fetches, Fetched
  <2>2. e \in W!After(Episodes[W!Run[q]]) BY <2>1 DEF Fetching
  <2>3. PICK k \in 1 .. Numbers : q < k /\ k <= q + Margin /\ W!Run[k] = e BY <2>2, AfterIs
  <2>4. k < i[s]
    <3>1. i[s] \in Nat /\ Numbers \in Nat /\ q + Margin \in Nat
        BY <2>1, RunIs, WatchNextAssumption DEF Fetching
    <3>2. i[s] > Numbers \/ i[s] > q + Margin BY <2>1 DEF Fetching
    <3> QED BY <2>3, <3>1, <3>2
  <2>5. Caught(s, k) /\ toSearch[s] \subseteq searched BY <2>1, <2>3, <2>4 DEF Fetching
  <2> QED BY <2>3, <2>5 DEF Caught
<1> QED BY <1>1, InitFetch, FetchStep, PTL DEF W!Spec
-----------------------------------------------------------------------------
(***************************************************************************)
(* SubtitleZip.  Each job comes from one track of one item: by FilterFrom, *)
(* ArrangedIs and JoinedFrom every loop that makes the jobs only moves,    *)
(* drops or lines up what it was given (Chosen), so the jobs are those of  *)
(* the tracks asked for, each once (JobsAre).  ZipInv follows the batches. *)
(***************************************************************************)
\* l is what s has of T, each place once, in some order.
ChosenAt(f, l, s, T) ==
    /\ f \in [1 .. Len(l) -> 1 .. Len(s)]
    /\ \A p \in 1 .. Len(l) : l[p] = s[f[p]]
    /\ \A p, q \in 1 .. Len(l) : f[p] = f[q] => p = q
    /\ \A j \in 1 .. Len(s) : s[j] \in T <=> \E p \in 1 .. Len(l) : f[p] = j
Chosen(l, s, T) == IsList(l) /\ \E f : ChosenAt(f, l, s, T)

LEMMA FilterChosen ==
    ASSUME NEW s, IsList(s), NEW T
    PROVE  Chosen(Filter(s, T), s, T)
<1>1. s \in Seq(Range(s)) BY DEF IsList
<1>2. Filter(s, T) \in Seq(Range(s)) BY <1>1, FilterType
<1>3. IsList(Filter(s, T)) BY <1>2, ListOf
<1>4. PICK from : PlacesOf(from, Filter(s, T), s, Len(s), T) BY <1>1, FilterFrom
<1>5. Len(Filter(s, T)) \in Nat /\ Len(s) \in Nat BY <1>1, <1>2
<1>6. ASSUME NEW p \in 1 .. Len(Filter(s, T)), NEW q \in 1 .. Len(Filter(s, T)), from[p] = from[q]
      PROVE  p = q
  <2>1. from[p] \in Nat /\ from[q] \in Nat BY <1>4, <1>5 DEF PlacesOf
  <2>2. p < q => from[p] < from[q] BY <1>4 DEF PlacesOf
  <2>3. q < p => from[q] < from[p] BY <1>4 DEF PlacesOf
  <2> QED BY <1>5, <1>6, <2>1, <2>2, <2>3
<1>7. ChosenAt(from, Filter(s, T), s, T) BY <1>4, <1>6 DEF PlacesOf, ChosenAt
<1> QED BY <1>3, <1>7 DEF Chosen

\* a has the elements of s, each place once.
Shuffled(a, s) ==
    /\ IsList(a) /\ Len(a) = Len(s)
    /\ \E f \in [1 .. Len(s) -> 1 .. Len(s)] :
          /\ \A k \in 1 .. Len(s) : a[k] = s[f[k]]
          /\ \A j, k \in 1 .. Len(s) : f[j] = f[k] => j = k
          /\ \A j \in 1 .. Len(s) : \E k \in 1 .. Len(s) : f[k] = j

\* sort.Slice loses nothing.
LEMMA ArrangedIs ==
    ASSUME NEW s, IsList(s), NEW key \in [1 .. Len(s) -> Nat \X Nat]
    PROVE  Shuffled(Z!Arranged(s, key), s)
<1> DEFINE n == Len(s)
<1> DEFINE P == 1 .. n
<1> DEFINE R == {p \in P \X P : Z!Before(key, p[1], p[2])}
<1>1. n \in Nat BY ListIs
<1>2. \A a \in P : key[a][1] \in Nat /\ key[a][2] \in Nat /\ a \in Nat BY <1>1
<1>3. \A a, b \in P : <<a, b>> \in R <=> Z!Before(key, a, b) OBVIOUS
<1> HIDE DEF n
<1>4. IsFiniteSet(P) /\ Cardinality(P) = n
  <2>1. IsFiniteSet(1 .. n) /\ Cardinality(1 .. n) = IF 1 > n THEN 0 ELSE n - 1 + 1
      BY <1>1, FS_Interval
  <2> QED BY <1>1, <2>1
<1> HIDE DEF P, R
<1>5. Orders(R, P)
  <2>1. ASSUME NEW x \in P, NEW y \in P, NEW z \in P, <<x, y>> \in R, <<y, z>> \in R
        PROVE  <<x, z>> \in R
    <3>1. Z!Before(key, x, y) /\ Z!Before(key, y, z) BY <1>3, <2>1
    <3>2. Z!Before(key, x, z) BY <1>2, <3>1, SMTT(30) DEF Z!Before
    <3> QED BY <1>3, <3>2
  <2>2. ASSUME NEW x \in P, NEW y \in P, x # y PROVE <<x, y>> \in R \/ <<y, x>> \in R
    <3>1. Z!Before(key, x, y) \/ Z!Before(key, y, x) BY <1>2, <2>2 DEF Z!Before
    <3> QED BY <1>3, <3>1
  <2>3. ASSUME NEW x \in P PROVE <<x, x>> \notin R
    <3>1. ~Z!Before(key, x, x) BY <1>2 DEF Z!Before
    <3> QED BY <1>3, <3>1
  <2> QED BY <2>1, <2>2, <2>3 DEF Orders
<1>6. PICK g : Sorted(g, n, P, R) BY <1>4, <1>5, OrderExists
<1> DEFINE InOrder(f) == \A j, k \in P : j < k => Z!Before(key, f[j], f[k])
<1>7. P = 1 .. n BY DEF P
<1>8. g \in [P -> P] /\ InOrder(g) BY <1>3, <1>6, <1>7 DEF Sorted
<1> DEFINE f == CHOOSE h \in [P -> P] : InOrder(h)
<1>9. f \in [P -> P] /\ InOrder(f)
  <2> HIDE DEF InOrder
  <2> QED BY <1>8
<1>10. Z!Arranged(s, key) = [k \in P |-> s[f[k]]] BY Zenon DEF Z!Arranged, P, n
<1> HIDE DEF f
<1>11. Sorted(f, n, P, R) BY <1>3, <1>7, <1>9 DEF Sorted
<1>12. /\ \A j, k \in P : f[j] = f[k] => j = k
       /\ \A j \in P : \E k \in P : f[k] = j
  <2>1. P \in SUBSET P /\ Sorted(f, Cardinality(P), P, R) BY <1>4, <1>11
  <2>2. /\ \A j, k \in 1 .. Cardinality(P) : f[j] = f[k] => j = k
        /\ \A j \in P : \E k \in 1 .. Cardinality(P) : f[k] = j
      BY <1>4, <1>5, <2>1, SortedHasAll
  <2> QED BY <1>4, <1>7, <2>2
<1>13. IsList(Z!Arranged(s, key)) /\ Len(Z!Arranged(s, key)) = n
  <2> DEFINE a == Z!Arranged(s, key)
  <2>1. a = [k \in 1 .. n |-> a[k]] BY <1>7, <1>10
  <2> HIDE DEF a
  <2>2. IsList(a) /\ Len(a) = n BY <1>1, <2>1, TableIs
  <2> QED BY <2>2 DEF a
<1>14. \A k \in P : Z!Arranged(s, key)[k] = s[f[k]] BY <1>10
<1> QED BY <1>9, <1>12, <1>13, <1>14 DEF P, n, Shuffled

LEMMA ArrangedChosen ==
    ASSUME NEW s, NEW T, NEW l, Chosen(l, s, T), NEW key \in [1 .. Len(l) -> Nat \X Nat]
    PROVE  Chosen(Z!Arranged(l, key), s, T)
<1> DEFINE a == Z!Arranged(l, key)
<1>1. IsList(l) BY DEF Chosen
<1>2. Shuffled(a, l) BY <1>1, ArrangedIs
<1> HIDE DEF a
<1>3. PICK f \in [1 .. Len(l) -> 1 .. Len(l)] :
         /\ \A k \in 1 .. Len(l) : a[k] = l[f[k]]
         /\ \A j, k \in 1 .. Len(l) : f[j] = f[k] => j = k
         /\ \A j \in 1 .. Len(l) : \E k \in 1 .. Len(l) : f[k] = j
    BY <1>2 DEF Shuffled
<1>4. PICK from : ChosenAt(from, l, s, T) BY DEF Chosen
<1> DEFINE to == [k \in 1 .. Len(l) |-> from[f[k]]]
<1>5. to \in [1 .. Len(l) -> 1 .. Len(s)] BY <1>3, <1>4 DEF ChosenAt
<1>6. \A k \in 1 .. Len(l) : a[k] = s[to[k]] BY <1>3, <1>4 DEF ChosenAt
<1>7. \A j, k \in 1 .. Len(l) : to[j] = to[k] => j = k BY <1>3, <1>4 DEF ChosenAt
<1>8. ASSUME NEW j \in 1 .. Len(s) PROVE s[j] \in T <=> \E k \in 1 .. Len(l) : to[k] = j
  <2>1. ASSUME s[j] \in T PROVE \E k \in 1 .. Len(l) : to[k] = j
    <3>1. PICK p \in 1 .. Len(l) : from[p] = j BY <1>4, <2>1 DEF ChosenAt
    <3>2. PICK k \in 1 .. Len(l) : f[k] = p BY <1>3
    <3> QED BY <3>1, <3>2
  <2>2. ASSUME NEW k \in 1 .. Len(l), to[k] = j PROVE s[j] \in T
    <3>1. f[k] \in 1 .. Len(l) /\ from[f[k]] = j BY <2>2
    <3> QED BY <1>4, <3>1 DEF ChosenAt
  <2> QED BY <2>1, <2>2
<1> HIDE DEF to
<1>9. IsList(a) /\ Len(a) = Len(l) BY <1>2 DEF Shuffled
<1>10. ChosenAt(to, a, s, T) BY <1>5, <1>6, <1>7, <1>8, <1>9 DEF ChosenAt
<1>11. Chosen(a, s, T) BY <1>9, <1>10 DEF Chosen
<1> QED BY <1>11 DEF a

\* The tracks of an item that a wish asks for.
Asked(t, wish) ==
    /\ t.type = "Subtitle" /\ t.text
    /\ wish = {} \/ \E l \in wish : Z!Canonical(l) = Z!Canonical(t.lang)
WishedTracks(item, wish) == {<<item.id, t.index>> : t \in {t \in Range(item.streams) : Asked(t, wish)}}

IsItem(item) ==
    /\ IsList(item.streams)
    /\ \A k, l \in 1 .. Len(item.streams) :
          item.streams[k].index = item.streams[l].index => k = l

Text(streams) == {t \in Range(streams) : t.type = "Subtitle" /\ t.text}

\* An entry of the page for each text track.
LEMMA TextSubsAre ==
    ASSUME NEW item, IsItem(item)
    PROVE  LET subs == Z!TextSubs(item) IN
           /\ IsList(subs)
           /\ \E f : /\ ChosenAt(f, Filter(item.streams, Text(item.streams)), item.streams, Text(item.streams))
                     /\ Len(subs) = Len(Filter(item.streams, Text(item.streams)))
                     /\ \A k \in 1 .. Len(subs) :
                           /\ subs[k].index = item.streams[f[k]].index
                           /\ subs[k].lang = Z!Canonical(item.streams[f[k]].lang)
<1> DEFINE text == Filter(item.streams, Text(item.streams))
<1> DEFINE subs == Z!TextSubs(item)
<1>1. Chosen(text, item.streams, Text(item.streams)) BY FilterChosen DEF IsItem
<1>2. PICK f : ChosenAt(f, text, item.streams, Text(item.streams)) BY <1>1 DEF Chosen
<1>3. Len(text) \in Nat /\ DOMAIN text = 1 .. Len(text) BY <1>1, ListIs DEF Chosen
<1>4. subs = [k \in DOMAIN text |-> [index |-> text[k].index, lang |-> Z!Canonical(text[k].lang),
                                     label |-> Z!TrackLabel(text[k])]]
    BY Zenon DEF Z!TextSubs, Text, Z!Range, Range, Z!Filter, Filter
<1> HIDE DEF text, subs
<1>5. IsList(subs) /\ Len(subs) = Len(text)
  <2>1. subs = [k \in 1 .. Len(text) |-> subs[k]] BY <1>3, <1>4
  <2> QED BY <1>3, <2>1, TableIs
<1>6. \A k \in 1 .. Len(text) : subs[k].index = text[k].index /\ subs[k].lang = Z!Canonical(text[k].lang)
    BY <1>3, <1>4
<1>7. \A k \in 1 .. Len(text) : text[k] = item.streams[f[k]] BY <1>2 DEF ChosenAt
<1> QED BY <1>2, <1>5, <1>6, <1>7 DEF text, subs

LEMMA SameLoops ==
    ASSUME NEW s, NEW T
    PROVE  Z!Filter(s, T) = Filter(s, T) /\ Z!Joined(s) = Joined(s) /\ Z!Range(s) = Range(s)
BY Zenon DEF Z!Filter, Filter, Z!Joined, Joined, Z!Range, Range

JobKey(j) == <<j.id, j.index>>

\* The jobs are those of the tracks the wish asks for of these shelf, each once.
JobsAre(js, shelf, wish) ==
    /\ IsList(js)
    /\ \A p \in 1 .. Len(js) : \E item \in shelf : JobKey(js[p]) \in WishedTracks(item, wish)
    /\ \A item \in shelf : \A t \in WishedTracks(item, wish) : \E p \in 1 .. Len(js) : JobKey(js[p]) = t
    /\ \A p, q \in 1 .. Len(js) : JobKey(js[p]) = JobKey(js[q]) => p = q

\* The jobs of one item: its text tracks in a language asked for under any of its codes.
LEMMA JobsOfAre ==
    ASSUME NEW item, IsItem(item), NEW name, NEW wish
    PROVE  JobsAre(Z!JobsOf(item, name, Z!LangSet(wish)), {item}, wish)
<1> DEFINE T == Text(item.streams)
<1> DEFINE text == Filter(item.streams, T)
<1> DEFINE all == Z!TextSubs(item)
<1> DEFINE wanted == Z!LangSet(wish)
<1> DEFINE subs == Z!KeepLangs(all, wanted)
<1> DEFINE js == Z!JobsOf(item, name, wanted)
<1> DEFINE Kept == {x \in Range(all) : wanted = {} \/ x.lang \in wanted}
<1>1. IsList(all) BY TextSubsAre
<1>2. PICK f : /\ ChosenAt(f, text, item.streams, T) /\ Len(all) = Len(text)
               /\ \A k \in 1 .. Len(all) : /\ all[k].index = item.streams[f[k]].index
                                           /\ all[k].lang = Z!Canonical(item.streams[f[k]].lang)
    BY TextSubsAre
<1>3. IsList(item.streams) BY DEF IsItem
<1>4. wanted = {} <=> wish = {} BY DEF Z!LangSet
<1>5. \A x : x \in wanted <=> \E l \in wish : Z!Canonical(l) = x BY DEF Z!LangSet
<1>6. Len(all) \in Nat /\ \A k \in 1 .. Len(all) : all[k] \in Range(all)
    BY <1>1, ListIs
<1>7. subs = Filter(all, Kept)
  <2>1. CASE wanted = {}
    <3>1. \A j \in 1 .. Len(all) : all[j] \in Kept BY <1>6, <2>1
    <3>2. all \in Seq(Range(all)) BY <1>1 DEF IsList
    <3> HIDE DEF all, Kept
    <3>3. Filter(all, Kept) = all BY <3>1, <3>2, FilterAll
    <3> QED BY <2>1, <3>3 DEF Z!KeepLangs
  <2>2. CASE wanted # {}
    <3>1. Kept = {x \in Z!Range(all) : x.lang \in wanted} BY <2>2, SameLoops
    <3> HIDE DEF Kept, all, wanted
    <3>2. subs = Z!Filter(all, Kept) BY <2>2, <3>1 DEF Z!KeepLangs
    <3> QED BY <3>2, SameLoops
  <2> QED BY <2>1, <2>2
<1>8. Chosen(subs, all, Kept)
  <2> HIDE DEF all, Kept, subs
  <2> QED BY <1>1, <1>7, FilterChosen
<1>9. PICK g : ChosenAt(g, subs, all, Kept) BY <1>8 DEF Chosen
<1>10. Len(subs) \in Nat /\ DOMAIN subs = 1 .. Len(subs) BY <1>8, ListIs DEF Chosen
<1>11. \A p \in 1 .. Len(text) : \A q \in 1 .. Len(text) : f[p] = f[q] => p = q BY <1>2 DEF ChosenAt
<1>12. \A k \in 1 .. Len(all) : /\ f[k] \in 1 .. Len(item.streams)
                                /\ item.streams[f[k]] \in T
  <2>1. \A k \in 1 .. Len(text) : f[k] \in 1 .. Len(item.streams) BY <1>2 DEF ChosenAt
  <2>2. \A k \in 1 .. Len(text) : item.streams[f[k]] \in T BY <1>2, <2>1 DEF ChosenAt
  <2> QED BY <1>2, <2>1, <2>2
<1>13. js = [k \in DOMAIN subs |-> [name |-> Z!SubFilename(name, subs[k]),
                                    id |-> item.id, index |-> subs[k].index]]
    BY Zenon DEF Z!JobsOf
<1> HIDE DEF js, subs, all, wanted, T, text
<1>14. IsList(js) /\ Len(js) = Len(subs)
  <2>1. js = [k \in 1 .. Len(subs) |-> js[k]] BY <1>10, <1>13
  <2> QED BY <1>10, <2>1, TableIs
<1>15. \A p \in 1 .. Len(js) : g[p] \in 1 .. Len(all) /\ subs[p] = all[g[p]]
    BY <1>9, <1>14 DEF ChosenAt
<1>16. \A p \in 1 .. Len(js) : JobKey(js[p]) = <<item.id, item.streams[f[g[p]]].index>>
  <2>1. \A p \in 1 .. Len(js) : js[p].id = item.id /\ js[p].index = subs[p].index
      BY <1>10, <1>13, <1>14
  <2>2. \A p \in 1 .. Len(js) : subs[p].index = item.streams[f[g[p]]].index BY <1>2, <1>15
  <2> QED BY <2>1, <2>2 DEF JobKey
<1>17. ASSUME NEW k \in 1 .. Len(all)
       PROVE  all[k] \in Kept <=> Asked(item.streams[f[k]], wish)
  <2>1. item.streams[f[k]].type = "Subtitle" /\ item.streams[f[k]].text
      BY <1>12 DEF T, Text
  <2>2. all[k] \in Kept <=> wish = {} \/ \E l \in wish : Z!Canonical(l) = all[k].lang
      BY <1>4, <1>5, <1>6
  <2> QED BY <1>2, <2>1, <2>2 DEF Asked
<1>18. ASSUME NEW p \in 1 .. Len(js) PROVE JobKey(js[p]) \in WishedTracks(item, wish)
  <2>1. all[g[p]] \in Kept BY <1>9, <1>14, <1>15 DEF ChosenAt
  <2>2. Asked(item.streams[f[g[p]]], wish) BY <1>15, <1>17, <2>1
  <2>3. item.streams[f[g[p]]] \in Range(item.streams) BY <1>3, <1>12, <1>15, ListIs
  <2> QED BY <1>16, <2>2, <2>3 DEF WishedTracks
<1>19. ASSUME NEW t \in WishedTracks(item, wish) PROVE \E p \in 1 .. Len(js) : JobKey(js[p]) = t
  <2>1. PICK x \in Range(item.streams) : Asked(x, wish) /\ t = <<item.id, x.index>>
      BY DEF WishedTracks
  <2>2. PICK j \in 1 .. Len(item.streams) : item.streams[j] = x BY <1>3, ListIs
  <2>3. x \in T BY <2>1 DEF T, Text, Asked
  <2>4. PICK k \in 1 .. Len(all) : f[k] = j BY <1>2, <2>2, <2>3 DEF ChosenAt
  <2>5. all[k] \in Kept BY <1>17, <2>1, <2>2, <2>4
  <2>6. PICK p \in 1 .. Len(subs) : g[p] = k BY <1>9, <2>5 DEF ChosenAt
  <2> QED BY <1>14, <1>16, <2>1, <2>2, <2>4, <2>6
<1>20. ASSUME NEW p \in 1 .. Len(js), NEW q \in 1 .. Len(js), JobKey(js[p]) = JobKey(js[q])
       PROVE  p = q
  <2>1. item.streams[f[g[p]]].index = item.streams[f[g[q]]].index BY <1>16, <1>20
  <2>2. f[g[p]] = f[g[q]] BY <1>12, <1>15, <2>1 DEF IsItem
  <2>3. g[p] = g[q] BY <1>2, <1>11, <1>15, <2>2
  <2> QED BY <1>9, <1>14, <2>3 DEF ChosenAt
<1>21. JobsAre(js, {item}, wish) BY <1>14, <1>18, <1>19, <1>20 DEF JobsAre
<1> QED BY <1>21 DEF js, wanted

\* The keys of a zip's jobs say which item each is of.
LEMMA KeysApart ==
    ASSUME NEW a, NEW b, NEW wish, NEW t \in WishedTracks(a, wish), t \in WishedTracks(b, wish)
    PROVE  a.id = b.id
<1>1. PICK x : t = <<a.id, x>> BY DEF WishedTracks
<1>2. PICK y : t = <<b.id, y>> BY DEF WishedTracks
<1> QED BY <1>1, <1>2

\* Lists of jobs of different shelf, one after the other.
LEMMA JoinedAre ==
    ASSUME NEW ss, IsList(ss), NEW group, NEW wish,
           \A a \in 1 .. Len(ss) : JobsAre(ss[a], group[a], wish),
           \A a, b \in 1 .. Len(ss) : \A x \in group[a], y \in group[b] : x.id = y.id => a = b
    PROVE  JobsAre(Joined(ss), UNION {group[a] : a \in 1 .. Len(ss)}, wish)
<1> DEFINE A == UNION {Range(ss[a]) : a \in 1 .. Len(ss)}
<1> DEFINE shelf == UNION {group[a] : a \in 1 .. Len(ss)}
<1> DEFINE js == Joined(ss)
<1>1. Len(ss) \in Nat /\ ss = [a \in 1 .. Len(ss) |-> ss[a]] /\ DOMAIN ss = 1 .. Len(ss)
    BY ListIs DEF IsList
<1>2. \A a \in 1 .. Len(ss) : IsList(ss[a]) BY DEF JobsAre
<1>3. ss \in Seq(Seq(A))
  <2>1. ASSUME NEW a \in 1 .. Len(ss) PROVE ss[a] \in Seq(A)
    <3>1. ss[a] = [j \in 1 .. Len(ss[a]) |-> ss[a][j]] /\ Len(ss[a]) \in Nat
        BY <1>2 DEF IsList
    <3>2. \A j \in 1 .. Len(ss[a]) : ss[a][j] \in A BY <1>2, ListIs
    <3>3. DOMAIN ss[a] = 1 .. Len(ss[a]) BY <1>2, ListIs
    <3> HIDE DEF A
    <3> QED BY <3>1, <3>2, <3>3, TableIsList
  <2> DEFINE B == Seq(A)
  <2>2. \A a \in 1 .. Len(ss) : ss[a] \in B BY <2>1
  <2> HIDE DEF B
  <2>3. ss \in Seq(B) BY <1>1, <2>2, TableIsList
  <2> QED BY <2>3 DEF B
<1> HIDE DEF A
<1>4. js \in Seq(A) /\ \E f : CellsOf(f, js, ss, Len(ss)) BY <1>3, JoinedFrom
<1>5. PICK f : CellsOf(f, js, ss, Len(ss)) BY <1>4
<1>6. IsList(js) BY <1>4, ListOf
<1> HIDE DEF js
<1>7. ASSUME NEW p \in 1 .. Len(js)
      PROVE  \E a \in 1 .. Len(ss) : \E j \in 1 .. Len(ss[a]) : f[p] = <<a, j>> /\ js[p] = ss[a][j]
    BY <1>5 DEF CellsOf
<1>8. ASSUME NEW p \in 1 .. Len(js) PROVE \E x \in shelf : JobKey(js[p]) \in WishedTracks(x, wish)
  <2>1. PICK a \in 1 .. Len(ss) : \E j \in 1 .. Len(ss[a]) : js[p] = ss[a][j] BY <1>7
  <2>2. PICK j \in 1 .. Len(ss[a]) : js[p] = ss[a][j] BY <2>1
  <2>3. PICK x \in group[a] : JobKey(ss[a][j]) \in WishedTracks(x, wish) BY DEF JobsAre
  <2> QED BY <2>2, <2>3
<1>9. ASSUME NEW x \in shelf, NEW t \in WishedTracks(x, wish)
      PROVE  \E p \in 1 .. Len(js) : JobKey(js[p]) = t
  <2>1. PICK a \in 1 .. Len(ss) : x \in group[a] OBVIOUS
  <2>2. PICK j \in 1 .. Len(ss[a]) : JobKey(ss[a][j]) = t BY <2>1, ZenonT(30) DEF JobsAre
  <2>3. PICK p \in 1 .. Len(js) : f[p] = <<a, j>> BY <1>5 DEF CellsOf
  <2>4. js[p] = ss[a][j]
    <3>1. PICK b \in 1 .. Len(ss) : \E l \in 1 .. Len(ss[b]) : f[p] = <<b, l>> /\ js[p] = ss[b][l] BY <1>7
    <3>2. PICK l \in 1 .. Len(ss[b]) : f[p] = <<b, l>> /\ js[p] = ss[b][l] BY <3>1
    <3>3. a = b /\ j = l BY <2>3, <3>2
    <3> QED BY <3>2, <3>3
  <2> QED BY <2>2, <2>4
<1>10. ASSUME NEW p \in 1 .. Len(js), NEW q \in 1 .. Len(js), JobKey(js[p]) = JobKey(js[q])
       PROVE  p = q
  <2>1. PICK a \in 1 .. Len(ss) : \E j \in 1 .. Len(ss[a]) : f[p] = <<a, j>> /\ js[p] = ss[a][j] BY <1>7
  <2>2. PICK j \in 1 .. Len(ss[a]) : f[p] = <<a, j>> /\ js[p] = ss[a][j] BY <2>1
  <2>3. PICK b \in 1 .. Len(ss) : \E l \in 1 .. Len(ss[b]) : f[q] = <<b, l>> /\ js[q] = ss[b][l] BY <1>7
  <2>4. PICK l \in 1 .. Len(ss[b]) : f[q] = <<b, l>> /\ js[q] = ss[b][l] BY <2>3
  <2>5. PICK x \in group[a] : JobKey(ss[a][j]) \in WishedTracks(x, wish) BY DEF JobsAre
  <2>6. PICK y \in group[b] : JobKey(ss[b][l]) \in WishedTracks(y, wish) BY DEF JobsAre
  <2>7. x.id = y.id BY <1>10, <2>2, <2>4, <2>5, <2>6, KeysApart
  <2>8. a = b BY <2>5, <2>6, <2>7
  <2>9. j = l BY <1>10, <2>2, <2>4, <2>8 DEF JobsAre
  <2> QED BY <1>5, <2>2, <2>4, <2>8, <2>9, ZenonT(30) DEF CellsOf
<1> HIDE DEF shelf
<1>11. JobsAre(js, shelf, wish) BY <1>6, <1>8, <1>9, <1>10 DEF JobsAre
<1> QED BY <1>11 DEF js, shelf

\* Two lists of jobs of different shelf.
LEMMA JoinAre ==
    ASSUME NEW js, NEW I, NEW ks, NEW K, NEW wish, JobsAre(js, I, wish), JobsAre(ks, K, wish),
           \A x \in I, y \in K : x.id # y.id
    PROVE  JobsAre(js \o ks, I \cup K, wish)
<1> DEFINE A == Range(js) \cup Range(ks)
<1> DEFINE u == js \o ks
<1> DEFINE n == Len(js)
<1> DEFINE m == Len(ks)
<1>1. IsList(js) /\ IsList(ks) BY DEF JobsAre
<1>2. js \in Seq(A) /\ ks \in Seq(A)
  <2>1. /\ Len(js) \in Nat /\ DOMAIN js = 1 .. Len(js) /\ js = [j \in 1 .. Len(js) |-> js[j]]
        /\ Len(ks) \in Nat /\ DOMAIN ks = 1 .. Len(ks) /\ ks = [j \in 1 .. Len(ks) |-> ks[j]]
      BY <1>1 DEF IsList
  <2>2. (\A j \in 1 .. Len(js) : js[j] \in A) /\ (\A j \in 1 .. Len(ks) : ks[j] \in A)
      BY <1>1, ListIs
  <2> HIDE DEF A
  <2> QED BY <2>1, <2>2, TableIsList
<1> HIDE DEF A
<1>3. /\ n \in Nat /\ m \in Nat /\ u \in Seq(A) /\ Len(u) = n + m
      /\ \A p \in 1 .. n : u[p] = js[p]
      /\ \A j \in 1 .. m : u[n + j] = ks[j]
    BY <1>2, ConcatIs
<1>4. IsList(u) BY <1>3, ListOf
<1> HIDE DEF u, n, m
<1>5. ASSUME NEW p \in 1 .. n + m PROVE p \in 1 .. n \/ \E j \in 1 .. m : p = n + j
  <2>1. CASE p <= n BY <1>3, <2>1
  <2>2. CASE ~(p <= n)
    <3>1. p - n \in 1 .. m /\ p = n + (p - n) BY <1>3, <2>2
    <3> QED BY <3>1
  <2> QED BY <2>1, <2>2
<1>6. (\A p \in 1 .. n : p \in 1 .. n + m) /\ (\A j \in 1 .. m : n + j \in 1 .. n + m) BY <1>3
<1>7. \A p \in 1 .. n : \E x \in I : JobKey(u[p]) \in WishedTracks(x, wish)
    BY <1>3 DEF JobsAre, n
<1>8. \A j \in 1 .. m : \E y \in K : JobKey(u[n + j]) \in WishedTracks(y, wish)
    BY <1>3 DEF JobsAre, m
<1>9. ASSUME NEW p \in 1 .. n + m
      PROVE  \E x \in I \cup K : JobKey(u[p]) \in WishedTracks(x, wish)
    BY <1>5, <1>7, <1>8
<1>10. ASSUME NEW x \in I \cup K, NEW t \in WishedTracks(x, wish)
       PROVE  \E p \in 1 .. n + m : JobKey(u[p]) = t
  <2>1. CASE x \in I
    <3>1. PICK p \in 1 .. n : JobKey(js[p]) = t BY <2>1 DEF JobsAre, n
    <3> QED BY <1>3, <1>6, <3>1
  <2>2. CASE x \in K
    <3>1. PICK j \in 1 .. m : JobKey(ks[j]) = t BY <2>2 DEF JobsAre, m
    <3> QED BY <1>3, <1>6, <3>1
  <2> QED BY <2>1, <2>2
<1>11. \A p \in 1 .. n, j \in 1 .. m : JobKey(u[p]) # JobKey(u[n + j])
  <2> SUFFICES ASSUME NEW p \in 1 .. n, NEW j \in 1 .. m, JobKey(u[p]) = JobKey(u[n + j])
               PROVE  FALSE
      OBVIOUS
  <2>1. PICK x \in I : JobKey(u[p]) \in WishedTracks(x, wish) BY <1>7
  <2>2. PICK y \in K : JobKey(u[n + j]) \in WishedTracks(y, wish) BY <1>8
  <2>3. x.id = y.id BY <2>1, <2>2, KeysApart
  <2> QED BY <2>3
<1>12. ASSUME NEW p \in 1 .. n + m, NEW q \in 1 .. n + m, JobKey(u[p]) = JobKey(u[q]) PROVE p = q
  <2>1. CASE p \in 1 .. n /\ q \in 1 .. n
    <3>1. JobKey(js[p]) = JobKey(js[q]) BY <1>3, <1>12, <2>1
    <3> QED BY <2>1, <3>1 DEF JobsAre, n
  <2>2. CASE p \notin 1 .. n /\ q \notin 1 .. n
    <3>1. PICK j \in 1 .. m : p = n + j BY <1>5, <2>2
    <3>2. PICK l \in 1 .. m : q = n + l BY <1>5, <2>2
    <3>3. JobKey(ks[j]) = JobKey(ks[l]) BY <1>3, <1>12, <3>1, <3>2
    <3>4. j = l BY <3>3 DEF JobsAre, m
    <3> QED BY <3>1, <3>2, <3>4
  <2>3. CASE p \in 1 .. n /\ q \notin 1 .. n BY <1>5, <1>11, <1>12, <2>3
  <2>4. CASE p \notin 1 .. n /\ q \in 1 .. n BY <1>5, <1>11, <1>12, <2>4
  <2> QED BY <2>1, <2>2, <2>3, <2>4
<1>13. JobsAre(u, I \cup K, wish) BY <1>3, <1>4, <1>9, <1>10, <1>12 DEF JobsAre
<1> QED BY <1>13 DEF u

\* An item without text tracks has none that a wish could ask for.
LEMMA NoText ==
    ASSUME NEW item, IsItem(item), Z!TextSubs(item) = <<>>, NEW wish
    PROVE  WishedTracks(item, wish) = {}
<1> DEFINE T == Text(item.streams)
<1> DEFINE text == Filter(item.streams, T)
<1>1. PICK f : ChosenAt(f, text, item.streams, T) /\ Len(Z!TextSubs(item)) = Len(text)
    BY TextSubsAre
<1>2. Len(text) = 0 BY <1>1
<1> SUFFICES ASSUME NEW t \in WishedTracks(item, wish) PROVE FALSE
    OBVIOUS
<1>3. PICK x \in Range(item.streams) : Asked(x, wish) BY DEF WishedTracks
<1>4. PICK j \in 1 .. Len(item.streams) : item.streams[j] = x BY ListIs DEF IsItem
<1>5. x \in T BY <1>3 DEF T, Text, Asked
<1> HIDE DEF T, text
<1> QED BY <1>1, <1>2, <1>4, <1>5 DEF ChosenAt

\* Items that have nothing to give may be counted or not.
LEMMA JobsWiden ==
    ASSUME NEW js, NEW I, NEW K, NEW wish, JobsAre(js, I, wish), I \subseteq K,
           \A x \in K \ I : WishedTracks(x, wish) = {}
    PROVE  JobsAre(js, K, wish)
<1>1. \A x \in K : \A t \in WishedTracks(x, wish) : \E p \in 1 .. Len(js) : JobKey(js[p]) = t
    BY DEF JobsAre
<1>2. \A p \in 1 .. Len(js) : \E x \in K : JobKey(js[p]) \in WishedTracks(x, wish)
    BY DEF JobsAre
<1> QED BY <1>1, <1>2 DEF JobsAre

\* Items Jellyfin has, each in a place of its own.
AreItems(shelf) ==
    /\ IsList(shelf)
    /\ \A j \in 1 .. Len(shelf) : IsItem(shelf[j])
    /\ \A j, k \in 1 .. Len(shelf) : shelf[j].id = shelf[k].id => j = k
WithText(shelf) == {x \in Range(shelf) : Z!TextSubs(x) # <<>>}

\* The shelf a page lists, each with its jobs, whatever the names.
LEMMA ItemsJobs ==
    ASSUME NEW shelf, AreItems(shelf), NEW l, Chosen(l, shelf, WithText(shelf)),
           NEW name, NEW wish, NEW ss,
           ss = [p \in 1 .. Len(l) |-> Z!JobsOf(l[p], name[p], Z!LangSet(wish))]
    PROVE  JobsAre(Joined(ss), Range(shelf), wish)
<1> DEFINE group == [p \in 1 .. Len(l) |-> {l[p]}]
<1> DEFINE U == UNION {group[p] : p \in 1 .. Len(ss)}
<1>1. PICK f : ChosenAt(f, l, shelf, WithText(shelf)) BY DEF Chosen
<1>2. Len(l) \in Nat /\ DOMAIN l = 1 .. Len(l) BY ListIs DEF Chosen
<1>3. IsList(ss) /\ Len(ss) = Len(l)
  <2>1. ss = [p \in 1 .. Len(l) |-> ss[p]] OBVIOUS
  <2> QED BY <1>2, <2>1, TableIs
<1>4. IsList(shelf) /\ \A j \in 1 .. Len(shelf) : IsItem(shelf[j]) BY DEF AreItems
<1>5. \A p \in 1 .. Len(l) : f[p] \in 1 .. Len(shelf) /\ l[p] = shelf[f[p]]
    BY <1>1 DEF ChosenAt
<1>6. ASSUME NEW p \in 1 .. Len(ss) PROVE JobsAre(ss[p], group[p], wish)
  <2>1. p \in 1 .. Len(l) BY <1>3
  <2>2. IsItem(l[p]) BY <1>4, <1>5, <2>1
  <2>3. ss[p] = Z!JobsOf(l[p], name[p], Z!LangSet(wish)) BY <2>1
  <2>4. JobsAre(Z!JobsOf(l[p], name[p], Z!LangSet(wish)), {l[p]}, wish) BY <2>2, JobsOfAre
  <2> QED BY <2>1, <2>3, <2>4
<1>7. ASSUME NEW p \in 1 .. Len(ss), NEW q \in 1 .. Len(ss),
             NEW x \in group[p], NEW y \in group[q], x.id = y.id
      PROVE  p = q
  <2>1. p \in 1 .. Len(l) /\ q \in 1 .. Len(l) BY <1>3
  <2>2. x = shelf[f[p]] /\ y = shelf[f[q]] BY <1>5, <2>1
  <2>3. f[p] = f[q] BY <1>5, <1>7, <2>1, <2>2 DEF AreItems
  <2> QED BY <1>1, <2>1, <2>3 DEF ChosenAt
<1> HIDE DEF group
<1>8. JobsAre(Joined(ss), U, wish) BY <1>3, <1>6, <1>7, JoinedAre
<1>9. \A p \in 1 .. Len(l) : group[p] = {l[p]} BY DEF group
<1>10. U \subseteq Range(shelf)
  <2>1. \A p \in 1 .. Len(l) : l[p] \in Range(shelf) BY <1>4, <1>5, ListIs
  <2> QED BY <1>3, <1>9, <2>1
<1>11. ASSUME NEW x \in Range(shelf) \ U PROVE WishedTracks(x, wish) = {}
  <2>1. PICK j \in 1 .. Len(shelf) : shelf[j] = x BY <1>4, ListIs
  <2>2. x \notin WithText(shelf)
    <3> SUFFICES ASSUME x \in WithText(shelf) PROVE FALSE
        OBVIOUS
    <3>1. PICK p \in 1 .. Len(l) : f[p] = j BY <1>1, <2>1 DEF ChosenAt
    <3>2. l[p] = x BY <1>5, <2>1, <3>1
    <3> QED BY <1>3, <1>9, <3>2
  <2>3. Z!TextSubs(x) = <<>> BY <2>2 DEF WithText
  <2> QED BY <1>4, <2>1, <2>3, NoText
<1> HIDE DEF U
<1> QED BY <1>8, <1>10, <1>11, JobsWiden

LEMMA ShelfHas ==
    ASSUME NEW a \in 0 .. Len(Library.series)
    PROVE  /\ AreItems(Shelf(a))
           /\ \A j \in 1 .. Len(Shelf(a)) :
                 IF a = 0 THEN Shelf(a)[j].order \in Nat
                 ELSE Shelf(a)[j].season \in Nat /\ Shelf(a)[j].episode \in Nat
           /\ \A b \in 0 .. Len(Library.series) :
                 \A x \in Range(Shelf(a)), y \in Range(Shelf(b)) : x.id = y.id => a = b
<1>1. /\ Shelf(a) \in Seq({Shelf(a)[j] : j \in 1 .. Len(Shelf(a))})
      /\ \A j \in 1 .. Len(Shelf(a)) :
            /\ IF a = 0 THEN Shelf(a)[j].order \in Nat
               ELSE Shelf(a)[j].season \in Nat /\ Shelf(a)[j].episode \in Nat
            /\ Shelf(a)[j].streams \in
                  Seq({Shelf(a)[j].streams[k] : k \in 1 .. Len(Shelf(a)[j].streams)})
            /\ \A k, l \in 1 .. Len(Shelf(a)[j].streams) :
                  Shelf(a)[j].streams[k].index = Shelf(a)[j].streams[l].index => k = l
            /\ \A b \in 0 .. Len(Library.series) : \A k \in 1 .. Len(Shelf(b)) :
                  Shelf(b)[k].id = Shelf(a)[j].id => a = b /\ j = k
    BY LibraryAssumption
<1>2. IsList(Shelf(a)) BY <1>1, ListOf
<1>3. \A b \in 0 .. Len(Library.series) : IsList(Shelf(b)) BY LibraryAssumption, ListOf
<1>4. ASSUME NEW j \in 1 .. Len(Shelf(a)) PROVE IsItem(Shelf(a)[j])
  <2> DEFINE s == Shelf(a)[j].streams
  <2> DEFINE A == {s[k] : k \in 1 .. Len(s)}
  <2>1. IsList(s)
    <3>1. s \in Seq(A) BY <1>1
    <3> HIDE DEF s, A
    <3> QED BY <3>1, ListOf
  <2> QED BY <1>1, <2>1 DEF IsItem
<1>5. AreItems(Shelf(a)) BY <1>1, <1>2, <1>4 DEF AreItems
<1>6. ASSUME NEW b \in 0 .. Len(Library.series),
             NEW x \in Range(Shelf(a)), NEW y \in Range(Shelf(b)), x.id = y.id
      PROVE  a = b
  <2>1. PICK j \in 1 .. Len(Shelf(a)) : Shelf(a)[j] = x BY <1>2, ListIs
  <2>2. PICK k \in 1 .. Len(Shelf(b)) : Shelf(b)[k] = y BY <1>3, ListIs
  <2> QED BY <1>1, <1>6, <2>1, <2>2
<1> QED BY <1>1, <1>5, <1>6

\* The films as they are listed: those with a text track, each once.
LEMMA MoviesChosen == Chosen(Z!FetchMovies, Shelf(0), WithText(Shelf(0)))
<1> DEFINE shelf == Shelf(0)
<1> DEFINE s == Z!WithText(shelf)
<1> DEFINE key == [k \in 1 .. Len(s) |-> <<s[k].order, 0>>]
<1>0. 0 \in 0 .. Len(Library.series) /\ shelf = Library.movies BY LibraryAssumption DEF Shelf
<1>1. AreItems(shelf) /\ \A j \in 1 .. Len(shelf) : shelf[j].order \in Nat BY <1>0, ShelfHas
<1>2. s = Filter(shelf, WithText(shelf))
  <2>1. Z!WithText(shelf) = Z!Filter(shelf, {x \in Z!Range(shelf) : Z!TextSubs(x) # <<>>})
      BY DEF Z!WithText
  <2> QED BY <2>1, SameLoops DEF WithText
<1>3. Z!FetchMovies = Z!Arranged(s, key) BY <1>0, Zenon DEF Z!FetchMovies
<1> HIDE DEF shelf, s
<1>4. Chosen(s, shelf, WithText(shelf)) BY <1>1, <1>2, FilterChosen DEF AreItems
<1>5. key \in [1 .. Len(s) -> Nat \X Nat]
  <2>1. \A k \in 1 .. Len(s) : s[k].order \in Nat BY <1>1, <1>4 DEF Chosen, ChosenAt
  <2> QED BY <2>1
<1> HIDE DEF key
<1>6. Chosen(Z!Arranged(s, key), shelf, WithText(shelf)) BY <1>4, <1>5, ArrangedChosen
<1> QED BY <1>3, <1>6, SMTT(30) DEF shelf

\* The episodes of a series as they are listed.
LEMMA EpisodesChosen ==
    ASSUME NEW a \in 1 .. Len(Library.series)
    PROVE  Chosen(Z!FetchEpisodes(Library.series[a]), Shelf(a), WithText(Shelf(a)))
<1> DEFINE shelf == Shelf(a)
<1> DEFINE s == Z!WithText(shelf)
<1> DEFINE key == [k \in 1 .. Len(s) |-> <<s[k].season, s[k].episode>>]
<1>0. a \in 0 .. Len(Library.series) /\ a # 0 /\ shelf = Library.series[a].episodes
    BY LibraryAssumption DEF Shelf
<1>1. AreItems(shelf) /\ \A j \in 1 .. Len(shelf) : shelf[j].season \in Nat /\ shelf[j].episode \in Nat
    BY <1>0, ShelfHas
<1>2. s = Filter(shelf, WithText(shelf))
  <2>1. Z!WithText(shelf) = Z!Filter(shelf, {x \in Z!Range(shelf) : Z!TextSubs(x) # <<>>})
      BY DEF Z!WithText
  <2> QED BY <2>1, SameLoops DEF WithText
<1>3. Z!FetchEpisodes(Library.series[a]) = Z!Arranged(s, key) BY <1>0, Zenon DEF Z!FetchEpisodes
<1> HIDE DEF shelf, s
<1>4. Chosen(s, shelf, WithText(shelf)) BY <1>1, <1>2, FilterChosen DEF AreItems
<1>5. key \in [1 .. Len(s) -> Nat \X Nat]
  <2>1. \A k \in 1 .. Len(s) : s[k].season \in Nat /\ s[k].episode \in Nat
      BY <1>1, <1>4 DEF Chosen, ChosenAt
  <2> QED BY <2>1
<1> HIDE DEF key
<1>6. Chosen(Z!Arranged(s, key), shelf, WithText(shelf)) BY <1>4, <1>5, ArrangedChosen
<1> QED BY <1>3, <1>6, SMTT(30) DEF shelf

LEMMA MovieJobsAre ==
    ASSUME NEW wish
    PROVE  JobsAre(Z!MovieJobs(Z!LangSet(wish)), Range(Shelf(0)), wish)
<1> DEFINE l == Z!FetchMovies
<1> DEFINE wanted == Z!LangSet(wish)
<1> DEFINE name == [p \in 1 .. Len(l) |-> <<l[p].title>>]
<1> DEFINE ss == [p \in 1 .. Len(l) |-> Z!JobsOf(l[p], name[p], wanted)]
<1>1. Chosen(l, Shelf(0), WithText(Shelf(0))) BY MoviesChosen
<1>2. DOMAIN l = 1 .. Len(l) BY <1>1, ListIs DEF Chosen
<1>3. AreItems(Shelf(0))
  <2>1. 0 \in 0 .. Len(Library.series) BY LibraryAssumption
  <2> QED BY <2>1, ShelfHas
<1>4. Z!MovieJobs(wanted) = Z!Joined([p \in DOMAIN l |-> Z!JobsOf(l[p], <<l[p].title>>, wanted)])
    BY Zenon DEF Z!MovieJobs
<1> HIDE DEF l, wanted
<1>5. ss = [p \in DOMAIN l |-> Z!JobsOf(l[p], <<l[p].title>>, wanted)] BY <1>2
<1>6. Z!MovieJobs(wanted) = Joined(ss) BY <1>4, <1>5, SameLoops
<1>7. \A nm : \A js : js = [p \in 1 .. Len(l) |-> Z!JobsOf(l[p], nm[p], Z!LangSet(wish))]
          => JobsAre(Joined(js), Range(Shelf(0)), wish)
    BY <1>1, <1>3, ItemsJobs
<1>8. ss = [p \in 1 .. Len(l) |-> Z!JobsOf(l[p], name[p], Z!LangSet(wish))] BY DEF wanted
<1> HIDE DEF ss, name
<1>9. JobsAre(Joined(ss), Range(Shelf(0)), wish) BY <1>7, <1>8
<1> QED BY <1>6, <1>9 DEF wanted

LEMMA EpisodeJobsAre ==
    ASSUME NEW a \in 1 .. Len(Library.series), NEW dir, NEW wish
    PROVE  JobsAre(Z!EpisodeJobs(dir, Library.series[a], Z!LangSet(wish)), Range(Shelf(a)), wish)
<1> DEFINE l == Z!FetchEpisodes(Library.series[a])
<1> DEFINE wanted == Z!LangSet(wish)
<1> DEFINE name ==
        [p \in 1 .. Len(l) |-> dir \o <<Z!ToString(l[p].season), Z!ToString(l[p].episode)>>]
<1> DEFINE ss == [p \in 1 .. Len(l) |-> Z!JobsOf(l[p], name[p], wanted)]
<1>1. Chosen(l, Shelf(a), WithText(Shelf(a))) BY EpisodesChosen
<1>2. DOMAIN l = 1 .. Len(l) BY <1>1, ListIs DEF Chosen
<1>3. AreItems(Shelf(a))
  <2>1. a \in 0 .. Len(Library.series) BY LibraryAssumption
  <2> QED BY <2>1, ShelfHas
<1>4. Z!EpisodeJobs(dir, Library.series[a], wanted) =
        Z!Joined([p \in DOMAIN l |->
            Z!JobsOf(l[p], dir \o <<Z!ToString(l[p].season), Z!ToString(l[p].episode)>>, wanted)])
    BY Zenon DEF Z!EpisodeJobs
<1> HIDE DEF l, wanted
<1>5. ss = [p \in DOMAIN l |->
              Z!JobsOf(l[p], dir \o <<Z!ToString(l[p].season), Z!ToString(l[p].episode)>>, wanted)]
    BY <1>2
<1>6. Z!EpisodeJobs(dir, Library.series[a], wanted) = Joined(ss) BY <1>4, <1>5, SameLoops
<1>7. \A nm : \A js : js = [p \in 1 .. Len(l) |-> Z!JobsOf(l[p], nm[p], Z!LangSet(wish))]
          => JobsAre(Joined(js), Range(Shelf(a)), wish)
    BY <1>1, <1>3, ItemsJobs
<1>8. ss = [p \in 1 .. Len(l) |-> Z!JobsOf(l[p], name[p], Z!LangSet(wish))] BY DEF wanted
<1> HIDE DEF ss, name
<1>9. JobsAre(Joined(ss), Range(Shelf(a)), wish) BY <1>7, <1>8, SMTT(30)
<1> QED BY <1>6, <1>9 DEF wanted

LEMMA SeriesIs ==
    /\ IsList(Library.series) /\ Len(Library.series) \in Nat
    /\ \A a \in 1 .. Len(Library.series) :
          /\ a \in 0 .. Len(Library.series) /\ Shelf(a) = Library.series[a].episodes
          /\ Library.series[a].order \in Nat
    /\ 0 \in 0 .. Len(Library.series) /\ Shelf(0) = Library.movies
<1>1. IsList(Library.series)
  <2> DEFINE s == Library.series
  <2> DEFINE A == {s[a] : a \in 1 .. Len(s)}
  <2>1. s \in Seq(A) BY LibraryAssumption
  <2> HIDE DEF s, A
  <2>2. IsList(s) BY <2>1, ListOf
  <2> QED BY <2>2 DEF s
<1>2. Len(Library.series) \in Nat BY <1>1, ListIs
<1> QED BY <1>1, <1>2, LibraryAssumption DEF Shelf

\* The series as they are listed: those with an episode that is.
ShownSeries == {show \in Range(Library.series) : Z!FetchEpisodes(show) # <<>>}
LEMMA SeriesChosen == Chosen(Z!FetchSeries, Library.series, ShownSeries)
<1> DEFINE s == Filter(Library.series, ShownSeries)
<1> DEFINE key == [k \in 1 .. Len(s) |-> <<s[k].order, 0>>]
<1>1. Chosen(s, Library.series, ShownSeries) BY SeriesIs, FilterChosen
<1>2. Z!FetchSeries = Z!Arranged(s, key)
  <2>1. Z!Filter(Library.series,
                 {show \in Z!Range(Library.series) : Z!FetchEpisodes(show) # <<>>}) = s
      BY SameLoops DEF ShownSeries
  <2> HIDE DEF s
  <2> QED BY <2>1, Zenon DEF Z!FetchSeries
<1> HIDE DEF s
<1>3. key \in [1 .. Len(s) -> Nat \X Nat]
  <2>1. \A k \in 1 .. Len(s) : s[k].order \in Nat BY <1>1, SeriesIs DEF Chosen, ChosenAt
  <2> QED BY <2>1
<1> HIDE DEF key
<1> QED BY <1>1, <1>2, <1>3, ArrangedChosen

AllEpisodes == UNION {Range(Shelf(a)) : a \in 1 .. Len(Library.series)}

LEMMA SeriesJobsAre ==
    ASSUME NEW wish, NEW ss,
           ss = [p \in DOMAIN Z!FetchSeries |->
                    Z!EpisodeJobs(<<Z!FetchSeries[p].title>>, Z!FetchSeries[p], Z!LangSet(wish))]
    PROVE  JobsAre(Joined(ss), AllEpisodes, wish)
<1> DEFINE l == Z!FetchSeries
<1> DEFINE shows == Library.series
<1>1. Chosen(l, shows, ShownSeries) BY SeriesChosen
<1>2. PICK f : ChosenAt(f, l, shows, ShownSeries) BY <1>1 DEF Chosen
<1>3. Len(l) \in Nat /\ DOMAIN l = 1 .. Len(l) BY <1>1, ListIs DEF Chosen
<1>4. \A p \in 1 .. Len(l) : f[p] \in 1 .. Len(shows) /\ l[p] = shows[f[p]]
    BY <1>2 DEF ChosenAt
<1> DEFINE group == [p \in 1 .. Len(l) |-> Range(Shelf(f[p]))]
<1> DEFINE U == UNION {group[p] : p \in 1 .. Len(ss)}
<1>5. \A p \in 1 .. Len(l) : ss[p] = Z!EpisodeJobs(<<l[p].title>>, l[p], Z!LangSet(wish))
    BY <1>3
<1>6. IsList(ss) /\ Len(ss) = Len(l)
  <2>1. ss = [p \in 1 .. Len(l) |-> ss[p]] BY <1>3
  <2> QED BY <1>3, <2>1, TableIs
<1> HIDE DEF l
<1>7. ASSUME NEW p \in 1 .. Len(ss) PROVE JobsAre(ss[p], group[p], wish)
  <2>1. p \in 1 .. Len(l) BY <1>6
  <2>2. ss[p] = Z!EpisodeJobs(<<l[p].title>>, Library.series[f[p]], Z!LangSet(wish))
      BY <1>4, <1>5, <2>1
  <2>3. f[p] \in 1 .. Len(Library.series) BY <1>4, <2>1
  <2> DEFINE dir == <<l[p].title>>
  <2> HIDE DEF dir
  <2>4. JobsAre(Z!EpisodeJobs(dir, Library.series[f[p]], Z!LangSet(wish)), Range(Shelf(f[p])), wish)
      BY <2>3, EpisodeJobsAre
  <2> QED BY <2>1, <2>2, <2>4 DEF dir
<1>8. ASSUME NEW p \in 1 .. Len(ss), NEW q \in 1 .. Len(ss),
             NEW x \in group[p], NEW y \in group[q], x.id = y.id
      PROVE  p = q
  <2>1. p \in 1 .. Len(l) /\ q \in 1 .. Len(l) BY <1>6
  <2>2. f[p] \in 0 .. Len(Library.series) /\ f[q] \in 0 .. Len(Library.series)
      BY <1>4, <2>1, SeriesIs
  <2>3. x \in Range(Shelf(f[p])) /\ y \in Range(Shelf(f[q])) BY <2>1
  <2>4. f[p] = f[q] BY <1>8, <2>2, <2>3, ShelfHas
  <2> QED BY <1>2, <2>1, <2>4 DEF ChosenAt
<1>9. \A p \in 1 .. Len(l) : group[p] = Range(Shelf(f[p])) OBVIOUS
<1> HIDE DEF group
<1>10. JobsAre(Joined(ss), U, wish) BY <1>6, <1>7, <1>8, JoinedAre
<1>11. U \subseteq AllEpisodes BY <1>4, <1>6, <1>9 DEF AllEpisodes
<1>12. ASSUME NEW x \in AllEpisodes \ U PROVE WishedTracks(x, wish) = {}
  <2>1. PICK a \in 1 .. Len(Library.series) : x \in Range(Shelf(a)) BY DEF AllEpisodes
  <2>2. shows[a] \notin ShownSeries
    <3> SUFFICES ASSUME shows[a] \in ShownSeries PROVE FALSE
        OBVIOUS
    <3>1. PICK p \in 1 .. Len(l) : f[p] = a BY <1>2 DEF ChosenAt
    <3> QED BY <1>6, <1>9, <2>1, <3>1
  <2>3. shows[a] \in Range(Library.series) BY SeriesIs, ListIs
  <2>4. Z!FetchEpisodes(Library.series[a]) = <<>> BY <2>2, <2>3 DEF ShownSeries
  <2>5. PICK g : ChosenAt(g, <<>>, Shelf(a), WithText(Shelf(a)))
      BY <2>4, EpisodesChosen DEF Chosen
  <2>6. AreItems(Shelf(a)) BY SeriesIs, ShelfHas
  <2>7. PICK j \in 1 .. Len(Shelf(a)) : Shelf(a)[j] = x BY <2>1, <2>6, ListIs DEF AreItems
  <2>8. x \notin WithText(Shelf(a))
    <3>1. \A p \in 1 .. Len(<<>>) : FALSE OBVIOUS
    <3> QED BY <2>5, <2>7, <3>1 DEF ChosenAt
  <2>9. Z!TextSubs(x) = <<>> BY <2>1, <2>8 DEF WithText
  <2>10. IsItem(x) BY <2>6, <2>7 DEF AreItems
  <2> QED BY <2>9, <2>10, NoText
<1> HIDE DEF U
<1> QED BY <1>10, <1>11, <1>12, JobsWiden

\* What a request makes of the library: the jobs of the tracks it asks for, each once.
LEMMA AllJobsAre ==
    ASSUME NEW wish, NEW ss,
           ss = [p \in DOMAIN Z!FetchSeries |->
                    Z!EpisodeJobs(<<Z!FetchSeries[p].title>>, Z!FetchSeries[p], Z!LangSet(wish))]
    PROVE  JobsAre(Z!MovieJobs(Z!LangSet(wish)) \o Joined(ss),
                   Range(Library.movies) \cup UNION {Range(s.episodes) : s \in Range(Library.series)},
                   wish)
<1> DEFINE js == Z!MovieJobs(Z!LangSet(wish))
<1> DEFINE ks == Joined(ss)
<1>1. JobsAre(js, Range(Shelf(0)), wish) BY MovieJobsAre
<1>2. JobsAre(ks, AllEpisodes, wish) BY SeriesJobsAre
<1>3. \A x \in Range(Shelf(0)), y \in AllEpisodes : x.id # y.id
  <2> SUFFICES ASSUME NEW x \in Range(Shelf(0)), NEW y \in AllEpisodes, x.id = y.id
               PROVE  FALSE
      OBVIOUS
  <2>1. PICK a \in 1 .. Len(Library.series) : y \in Range(Shelf(a)) BY DEF AllEpisodes
  <2>2. 0 = a BY <2>1, SeriesIs, ShelfHas
  <2> QED BY <2>2
<1> HIDE DEF js, ks
<1>4. JobsAre(js \o ks, Range(Shelf(0)) \cup AllEpisodes, wish) BY <1>1, <1>2, <1>3, JoinAre
<1>5. AllEpisodes = UNION {Range(s.episodes) : s \in Range(Library.series)}
  <2>1. \A a \in 1 .. Len(Library.series) :
           Library.series[a] \in Range(Library.series) /\ Shelf(a) = Library.series[a].episodes
      BY SeriesIs, ListIs
  <2>2. \A s \in Range(Library.series) : \E a \in 1 .. Len(Library.series) : Library.series[a] = s
      BY SeriesIs, ListIs
  <2>3. ASSUME NEW x \in AllEpisodes
        PROVE  x \in UNION {Range(s.episodes) : s \in Range(Library.series)}
    <3>1. PICK a \in 1 .. Len(Library.series) : x \in Range(Shelf(a)) BY DEF AllEpisodes
    <3> QED BY <2>1, <3>1
  <2>4. ASSUME NEW s \in Range(Library.series), NEW x \in Range(s.episodes)
        PROVE  x \in AllEpisodes
    <3>1. PICK a \in 1 .. Len(Library.series) : Library.series[a] = s BY <2>2
    <3> QED BY <2>1, <3>1 DEF AllEpisodes
  <2> QED BY <2>3, <2>4
<1> QED BY <1>4, <1>5, SeriesIs DEF js, ks

LEMMA SeriesOfWishAre ==
    ASSUME NEW wish, NEW s \in Range(Library.series)
    PROVE  JobsAre(Z!EpisodeJobs(<<>>, s, Z!LangSet(wish)), Range(s.episodes), wish)
<1>1. PICK a \in 1 .. Len(Library.series) : Library.series[a] = s BY SeriesIs, ListIs
<1> DEFINE dir == <<>>
<1> HIDE DEF dir
<1>2. JobsAre(Z!EpisodeJobs(dir, Library.series[a], Z!LangSet(wish)), Range(Shelf(a)), wish)
    BY EpisodeJobsAre
<1> QED BY <1>1, <1>2, SeriesIs DEF dir

\* The jobs from a to b, in order; and a list with an entry for each job of s.
Places(batch, a, b) == batch = [k \in 1 .. b - a + 1 |-> a + k - 1]
Entries(E, s) == E = [k \in 1 .. Len(s) |-> E[k]] /\ \A k \in 1 .. Len(s) : E[k].job = s[k]

\* The jobs of a batch that came, in their order.
LEMMA BatchIs ==
    ASSUME NEW a \in Nat, NEW b \in Nat, a <= b, NEW G, G \subseteq a .. b,
           NEW batch, Places(batch, a, b)
    PROVE  LET s == Filter(batch, G) IN
           /\ IsList(s)
           /\ \A p \in 1 .. Len(s) : s[p] \in G
           /\ \A j \in G : \E p \in 1 .. Len(s) : s[p] = j
           /\ \A p, q \in 1 .. Len(s) : p < q => s[p] < s[q]
<1> DEFINE n == b - a + 1
<1> DEFINE s == Filter(batch, G)
<1>1. n \in Nat OBVIOUS
<1>2. batch \in Seq(Int) /\ Len(batch) = n
  <2>1. DOMAIN batch = 1 .. n /\ \A k \in 1 .. n : batch[k] \in Int BY DEF Places
  <2>2. batch = [k \in 1 .. n |-> batch[k]] BY DEF Places
  <2> HIDE DEF n
  <2> QED BY <1>1, <2>1, <2>2, TableIsList
<1>3. \A k \in 1 .. n : batch[k] = a + k - 1 BY DEF Places
<1>4. \A j \in a .. b : j - a + 1 \in 1 .. n /\ a + (j - a + 1) - 1 = j OBVIOUS
<1> HIDE DEF n
<1>5. s \in Seq(Int) BY <1>2, FilterType
<1>6. PICK from : PlacesOf(from, s, batch, n, G) BY <1>2, FilterFrom
<1> HIDE DEF s
<1>7. IsList(s) /\ Len(s) \in Nat BY <1>5, ListOf
<1>8. \A p \in 1 .. Len(s) : from[p] \in 1 .. n /\ s[p] = a + from[p] - 1
    BY <1>3, <1>6 DEF PlacesOf
<1>9. ASSUME NEW p \in 1 .. Len(s) PROVE s[p] \in G
  <2>1. batch[from[p]] \in G BY <1>6, <1>8 DEF PlacesOf
  <2> QED BY <1>6, <2>1 DEF PlacesOf
<1>10. ASSUME NEW j \in G PROVE \E p \in 1 .. Len(s) : s[p] = j
  <2>1. j \in a .. b OBVIOUS
  <2>2. j - a + 1 \in 1 .. n /\ batch[j - a + 1] = j BY <1>3, <1>4, <2>1
  <2>3. PICK p \in 1 .. Len(s) : from[p] = j - a + 1 BY <1>6, <2>2 DEF PlacesOf
  <2>4. s[p] = batch[from[p]] BY <1>6 DEF PlacesOf
  <2> QED BY <2>2, <2>3, <2>4
<1>11. ASSUME NEW p \in 1 .. Len(s), NEW q \in 1 .. Len(s), p < q PROVE s[p] < s[q]
  <2>1. from[p] < from[q] BY <1>6, <1>11 DEF PlacesOf
  <2> QED BY <1>1, <1>8, <2>1
<1>12. /\ IsList(s)
       /\ \A p \in 1 .. Len(s) : s[p] \in G
       /\ \A j \in G : \E p \in 1 .. Len(s) : s[p] = j
       /\ \A p, q \in 1 .. Len(s) : p < q => s[p] < s[q]
    BY <1>7, <1>9, <1>10, <1>11
<1> QED BY <1>12 DEF s

\* A longer list of entries: those there were, then one for each of these jobs.
Grown(t, z, s) ==
    /\ IsList(t) /\ Len(t) = Len(z) + Len(s) /\ Len(z) \in Nat /\ Len(s) \in Nat
    /\ \A p \in 1 .. Len(z) : t[p] = z[p]
    /\ \A k \in 1 .. Len(s) : t[Len(z) + k].job = s[k]
LEMMA EntriesGrow ==
    ASSUME NEW z, IsList(z), NEW s, IsList(s), NEW E, Entries(E, s)
    PROVE  Grown(z \o E, z, s)
<1> DEFINE A == Range(z) \cup Range(E)
<1> DEFINE t == z \o E
<1>1. Len(s) \in Nat /\ Len(z) \in Nat /\ DOMAIN z = 1 .. Len(z) /\ z = [p \in 1 .. Len(z) |-> z[p]]
    BY ListIs DEF IsList
<1>2. IsList(E) /\ Len(E) = Len(s) /\ DOMAIN E = 1 .. Len(s) BY <1>1, TableIs DEF Entries
<1>3. (\A p \in 1 .. Len(z) : z[p] \in A) /\ (\A k \in 1 .. Len(s) : E[k] \in A)
    BY <1>2, ListIs
<1> HIDE DEF A
<1>4. z \in Seq(A) BY <1>1, <1>3, TableIsList
<1>5. E \in Seq(A) BY <1>1, <1>2, <1>3, TableIsList DEF Entries
<1>6. /\ t \in Seq(A) /\ Len(t) = Len(z) + Len(E)
      /\ \A p \in 1 .. Len(z) : t[p] = z[p]
      /\ \A k \in 1 .. Len(E) : t[Len(z) + k] = E[k]
    BY <1>4, <1>5, ConcatIs
<1>7. IsList(t) BY <1>6, ListOf
<1> QED BY <1>1, <1>2, <1>6, <1>7 DEF Entries, Grown

Good == {j \in start .. Z!LastJob : bodies[j] # "nil"}
Written == Filter(Z!InBatch, Good)

\* A batch goes through its jobs once, in order, and what came is in the zip when it is written.
ZipInv ==
    /\ start \in Nat \ {0} /\ IsList(jobs) /\ IsList(zip)
    /\ zipPc = "idle" => start = 1 /\ DOMAIN bodies = {} /\ Len(zip) = 0 /\ came = {}
    /\ zipPc # "idle" => JobsAre(jobs, scope, langs)
    /\ zipPc = "done" => start > Len(jobs)
    /\ DOMAIN bodies \subseteq start .. Z!LastJob
    /\ came \subseteq 1 .. Len(jobs)
    /\ \A j \in came : j >= start => j \in DOMAIN bodies /\ bodies[j] # "nil"
    /\ \A j \in DOMAIN bodies : bodies[j] # "nil" => j \in came
    /\ \A j \in came : j < start => \E p \in 1 .. Len(zip) : zip[p].job = j
    /\ \A p \in 1 .. Len(zip) : zip[p].job \in came /\ zip[p].job < start
    /\ \A p, q \in 1 .. Len(zip) : p < q => zip[p].job < zip[q].job

LEMMA InitZip == Z!Init => ZipInv
<1> SUFFICES ASSUME Z!Init PROVE ZipInv
    OBVIOUS
<1>1. \A A : A = <<>> => IsList(A) /\ Len(A) = 0 /\ DOMAIN A = {}
    BY DEF IsList
<1>2. \A p \in 1 .. 0 : FALSE OBVIOUS
<1> QED BY <1>1, <1>2 DEF Z!Init, ZipInv

LEMMA BeginZip ==
    ASSUME ZipInv, NEW wish, NEW js, NEW shelf, Z!Begin(wish, js, shelf), JobsAre(js, shelf, wish)
    PROVE  ZipInv'
<1>1. /\ zipPc = "idle" /\ zipPc' = "batch" /\ jobs' = js /\ langs' = wish /\ scope' = shelf
      /\ start' = start /\ bodies' = bodies /\ zip' = zip /\ came' = came
    BY DEF Z!Begin
<1>2. start = 1 /\ DOMAIN bodies = {} /\ Len(zip) = 0 /\ came = {} /\ IsList(zip)
    BY <1>1 DEF ZipInv
<1>3. IsList(jobs') /\ JobsAre(jobs', scope', langs') BY <1>1 DEF JobsAre
<1>4. \A p \in 1 .. 0 : FALSE OBVIOUS
<1> QED BY <1>1, <1>2, <1>3, <1>4 DEF ZipInv

LEMMA EverythingZip ==
    ASSUME ZipInv, NEW wish, Z!DownloadEverything(wish) PROVE ZipInv'
<1> DEFINE ss == [p \in DOMAIN Z!FetchSeries |->
                    Z!EpisodeJobs(<<Z!FetchSeries[p].title>>, Z!FetchSeries[p], Z!LangSet(wish))]
<1> DEFINE js == Z!MovieJobs(Z!LangSet(wish)) \o Joined(ss)
<1> DEFINE shelf ==
        Range(Library.movies) \cup UNION {Range(s.episodes) : s \in Range(Library.series)}
<1>1. JobsAre(js, shelf, wish) BY AllJobsAre
<1>2. Z!Begin(wish, Z!MovieJobs(Z!LangSet(wish)) \o Z!Joined(ss),
              Z!Range(Library.movies) \cup UNION {Z!Range(s.episodes) : s \in Z!Range(Library.series)})
    BY Zenon DEF Z!DownloadEverything
<1>3. Z!Range(Library.movies) \cup UNION {Z!Range(s.episodes) : s \in Z!Range(Library.series)} = shelf
  <2>1. Z!Range(Library.movies) = Range(Library.movies)
        /\ Z!Range(Library.series) = Range(Library.series)
      BY SameLoops
  <2>2. \A s : Z!Range(s.episodes) = Range(s.episodes) BY SameLoops
  <2> QED BY <2>1, <2>2
<1> HIDE DEF ss, shelf
<1>4. Z!Joined(ss) = Joined(ss) BY SameLoops
<1>5. Z!Begin(wish, js, shelf) BY <1>2, <1>3, <1>4
<1> HIDE DEF js
<1> QED BY <1>1, <1>5, BeginZip

LEMMA SeriesZip ==
    ASSUME ZipInv, NEW wish, NEW s \in Range(Library.series), Z!DownloadAll(wish, s) PROVE ZipInv'
<1> DEFINE js == Z!EpisodeJobs(<<>>, s, Z!LangSet(wish))
<1>1. JobsAre(js, Range(s.episodes), wish) BY SeriesOfWishAre
<1>2. Z!Begin(wish, js, Z!Range(s.episodes)) BY DEF Z!DownloadAll
<1>3. Z!Begin(wish, js, Range(s.episodes)) BY <1>2, SameLoops
<1> HIDE DEF js
<1> QED BY <1>1, <1>3, BeginZip

LEMMA BodyZip ==
    ASSUME ZipInv, NEW j \in 1 .. Len(jobs), NEW body, Z!Body(j, body) PROVE ZipInv'
<1>1. /\ zipPc = "batch" /\ j \in start .. Z!LastJob /\ j \notin DOMAIN bodies
      /\ bodies' = [k \in DOMAIN bodies \cup {j} |-> IF k = j THEN body ELSE bodies[k]]
      /\ came' = (IF body = "nil" THEN came ELSE came \cup {j})
      /\ UNCHANGED <<zipPc, jobs, langs, scope, start, seen, zip>>
    BY DEF Z!Body, Z!request
<1>2. /\ start \in Nat \ {0} /\ IsList(jobs) /\ IsList(zip) /\ JobsAre(jobs, scope, langs)
      /\ DOMAIN bodies \subseteq start .. Z!LastJob /\ came \subseteq 1 .. Len(jobs)
      /\ zipPc' = "batch"
    BY <1>1 DEF ZipInv
<1>3. Z!LastJob' = Z!LastJob /\ JobsAre(jobs, scope, langs)' /\ IsList(jobs)' /\ IsList(zip)'
    BY <1>1, <1>2 DEF Z!LastJob, JobsAre
<1>4. DOMAIN bodies' = DOMAIN bodies \cup {j} /\ bodies'[j] = body
      /\ \A k \in DOMAIN bodies : k # j /\ bodies'[k] = bodies[k]
    BY <1>1
<1>5. DOMAIN bodies' \subseteq start' .. Z!LastJob' BY <1>1, <1>2, <1>3, <1>4
<1>6. came' \subseteq 1 .. Len(jobs') BY <1>1, <1>2
<1>7. \A k \in came' : k >= start' => k \in DOMAIN bodies' /\ bodies'[k] # "nil"
    BY <1>1, <1>4 DEF ZipInv
<1>8. \A k \in DOMAIN bodies' : bodies'[k] # "nil" => k \in came'
    BY <1>1, <1>4 DEF ZipInv
<1>9. \A k \in came' : k < start' => \E p \in 1 .. Len(zip') : zip'[p].job = k
  <2>1. ~(j < start) BY <1>1, <1>2
  <2> QED BY <1>1, <2>1 DEF ZipInv
<1>10. \A p \in 1 .. Len(zip') : zip'[p].job \in came' /\ zip'[p].job < start'
    BY <1>1 DEF ZipInv
<1>11. \A p, q \in 1 .. Len(zip') : p < q => zip'[p].job < zip'[q].job
    BY <1>1 DEF ZipInv
<1> QED BY <1>1, <1>2, <1>3, <1>5, <1>6, <1>7, <1>8, <1>9, <1>10, <1>11 DEF ZipInv

LEMMA WriteZip == ASSUME ZipInv, Z!Write PROVE ZipInv'
<1> DEFINE last == Z!LastJob
<1>1. /\ Z!Batched /\ start' = start + Batch /\ bodies' = <<>>
      /\ UNCHANGED <<zipPc, jobs, langs, scope, came>>
    BY DEF Z!Write, Z!WriteJobs, Z!request
<1>2. /\ zipPc = "batch" /\ start <= Len(jobs) /\ DOMAIN bodies = start .. last
    BY <1>1 DEF Z!Batched
<1>3. /\ start \in Nat \ {0} /\ IsList(jobs) /\ IsList(zip) /\ JobsAre(jobs, scope, langs)
      /\ came \subseteq 1 .. Len(jobs) /\ Batch \in Nat \ {0} /\ Len(jobs) \in Nat
    BY <1>2, ListIs, LibraryAssumption DEF ZipInv
<1>4. last \in Nat /\ start <= last /\ last < start + Batch BY <1>2, <1>3 DEF Z!LastJob
<1>5. \E E : Entries(E, Written) /\ zip' = zip \o E
  <2>1. Z!WriteJobs(Written)
    <3>1. Z!WriteJobs(Z!Filter(Z!InBatch, Good)) BY DEF Z!Write, Good
    <3>2. Z!Filter(Z!InBatch, Good) = Written BY SameLoops DEF Written
    <3> QED BY <3>1, <3>2
  <2> DEFINE js == Written
  <2> HIDE DEF js
  <2>2. Z!WriteJobs(js) BY <2>1 DEF js
  <2>3. \E E : Entries(E, js) /\ zip' = zip \o E
    <3>1. \E nm : zip' = zip \o [k \in 1 .. Len(js) |-> [name |-> nm[k], job |-> js[k]]]
      <4> DEFINE name(k) == jobs[js[k]].name
      <4> DEFINE given[k \in 0 .. Len(js)] ==
                    IF k = 0 THEN seen ELSE Z!Count(given[k - 1], name(k))
      <4> DEFINE nm == [k \in 1 .. Len(js) |-> Z!UniqueName(given[k - 1], name(k))]
      <4>1. zip' = zip \o [k \in 1 .. Len(js) |->
                              [name |-> Z!UniqueName(given[k - 1], name(k)), job |-> js[k]]]
          BY <2>2, Zenon DEF Z!WriteJobs
      <4> HIDE DEF given, name
      <4>2. [k \in 1 .. Len(js) |-> [name |-> Z!UniqueName(given[k - 1], name(k)), job |-> js[k]]]
            = [k \in 1 .. Len(js) |-> [name |-> nm[k], job |-> js[k]]]
          OBVIOUS
      <4> HIDE DEF nm
      <4> QED BY <4>1, <4>2
    <3>2. PICK nm : zip' = zip \o [k \in 1 .. Len(js) |-> [name |-> nm[k], job |-> js[k]]]
        BY <3>1
    <3> DEFINE E == [k \in 1 .. Len(js) |-> [name |-> nm[k], job |-> js[k]]]
    <3>3. Entries(E, js) BY DEF Entries
    <3>4. zip' = zip \o E BY <3>2
    <3> HIDE DEF E
    <3> QED BY <3>3, <3>4
  <2> QED BY <2>3 DEF js
<1>6. /\ IsList(Written)
      /\ \A p \in 1 .. Len(Written) : Written[p] \in Good
      /\ \A j \in Good : \E p \in 1 .. Len(Written) : Written[p] = j
      /\ \A p, q \in 1 .. Len(Written) : p < q => Written[p] < Written[q]
  <2>1. Good \subseteq start .. last BY DEF Good
  <2>2. Z!InBatch = [k \in 1 .. last - start + 1 |-> start + k - 1] BY DEF Z!InBatch
  <2> DEFINE a == start
  <2> DEFINE G == Good
  <2> DEFINE batch == Z!InBatch
  <2>3. a \in Nat /\ last \in Nat /\ a <= last /\ G \subseteq a .. last
      BY <1>3, <1>4, <2>1
  <2>4. Places(batch, a, last) BY <2>2 DEF Places
  <2> DEFINE s == Filter(batch, G)
  <2> HIDE DEF last, a, G, batch
  <2>5. /\ IsList(s)
        /\ \A p \in 1 .. Len(s) : s[p] \in G
        /\ \A j \in G : \E p \in 1 .. Len(s) : s[p] = j
        /\ \A p, q \in 1 .. Len(s) : p < q => s[p] < s[q]
      BY <2>3, <2>4, BatchIs, Zenon
  <2> HIDE DEF s
  <2>6. s = Written BY DEF s, Written, batch, G
  <2> QED BY <2>5, <2>6 DEF G
<1> DEFINE n == Len(zip)
<1> DEFINE m == Len(Written)
<1>7. /\ IsList(zip') /\ Len(zip') = n + m /\ n \in Nat /\ m \in Nat
      /\ \A p \in 1 .. n : zip'[p] = zip[p]
      /\ \A k \in 1 .. m : zip'[n + k].job = Written[k]
  <2>1. PICK E : Entries(E, Written) /\ zip' = zip \o E BY <1>5
  <2>2. IsList(zip) /\ IsList(Written) BY <1>3, <1>6
  <2>3. Grown(zip \o E, zip, Written) BY <2>1, <2>2, EntriesGrow
  <2>4. Grown(zip', zip, Written) BY <2>1, <2>3
  <2> QED BY <2>4 DEF Grown
<1>8. \A j \in Good : j \in start .. last /\ j \in came
    BY <1>2 DEF Good, ZipInv
<1>9. \A j \in came : j >= start => j \in Good
    BY <1>2 DEF Good, ZipInv
<1>10. /\ \A p \in 1 .. n : zip[p].job \in came /\ zip[p].job < start
       /\ \A p, q \in 1 .. n : p < q => zip[p].job < zip[q].job
       /\ \A j \in came : j < start => \E p \in 1 .. n : zip[p].job = j
    BY DEF ZipInv
<1>11. came \subseteq Nat /\ Good \subseteq Nat BY <1>3, <1>8
<1> HIDE DEF n, m, last
<1>12. ASSUME NEW p \in 1 .. n + m PROVE p \in 1 .. n \/ \E k \in 1 .. m : p = n + k
  <2>1. CASE p <= n BY <1>7, <2>1
  <2>2. CASE ~(p <= n)
    <3>1. p - n \in 1 .. m /\ p = n + (p - n) BY <1>7, <2>2
    <3> QED BY <3>1
  <2> QED BY <2>1, <2>2
<1>13. (\A p \in 1 .. n : p \in 1 .. n + m) /\ (\A k \in 1 .. m : n + k \in 1 .. n + m) BY <1>7
<1>14. \A k \in 1 .. m : Written[k] \in Good BY <1>6 DEF m
<1>15. \A p \in 1 .. n + m : zip'[p].job \in came /\ zip'[p].job < start + Batch
  <2>1. ASSUME NEW p \in 1 .. n PROVE zip'[p].job \in came /\ zip'[p].job < start + Batch
    <3>1. zip'[p].job \in came /\ zip'[p].job < start BY <1>7, <1>10
    <3>2. zip'[p].job \in Nat BY <1>11, <3>1
    <3> QED BY <1>3, <3>1, <3>2
  <2>2. ASSUME NEW k \in 1 .. m PROVE zip'[n + k].job \in came /\ zip'[n + k].job < start + Batch
    <3>1. zip'[n + k].job \in Good BY <1>7, <1>14
    <3>2. zip'[n + k].job \in start .. last /\ zip'[n + k].job \in came BY <1>8, <3>1
    <3> QED BY <1>3, <1>4, <3>2
  <2> QED BY <1>12, <2>1, <2>2
<1>16. ASSUME NEW j \in came PROVE \E p \in 1 .. n + m : zip'[p].job = j
  <2>1. CASE j < start
    <3>1. PICK p \in 1 .. n : zip[p].job = j BY <1>10, <2>1
    <3> QED BY <1>7, <1>13, <3>1
  <2>2. CASE ~(j < start)
    <3>1. j \in Good BY <1>3, <1>9, <1>11, <2>2
    <3>2. PICK k \in 1 .. m : Written[k] = j BY <1>6, <3>1 DEF m
    <3> QED BY <1>7, <1>13, <3>2
  <2> QED BY <2>1, <2>2
<1>17. ASSUME NEW p \in 1 .. n + m, NEW q \in 1 .. n + m, p < q PROVE zip'[p].job < zip'[q].job
  <2>1. CASE p \in 1 .. n /\ q \in 1 .. n BY <1>7, <1>10, <1>17, <2>1
  <2>2. CASE p \in 1 .. n /\ q \notin 1 .. n
    <3>1. PICK k \in 1 .. m : q = n + k BY <1>12, <2>2
    <3>2. zip'[p].job \in came /\ zip'[p].job < start BY <1>7, <1>10, <2>2
    <3>3. zip'[q].job \in start .. last BY <1>7, <1>8, <1>14, <3>1
    <3>4. \A x \in Nat : \A y \in start .. last : x < start => x < y BY <1>3, <1>4
    <3> QED BY <1>11, <3>2, <3>3, <3>4
  <2>3. CASE p \notin 1 .. n
    <3>1. PICK k \in 1 .. m : p = n + k BY <1>12, <2>3
    <3>2. q \notin 1 .. n BY <1>7, <1>17, <3>1
    <3>3. PICK l \in 1 .. m : q = n + l BY <1>12, <3>2
    <3>4. k < l BY <1>7, <1>17, <3>1, <3>3
    <3>5. Written[k] < Written[l] BY <1>6, <3>4 DEF m
    <3> QED BY <1>7, <3>1, <3>3, <3>5
  <2> QED BY <2>1, <2>2, <2>3
<1>18. DOMAIN bodies' = {}
  <2>1. \A x : x = <<>> => DOMAIN x = {} OBVIOUS
  <2> QED BY <1>1, <2>1
<1>19. start' \in Nat \ {0} /\ IsList(jobs') /\ IsList(zip') /\ JobsAre(jobs', scope', langs')
    BY <1>1, <1>3, <1>7
<1>20. \A j \in came' : ~(j >= start')
  <2>1. \A j \in came : j >= start => j \in start .. last BY <1>8, <1>9
  <2> QED BY <1>1, <1>3, <1>4, <1>11, <2>1
<1>21. zipPc' = "batch" BY <1>1, <1>2
<1> QED
    BY <1>1, <1>3, <1>7, <1>15, <1>16, <1>17, <1>18, <1>19, <1>20, <1>21, SMTT(30) DEF ZipInv

LEMMA CloseZip == ASSUME ZipInv, Z!Close PROVE ZipInv'
<1>1. /\ zipPc = "batch" /\ start > Len(jobs) /\ zipPc' = "done"
      /\ UNCHANGED <<jobs, langs, scope, start, bodies, zip, came>>
    BY DEF Z!Close, Z!request
<1> QED BY <1>1 DEF ZipInv, Z!LastJob

LEMMA HangUpZip == ASSUME ZipInv, Z!HangUp PROVE ZipInv'
<1>1. /\ zipPc = "batch" /\ zipPc' = "gone"
      /\ UNCHANGED <<jobs, langs, scope, start, bodies, zip, came>>
    BY DEF Z!HangUp, Z!request
<1> QED BY <1>1 DEF ZipInv, Z!LastJob

LEMMA ZipStays == ASSUME ZipInv, UNCHANGED Z!vars PROVE ZipInv'
BY DEF ZipInv, Z!vars, Z!request, Z!LastJob

LEMMA ZipInvStep == ZipInv /\ [Z!Next]_(Z!vars) => ZipInv'
<1> SUFFICES ASSUME ZipInv, [Z!Next]_(Z!vars) PROVE ZipInv'
    OBVIOUS
<1>1. CASE \E wish \in Wishes : Z!DownloadEverything(wish) BY <1>1, EverythingZip
<1>2. CASE \E wish \in Wishes : \E s \in Z!Range(Library.series) : Z!DownloadAll(wish, s)
  <2>1. Z!Range(Library.series) = Range(Library.series) BY SameLoops
  <2> QED BY <1>2, <2>1, SeriesZip
<1>3. CASE \E j \in 1 .. Len(jobs), body \in {"srt", "nil"} : Z!Body(j, body) BY <1>3, BodyZip
<1>4. CASE Z!Write BY <1>4, WriteZip
<1>5. CASE Z!Close BY <1>5, CloseZip
<1>6. CASE Z!HangUp BY <1>6, HangUpZip
<1>7. CASE UNCHANGED Z!vars BY <1>7, ZipStays
<1> QED BY <1>1, <1>2, <1>3, <1>4, <1>5, <1>6, <1>7 DEF Z!Next

LEMMA ZipHolds == Z!Spec => []Z!ZipHoldsWhatCame
<1>1. ZipInv => Z!ZipHoldsWhatCame
  <2> SUFFICES ASSUME ZipInv, zipPc = "done"
               PROVE  /\ UNION {Z!Tracks(item) : item \in scope} =
                            {<<j.id, j.index>> : j \in Z!Range(jobs)}
                      /\ \A p, q \in DOMAIN jobs :
                            p # q => <<jobs[p].id, jobs[p].index>> # <<jobs[q].id, jobs[q].index>>
                      /\ {entry.job : entry \in Z!Range(zip)} = came
                      /\ \A p, q \in DOMAIN zip : p < q => zip[p].job < zip[q].job
      BY DEF Z!ZipHoldsWhatCame
  <2>1. JobsAre(jobs, scope, langs) /\ IsList(jobs) /\ IsList(zip) /\ start > Len(jobs)
        /\ start \in Nat /\ came \subseteq 1 .. Len(jobs)
      BY DEF ZipInv
  <2>2. Z!Range(jobs) = Range(jobs) /\ Z!Range(zip) = Range(zip) BY SameLoops
  <2>3. \A item : Z!Tracks(item) = WishedTracks(item, langs)
    <3>1. \A item : Z!Range(item.streams) = Range(item.streams) BY SameLoops
    <3> QED BY <3>1 DEF Z!Tracks, WishedTracks, Asked
  <2>4. UNION {Z!Tracks(item) : item \in scope} = {<<j.id, j.index>> : j \in Range(jobs)}
    <3>1. ASSUME NEW item \in scope, NEW t \in Z!Tracks(item)
          PROVE  t \in {<<j.id, j.index>> : j \in Range(jobs)}
      <4>1. PICK p \in 1 .. Len(jobs) : JobKey(jobs[p]) = t BY <2>1, <2>3 DEF JobsAre
      <4>2. jobs[p] \in Range(jobs) BY <2>1, ListIs
      <4> QED BY <4>1, <4>2 DEF JobKey
    <3>2. ASSUME NEW j \in Range(jobs)
          PROVE  <<j.id, j.index>> \in UNION {Z!Tracks(item) : item \in scope}
      <4>1. PICK p \in 1 .. Len(jobs) : jobs[p] = j BY <2>1, ListIs
      <4>2. PICK item \in scope : JobKey(j) \in WishedTracks(item, langs)
          BY <2>1, <4>1 DEF JobsAre
      <4> QED BY <2>3, <4>2 DEF JobKey
    <3> QED BY <3>1, <3>2
  <2>5. \A p, q \in DOMAIN jobs :
           p # q => <<jobs[p].id, jobs[p].index>> # <<jobs[q].id, jobs[q].index>>
    <3>1. DOMAIN jobs = 1 .. Len(jobs) BY <2>1, ListIs
    <3> QED BY <2>1, <3>1 DEF JobsAre, JobKey
  <2>6. DOMAIN zip = 1 .. Len(zip) BY <2>1, ListIs
  <2>7. \A j \in came : j < start
    <3>1. Len(jobs) \in Nat BY <2>1, ListIs
    <3> QED BY <2>1, <3>1
  <2>8. {entry.job : entry \in Range(zip)} = came
    <3>1. ASSUME NEW entry \in Range(zip) PROVE entry.job \in came
      <4>1. PICK p \in 1 .. Len(zip) : zip[p] = entry BY <2>1, ListIs
      <4> QED BY <4>1 DEF ZipInv
    <3>2. ASSUME NEW j \in came PROVE \E entry \in Range(zip) : entry.job = j
      <4>1. PICK p \in 1 .. Len(zip) : zip[p].job = j BY <2>7 DEF ZipInv
      <4>2. zip[p] \in Range(zip) BY <2>1, ListIs
      <4> QED BY <4>1, <4>2
    <3> QED BY <3>1, <3>2
  <2>9. \A p, q \in DOMAIN zip : p < q => zip[p].job < zip[q].job BY <2>6 DEF ZipInv
  <2> QED BY <2>2, <2>4, <2>5, <2>8, <2>9
<1> QED BY <1>1, InitZip, ZipInvStep, PTL DEF Z!Spec

-----------------------------------------------------------------------------
(***************************************************************************)
(* CrossSeed.  What makes a tag true is what was known when it was about   *)
(* to be put: what a sweep only marks is an app's and was complete in a    *)
(* first sweep, and what it or the button tags has been asked about.       *)
(***************************************************************************)
TagInv ==
    /\ X!TagsAreTrue
    /\ \A t \in mark : category[t] # "manual" /\ t \in found
    /\ sweepPc = "tag" => Head(search) \in asked
    /\ pressed # X!NoPress => pressed.hash \in asked

LEMMA InitTag == X!Init => TagInv
BY DEF X!Init, TagInv, X!TagsAreTrue

LEMMA TagStep == TagInv /\ [X!Next]_(X!vars) => TagInv'
<1> SUFFICES ASSUME TagInv, [X!Next]_(X!vars) PROVE TagInv'
    OBVIOUS
<1> USE DEF TagInv, X!TagsAreTrue, X!qbit, X!loop, X!history, X!counts
<1>1. ASSUME NEW t \in X!Torrents, X!Add(t) \/ X!Finish(t) PROVE TagInv'
    BY <1>1 DEF X!Add, X!Finish
<1>2. ASSUME NEW t \in X!Torrents, X!Press(t) PROVE TagInv'
    BY <1>2 DEF X!Press
<1>3. CASE X!List
    <2>1. ASSUME NEW t \in mark' PROVE category[t] # "manual" /\ t \in found'
        BY <1>3, <2>1 DEF X!List, X!Wanted, X!OnlyMarked
    <2>2. /\ UNCHANGED <<tagged, asked, category, pressed>>
          /\ found \subseteq found' /\ sweepPc' = "mark"
        BY <1>3 DEF X!List
    <2> QED BY <2>1, <2>2
<1>4. CASE X!Mark BY <1>4 DEF X!Mark
<1>5. CASE X!Ask BY <1>5 DEF X!Ask
<1>6. CASE X!Tag BY <1>6 DEF X!Tag
<1>7. CASE X!Sleep \/ X!Wake \/ X!Fail BY <1>7 DEF X!Sleep, X!Wake, X!Fail
<1>8. CASE X!PressTags BY <1>8 DEF X!PressTags
<1>9. CASE X!Restart BY <1>9 DEF X!Restart
<1>10. CASE UNCHANGED X!vars BY <1>10 DEF X!vars
<1> QED BY <1>1, <1>2, <1>3, <1>4, <1>5, <1>6, <1>7, <1>8, <1>9, <1>10 DEF X!Next, X!Sweep

LEMMA CrossSeedTagsAreTrue == X!Spec => []X!TagsAreTrue
<1>1. TagInv => X!TagsAreTrue BY DEF TagInv
<1> QED BY <1>1, InitTag, TagStep, PTL DEF X!Spec
-----------------------------------------------------------------------------
(***************************************************************************)
(* The services side by side: of each, every step of the whole is a step   *)
(* or leaves it alone.                                                     *)
(***************************************************************************)
LEMMA StepsApart ==
    ASSUME [PartsNext]_allVars
    PROVE  /\ [Q!Next]_(Q!vars) /\ [X!Next]_(X!vars) /\ [Next]_vars
           /\ [Z!Next]_(Z!vars) /\ [W!Next]_(W!vars)
<1> USE DEF QuietStep, CrossSeedStep, LinksStep, ZipStep, WatchStep
<1>1. UNCHANGED quiet => UNCHANGED Q!vars
    BY DEF quiet, Q!vars, Q!mind, Q!history, Q!counts
<1>2. UNCHANGED crossSeed => UNCHANGED X!vars
    BY DEF crossSeed, X!vars, X!qbit, X!loop, X!history, X!counts
<1>3. UNCHANGED zips => UNCHANGED Z!vars
    BY DEF zips, Z!vars, Z!request
<1>4. UNCHANGED watch => UNCHANGED W!vars
    BY DEF watch, W!vars, W!sonarr, W!hook, W!log, W!push
<1>5. CASE UNCHANGED allVars BY <1>1, <1>2, <1>3, <1>4, <1>5 DEF allVars
<1>6. CASE PartsNext BY <1>1, <1>2, <1>3, <1>4, <1>6 DEF PartsNext
<1> QED BY <1>5, <1>6

LEMMA StartsApart == PartsInit => Q!Init /\ X!Init /\ Init /\ Z!Init /\ W!Init
BY DEF PartsInit

LEMMA PartsImplementEach == PartsSpec => Q!Spec /\ X!Spec /\ Spec /\ Z!Spec /\ W!Spec
BY StartsApart, StepsApart, PTL DEF PartsSpec, Q!Spec, X!Spec, Spec, Z!Spec, W!Spec

\* For any linger and any number of flips, restarts, lost answers and failing
\* calls: a turtle turned on by hand and not crossed is not turned off.
THEOREM HandIsKept == PartsSpec => HandKept
BY PartsImplementEach, QuietHandIsKept DEF HandKept

\* For any torrents, failing calls, refusals and restarts: a torrent tagged and
\* never asked about is an app's that a first sweep found complete.
THEOREM TagsStayTrue == PartsSpec => []TagsAreTrue
BY PartsImplementEach, CrossSeedTagsAreTrue DEF TagsAreTrue

\* For any series and any requests, visits and failures: a snapshot is never
\* replaced by what an earlier walk read.
THEOREM SnapshotNeverGoesBack == PartsSpec => NeverGoesBack
BY PartsImplementEach, LinksNeverGoBack

\* For any hooks, interleaved in any way: when no push is under way, none failed
\* and none was overtaken, Pushgateway shows the log as it is.
THEOREM GatewayStaysCurrent == PartsSpec => []GatewayIsCurrent
BY PartsImplementEach, WatchNextGateway DEF GatewayIsCurrent

\* Of a hook that ends well, every episode of the margin is monitored, and on the disk
\* or searched, but for those whose own call failed.
THEOREM EpisodesAreFetched == PartsSpec => []NextAreFetched
BY PartsImplementEach, WatchNextFetches DEF NextAreFetched

\* For any library and any wishes, whatever the calls of a batch do: a finished zip
\* holds exactly the tracks asked for that came, each once, in the order of its jobs.
THEOREM ZipsHoldWhatCame == PartsSpec => []ZipHoldsWhatCame
BY PartsImplementEach, ZipHolds DEF ZipHoldsWhatCame
=============================================================================
