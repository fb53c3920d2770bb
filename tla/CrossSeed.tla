----------------------------- MODULE CrossSeed -----------------------------
(***************************************************************************)
(* Asking cross-seed about every torrent that completes: the poll loop and *)
(* the button of services/torrent-drop.  What was asked about is a tag in  *)
(* qBittorrent, so that a restart does not ask again; a restart marks what *)
(* it finds complete, without asking.                                      *)
(***************************************************************************)
EXTENDS Naturals, Sequences, SequencesExt

CONSTANTS
    Order,        \* the torrents, as qBittorrent lists them
    Refused,      \* torrents cross-seed answers an error about, always
    MaxFailures,  \* bound: calls that fail, to either service
    MaxRestarts,  \* bound: restarts of torrent-drop
    MaxPresses    \* bound: presses of the search button

Torrents == Range(Order)

VARIABLES
    category,     \* "manual", "cross-seed-link", or the one of an app
    progress,     \* "absent", "downloading", "complete"
    tagged,       \* torrents with the xseed tag
    pc,           \* where the sweep is
    baseline,     \* the parameter of the sweep
    mark, search, \* its two lists
    pressed,      \* the torrent the button was pressed for, and its step
    asked,        \* history: torrents cross-seed answered about
    found,        \* history: torrents a first sweep found complete
    atStart,      \* history: torrents complete when torrent-drop started
    swept,        \* history: torrents this process's sweeps asked about
    failures, restarts, presses

qbit == <<category, progress, tagged>>
loop == <<pc, baseline, mark, search>>
history == <<asked, found, atStart, swept>>
counts == <<failures, restarts, presses>>
vars == <<qbit, loop, pressed, history, counts>>

Complete == {t \in Torrents : progress[t] = "complete"}
NoPress == [step |-> "idle"]

Init ==
    /\ category \in [Torrents -> {"manual", "radarr", "cross-seed-link"}]
    /\ progress \in [Torrents -> {"absent", "downloading", "complete"}]
    /\ tagged \in SUBSET {t \in Complete : category[t] # "cross-seed-link"}
    /\ pc = "list" /\ baseline = TRUE
    /\ mark = {} /\ search = <<>>
    /\ pressed = NoPress
    /\ asked = tagged /\ found = {} /\ atStart = Complete /\ swept = {}
    /\ failures = 0 /\ restarts = 0 /\ presses = 0
-----------------------------------------------------------------------------
\* The page's add for a manual torrent, an app for the others.
Add(t) ==
    /\ progress[t] = "absent"
    /\ progress' = [progress EXCEPT ![t] = "downloading"]
    /\ UNCHANGED <<category, tagged, loop, pressed, history, counts>>

Finish(t) ==
    /\ progress[t] = "downloading"
    /\ progress' = [progress EXCEPT ![t] = "complete"]
    /\ UNCHANGED <<category, tagged, loop, pressed, history, counts>>
-----------------------------------------------------------------------------
\* A call fails: the sweep returns, and pollLoop sleeps, no longer at baseline.
Fail ==
    /\ failures < MaxFailures
    /\ pc \in {"list", "mark", "ask", "tag"}
    /\ failures' = failures + 1
    /\ pc' = "sleep" /\ baseline' = FALSE
    /\ UNCHANGED <<qbit, mark, search, pressed, history, restarts, presses>>

\* Mutant: what was asked is remembered, instead of what was tagged.
WantedUnasked(t) == t \in Complete /\ category[t] # "cross-seed-link" /\ t \notin asked

\* What a sweep has to deal with: complete, no link of cross-seed's, no tag.
Wanted(t) == t \in Complete /\ category[t] # "cross-seed-link" /\ t \notin tagged

\* On the baseline pass a torrent is marked and not searched, unless manual.
OnlyMarked(t) == baseline /\ category[t] # "manual"

\* qBittorrent's list, split into what is only marked and what is searched.
List ==
    /\ pc = "list"
    /\ mark' = {t \in Torrents : Wanted(t) /\ OnlyMarked(t)}
    /\ search' = SelectSeq(Order, LAMBDA t : Wanted(t) /\ ~OnlyMarked(t))
    /\ found' = IF baseline THEN found \union Complete ELSE found
    /\ pc' = "mark"
    /\ UNCHANGED <<qbit, baseline, pressed, asked, atStart, swept, counts>>

\* Mutant: what is about to be searched is tagged in the same call.
MarkBatch ==
    /\ pc = "mark"
    /\ tagged' = tagged \union mark \union Range(search)
    /\ pc' = "ask"
    /\ UNCHANGED <<category, progress, baseline, mark, search, pressed, history, counts>>

Mark ==
    /\ pc = "mark"
    /\ tagged' = tagged \union mark
    /\ pc' = "ask"
    /\ UNCHANGED <<category, progress, baseline, mark, search, pressed, history, counts>>

\* askCrossSeed for the next one: a refusal ends the sweep, as a failure does.
Ask ==
    /\ pc = "ask"
    /\ search # <<>>
    /\ IF Head(search) \in Refused
         THEN pc' = "sleep" /\ baseline' = FALSE /\ UNCHANGED <<asked, swept>>
         ELSE /\ pc' = "tag" /\ UNCHANGED baseline
              /\ asked' = asked \union {Head(search)}
              /\ swept' = swept \union {Head(search)}
    /\ UNCHANGED <<qbit, mark, search, pressed, found, atStart, counts>>

Tag ==
    /\ pc = "tag"
    /\ tagged' = tagged \union {Head(search)}
    /\ search' = Tail(search)
    /\ pc' = "ask"
    /\ UNCHANGED <<category, progress, baseline, mark, pressed, history, counts>>

Sleep ==
    /\ pc = "ask" /\ search = <<>>
    /\ pc' = "sleep" /\ baseline' = FALSE
    /\ UNCHANGED <<qbit, mark, search, pressed, history, counts>>

\* Thirty seconds later.  (What is listed then is all that matters of it.)
Wake ==
    /\ pc = "sleep"
    /\ \E t \in Torrents : Wanted(t)
    /\ pc' = "list"
    /\ UNCHANGED <<qbit, baseline, mark, search, pressed, history, counts>>
-----------------------------------------------------------------------------
\* POST /api/cross-seed, of any infohash: ask, then tag; a refusal changes nothing,
\* a tag that fails is only logged.
Press(t) ==
    /\ presses < MaxPresses
    /\ pressed = NoPress
    /\ t \notin Refused
    /\ presses' = presses + 1
    /\ asked' = asked \union {t}
    /\ pressed' = [step |-> "tag", hash |-> t]
    /\ UNCHANGED <<qbit, loop, found, atStart, swept, failures, restarts>>

\* addTags passes over a torrent that qBittorrent does not have.
PressTags ==
    /\ pressed # NoPress
    /\ tagged' \in {tagged, tagged \union {t \in {pressed.hash} : progress[t] # "absent"}}
    /\ pressed' = NoPress
    /\ UNCHANGED <<category, progress, loop, history, counts>>

\* The container restarts, and starts over at baseline.
Restart ==
    /\ restarts < MaxRestarts
    /\ restarts' = restarts + 1
    /\ pc' = "list" /\ baseline' = TRUE /\ mark' = {} /\ search' = <<>>
    /\ pressed' = NoPress
    /\ atStart' = Complete /\ swept' = {}
    /\ UNCHANGED <<qbit, asked, found, failures, presses>>

Sweep == List \/ Mark \/ Ask \/ Tag \/ Sleep \/ Wake

Next ==
    \/ \E t \in Torrents : Add(t) \/ Finish(t) \/ Press(t)
    \/ Sweep \/ Fail \/ PressTags \/ Restart

Spec == Init /\ [][Next]_vars

\* pollLoop never ends.
FairSpec == Spec /\ WF_vars(Sweep)
-----------------------------------------------------------------------------
\* The xseed tag, and the page with it, says cross-seed was asked.  "Marking one
\* without searching it would have the page claim something it did not do", so
\* the only ones tagged unasked are an app's, complete when a sweep was the first.
TagsAreTrue ==
    \A t \in tagged \ asked : category[t] # "manual" /\ t \in found

\* "Anything that finishes from now on gets asked about" (or was there at the
\* start): no failed call and no restart loses a torrent.
EveryTorrentIsTagged ==
    \A t \in Torrents :
        t \in Complete /\ category[t] # "cross-seed-link" ~> t \in tagged

\* pollLoop: "The first pass only marks what is already complete", since asking
\* about all of them at once would be a burst of queries: at startup an app's
\* torrent is not asked about.
StartupIsNoBurst ==
    \A t \in swept \intersect atStart : category[t] = "manual"

\* "Every torrent gets a cross-seed search the moment it completes": another one
\* that cross-seed refuses does not take that away.
OthersAreAsked ==
    \A t \in Torrents \ Refused :
        t \in Complete /\ category[t] = "manual" ~> t \in asked
=============================================================================
