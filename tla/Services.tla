------------------------------ MODULE Services ------------------------------
(***************************************************************************)
(* Five small services side by side: the limits while watching, the search *)
(* of cross-seed, the two halves of subtitle-links, and watch-next.  They  *)
(* share no state, so a behaviour is of one of them, the others standing   *)
(* at their start: whatever they did in between would show nothing more.   *)
(***************************************************************************)
EXTENDS SubtitleLinks, Sequences, FiniteSets

CONSTANTS
    AtHand,                                         \* the services at hand
    Linger, MaxPlays, MaxHand, MaxRestarts, MaxLost, QuietFailures,
    Order, Refused, MaxPresses, CrossSeedFailures, CrossSeedRestarts,
    Library, Batch, Wishes,
    Episodes, Margin, RecentLimit, Starts, Watches, MaxHooks, WatchFailures

VARIABLES
    which,
    playing, turtle, quietOn, age, quietPc, want, on, setBy, crossed,
    plays, hands, quietRestarts, lost, quietFailures,
    category, progress, tagged, sweepPc, baseline, mark, search, pressed, asked, found,
    atStart, swept, sweepFailures, sweepRestarts, presses,
    zipPc, jobs, langs, scope, start, bodies, seen, zip, came,
    monitored, hasFile, searched, hookPc, watched, real, i, toSearch, count, missed,
    actions, errors, events, pushes, flying, gateway, overtaken, hooks, watchFailures

\* SubtitleZip: the films, and the episodes of each series.
Shelf(a) == IF a = 0 THEN Library.movies ELSE Library.series[a].episodes

\* SubtitleZip: Jellyfin's ids are of one item, and a track's index of one track of it.
ASSUME LibraryAssumption ==
    /\ Batch \in Nat \ {0}
    /\ Library.series \in Seq({Library.series[a] : a \in 1 .. Len(Library.series)})
    /\ \A a \in 1 .. Len(Library.series) : Library.series[a].order \in Nat
    /\ \A a \in 0 .. Len(Library.series) :
          /\ Shelf(a) \in Seq({Shelf(a)[j] : j \in 1 .. Len(Shelf(a))})
          /\ \A j \in 1 .. Len(Shelf(a)) :
                LET item == Shelf(a)[j] IN
                /\ IF a = 0 THEN item.order \in Nat ELSE item.season \in Nat /\ item.episode \in Nat
                /\ item.streams \in Seq({item.streams[k] : k \in 1 .. Len(item.streams)})
                /\ \A k, l \in 1 .. Len(item.streams) :
                      item.streams[k].index = item.streams[l].index => k = l
                /\ \A b \in 0 .. Len(Library.series) : \A k \in 1 .. Len(Shelf(b)) :
                      Shelf(b)[k].id = item.id => a = b /\ j = k

\* WatchNext: an episode has numbers of its own in its series.
ASSUME WatchNextAssumption ==
    /\ IsFiniteSet(DOMAIN Episodes) /\ Margin \in Nat
    /\ \A e \in DOMAIN Episodes : Episodes[e] \in [season : Nat, number : Nat]
    /\ \A e, f \in DOMAIN Episodes : Episodes[e] = Episodes[f] => e = f

Q == INSTANCE Quiet WITH pc <- quietPc, restarts <- quietRestarts, failures <- quietFailures,
                         MaxFailures <- QuietFailures
X == INSTANCE CrossSeed WITH pc <- sweepPc, failures <- sweepFailures, restarts <- sweepRestarts,
                             MaxFailures <- CrossSeedFailures, MaxRestarts <- CrossSeedRestarts
Z == INSTANCE SubtitleZip WITH pc <- zipPc
W == INSTANCE WatchNext WITH pc <- hookPc, asked <- searched, spawned <- pushes,
                             failures <- watchFailures, MaxFailures <- WatchFailures

quiet == <<playing, turtle, quietOn, age, quietPc, want, on, setBy, crossed,
           plays, hands, quietRestarts, lost, quietFailures>>
crossSeed == <<category, progress, tagged, sweepPc, baseline, mark, search, pressed, asked,
               found, atStart, swept, sweepFailures, sweepRestarts, presses>>
zips == <<zipPc, jobs, langs, scope, start, bodies, seen, zip, came>>
watch == <<monitored, hasFile, searched, hookPc, watched, real, i, toSearch, count, missed,
           actions, errors, events, pushes, flying, gateway, overtaken, hooks, watchFailures>>
allVars == <<which, quiet, crossSeed, vars, zips, watch>>

PartsInit ==
    /\ which \in AtHand
    /\ Q!Init /\ (which = "quiet" \/ ~(playing \/ turtle))
    /\ IF which = "crossSeed" THEN X!Init
       ELSE /\ category = [t \in X!Torrents |-> "manual"]
            /\ progress = [t \in X!Torrents |-> "absent"]
            /\ tagged = {} /\ X!Init
    /\ Init /\ Z!Init /\ W!Init

QuietStep(A) == which = "quiet" /\ A /\ UNCHANGED <<which, crossSeed, vars, zips, watch>>
CrossSeedStep(A) == which = "crossSeed" /\ A /\ UNCHANGED <<which, quiet, vars, zips, watch>>
LinksStep(A) == which = "links" /\ A /\ UNCHANGED <<which, quiet, crossSeed, zips, watch>>
ZipStep(A) == which = "zip" /\ A /\ UNCHANGED <<which, quiet, crossSeed, vars, watch>>
WatchStep(A) == which = "watch" /\ A /\ UNCHANGED <<which, quiet, crossSeed, vars, zips>>

PartsNext ==
    \/ QuietStep(Q!Next) \/ CrossSeedStep(X!Next) \/ LinksStep(Next)
    \/ ZipStep(Z!Next) \/ WatchStep(W!Next)

PartsSpec == PartsInit /\ [][PartsNext]_allVars

\* quietWhileWatching and pollLoop never end; a walk that has begun goes on, and a
\* stale visit's goroutine runs.
FairSpec ==
    /\ PartsSpec
    /\ WF_allVars(QuietStep(Q!Step))
    /\ WF_allVars(CrossSeedStep(X!Sweep))
    /\ WF_allVars(LinksStep(BehindVisit))
    /\ \A w \in Walkers : WF_allVars(LinksStep(Walking(w)))
-----------------------------------------------------------------------------
\* Quiet: a turtle set by hand is not turned off by the service.
HandKept == Q!HandKept
\* Quiet: while something goes on playing the limits end up on.
QuietWhileWatching == Q!QuietWhileWatching
\* Quiet: the limits the service set do not outlive the playing.
LimitsLifted == Q!LimitsLifted
\* CrossSeed: the xseed tag says cross-seed was asked.
TagsAreTrue == X!TagsAreTrue
\* CrossSeed: no failed call and no restart loses a torrent that completed.
EveryTorrentIsTagged == X!EveryTorrentIsTagged
\* CrossSeed: at startup an app's torrent is not asked about.
StartupIsNoBurst == X!StartupIsNoBurst
\* SubtitleZip: a finished zip holds exactly what was asked for and came.
ZipHoldsWhatCame == Z!ZipHoldsWhatCame
\* WatchNext: the episodes of the margin are monitored, and there or searched.
NextAreFetched == W!NextAreFetched
\* WatchNext: with no push under way or lost, Pushgateway shows the log.
GatewayIsCurrent == W!GatewayIsCurrent
=============================================================================
