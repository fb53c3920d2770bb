------------------------------ MODULE WatchNext ------------------------------
(***************************************************************************)
(* watch-next (services/watch-next/main.go): Tautulli and Jellyfin report  *)
(* a watched episode, and the next ones of its series are monitored and    *)
(* searched in Sonarr, call by call.  What was done is kept in a short log *)
(* in memory and pushed whole, from a goroutine of its own per event.      *)
(* Sonarr's episodes (external): season, number, monitored, hasFile.       *)
(***************************************************************************)
EXTENDS Naturals, Sequences, FiniteSets

CONSTANTS
    Episodes,      \* id |-> [season, number], specials included, in no order
    Margin,        \* cfg.margin
    RecentLimit,   \* recentLimit: entries kept of each log
    Starts,        \* what Sonarr may have: [monitored, hasFile], sets of ids
    Watches,       \* the [season, number] a hook may name
    MaxHooks,      \* bound: hooks received
    MaxFailures    \* bound: calls and pushes that fail

Sources == {"tautulli", "jellyfin"}
Ids == DOMAIN Episodes
None == [season |-> 0, number |-> 0]

VARIABLES
    monitored, hasFile,  \* in Sonarr: sets of episode ids
    asked,               \* history: ids Sonarr was told to search
    pc, watched,         \* of each source's hook: where it is, what it names
    real, i,             \* its reading of the series, and the loop's place
    toSearch, count,     \* what it collected
    missed,              \* history: ids whose PUT failed in this hook
    actions, errors,     \* recentActions, recentErrors
    events,              \* history: entries recorded so far
    spawned, flying,     \* pushes not yet at the lock; bodies on their way
    gateway,             \* what Pushgateway shows: [events, actions, errors]
    overtaken,           \* history: a push landed after a later one
    hooks, failures

sonarr == <<monitored, hasFile, asked>>
hook == <<pc, watched, real, i, toSearch, count, missed>>
log == <<actions, errors, events>>
push == <<spawned, flying, gateway, overtaken>>
vars == <<sonarr, hook, log, push, hooks, failures>>

Window == [events |-> events, actions |-> actions, errors |-> errors]
Recent(seq, e) ==
    LET all == Append(seq, e)
    IN SubSeq(all, IF Len(all) > RecentLimit THEN Len(all) - RecentLimit + 1 ELSE 1, Len(all))

Init ==
    /\ \E start \in Starts : monitored = start.monitored /\ hasFile = start.hasFile
    /\ asked = {}
    /\ pc = [s \in Sources |-> "idle"]
    /\ watched = [s \in Sources |-> None]
    /\ real = [s \in Sources |-> <<>>] /\ i = [s \in Sources |-> 0]
    /\ toSearch = [s \in Sources |-> {}] /\ count = [s \in Sources |-> 0]
    /\ missed = [s \in Sources |-> {}]
    /\ actions = <<>> /\ errors = <<>> /\ events = 0
    /\ spawned = 1 /\ flying = {} /\ overtaken = FALSE
    /\ gateway = [events |-> 0, actions |-> <<>>, errors |-> <<>>]
    /\ hooks = 0 /\ failures = 0

Fail == failures < MaxFailures /\ failures' = failures + 1
-----------------------------------------------------------------------------
RecordAction(s) ==
    /\ actions' = Recent(actions, [source |-> s, monitored |-> count[s],
                                   searched |-> Cardinality(toSearch[s])])
    /\ events' = events + 1 /\ spawned' = spawned + 1
    /\ UNCHANGED <<errors, flying, gateway, overtaken>>

\* Mutant: what went wrong is recorded and not pushed.
RecordErrorSilent(s, reason) ==
    /\ errors' = Recent(errors, [source |-> s, reason |-> reason])
    /\ events' = events + 1
    /\ UNCHANGED <<actions, push>>

RecordError(s, reason) ==
    /\ errors' = Recent(errors, [source |-> s, reason |-> reason])
    /\ events' = events + 1 /\ spawned' = spawned + 1
    /\ UNCHANGED <<actions, flying, gateway, overtaken>>

\* A hook with the wrong token, no series or no episode in it: an error of its own.
Declined(s) ==
    /\ pc[s] = "idle" /\ hooks < MaxHooks
    /\ hooks' = hooks + 1
    /\ RecordError(s, "refused")
    /\ UNCHANGED <<sonarr, hook, failures>>

Hook(s, w) ==
    /\ pc[s] = "idle" /\ hooks < MaxHooks
    /\ hooks' = hooks + 1
    /\ pc' = [pc EXCEPT ![s] = "series"]
    /\ watched' = [watched EXCEPT ![s] = w]
    /\ UNCHANGED <<sonarr, real, i, toSearch, count, missed, log, push, failures>>

\* The handler returns, and with it go its variables.
Return(s) ==
    /\ pc' = [pc EXCEPT ![s] = "idle"]
    /\ watched' = [watched EXCEPT ![s] = None]
    /\ real' = [real EXCEPT ![s] = <<>>] /\ i' = [i EXCEPT ![s] = 0]
    /\ toSearch' = [toSearch EXCEPT ![s] = {}] /\ count' = [count EXCEPT ![s] = 0]
    /\ missed' = [missed EXCEPT ![s] = {}]

\* handleWatched returned an error.
Ends(s) == Return(s) /\ RecordError(s, "handle_failed") /\ UNCHANGED <<sonarr, hooks>>

LookupSeries(s) ==
    /\ pc[s] = "series"
    /\ pc' = [pc EXCEPT ![s] = "list"]
    /\ UNCHANGED <<sonarr, watched, real, i, toSearch, count, missed, log, push, hooks, failures>>

\* A call failed, or the series is not Sonarr's.
CallFails(s) == pc[s] \in {"series", "list", "search"} /\ Fail /\ Ends(s)

\* The series as one flat run, specials dropped.
Numbered == {e \in Ids : Episodes[e].season >= 1}
Before(a, b) ==
    \/ Episodes[a].season < Episodes[b].season
    \/ Episodes[a].season = Episodes[b].season /\ Episodes[a].number < Episodes[b].number
Run == CHOOSE f \in [1 .. Cardinality(Numbered) -> Numbered] :
           \A j, k \in DOMAIN f : j < k => Before(f[j], f[k])
Flat ==
    LET run == Run
    IN [k \in DOMAIN run |->
           [id |-> run[k], monitored |-> run[k] \in monitored, hasFile |-> run[k] \in hasFile]]

Place(w) == LET flat == Flat IN {k \in DOMAIN flat : Episodes[flat[k].id] = w}

ListEpisodes(s) ==
    /\ pc[s] = "list"
    /\ IF Place(watched[s]) = {} THEN Ends(s) /\ UNCHANGED failures
       ELSE /\ real' = [real EXCEPT ![s] = Flat]
            /\ i' = [i EXCEPT ![s] = (CHOOSE k \in Place(watched[s]) : TRUE) + 1]
            /\ pc' = [pc EXCEPT ![s] = "loop"]
            /\ UNCHANGED <<sonarr, watched, toSearch, count, missed, log, push, hooks, failures>>

Start(s) == CHOOSE k \in DOMAIN real[s] : Episodes[real[s][k].id] = watched[s]
\* Mutant: the margin counts the episode that was watched.
InMarginShort(s) == i[s] <= Len(real[s]) /\ i[s] < Start(s) + Margin
InMargin(s) == i[s] <= Len(real[s]) /\ i[s] <= Start(s) + Margin
This(s) == real[s][i[s]]

\* One turn of the loop: monitor what is not, collect what has no file.
Turn(s) ==
    /\ pc[s] = "loop" /\ InMargin(s)
    /\ monitored' = monitored \cup {This(s).id}
    /\ count' = [count EXCEPT ![s] = @ + (IF This(s).monitored THEN 0 ELSE 1)]
    /\ toSearch' = [toSearch EXCEPT ![s] = @ \cup (IF This(s).hasFile THEN {} ELSE {This(s).id})]
    /\ i' = [i EXCEPT ![s] = @ + 1]
    /\ UNCHANGED <<hasFile, asked, pc, watched, real, missed, log, push, hooks, failures>>

\* Its PUT failed: the episode is passed over.
TurnFails(s) ==
    /\ pc[s] = "loop" /\ InMargin(s) /\ ~This(s).monitored /\ Fail
    /\ missed' = [missed EXCEPT ![s] = @ \cup {This(s).id}]
    /\ i' = [i EXCEPT ![s] = @ + 1]
    /\ UNCHANGED <<sonarr, pc, watched, real, toSearch, count, log, push, hooks>>

LoopEnds(s) ==
    /\ pc[s] = "loop" /\ ~InMargin(s)
    /\ IF toSearch[s] = {} THEN pc' = [pc EXCEPT ![s] = "done"] /\ RecordAction(s)
       ELSE pc' = [pc EXCEPT ![s] = "search"] /\ UNCHANGED <<log, push>>
    /\ UNCHANGED <<sonarr, watched, real, i, toSearch, count, missed, hooks, failures>>

Search(s) ==
    /\ pc[s] = "search"
    /\ asked' = asked \cup toSearch[s]
    /\ pc' = [pc EXCEPT ![s] = "done"]
    /\ RecordAction(s)
    /\ UNCHANGED <<monitored, hasFile, watched, real, i, toSearch, count, missed, hooks, failures>>

Answer(s) ==
    /\ pc[s] = "done" /\ Return(s)
    /\ UNCHANGED <<sonarr, log, push, hooks, failures>>
-----------------------------------------------------------------------------
\* Sonarr imports what was searched (external).
Import(id) ==
    /\ id \in asked \ hasFile
    /\ hasFile' = hasFile \cup {id}
    /\ UNCHANGED <<monitored, asked, hook, log, push, hooks, failures>>

\* pushMetrics: the window is written out under the lock.
PushReads ==
    /\ spawned > 0
    /\ spawned' = spawned - 1
    /\ flying' = flying \cup {Window}
    /\ UNCHANGED <<sonarr, hook, log, gateway, overtaken, hooks, failures>>

\* The PUT replaces the job's metrics.
PushLands(body) ==
    /\ body \in flying
    /\ flying' = flying \ {body}
    /\ gateway' = body
    /\ overtaken' = (overtaken \/ body.events < gateway.events)
    /\ UNCHANGED <<sonarr, hook, log, spawned, hooks, failures>>

PushFails(body) ==
    /\ body \in flying /\ Fail
    /\ flying' = flying \ {body}
    /\ UNCHANGED <<sonarr, hook, log, spawned, gateway, overtaken, hooks>>

Next ==
    \/ \E s \in Sources :
          \/ Declined(s)
          \/ \E w \in Watches : Hook(s, w)
          \/ LookupSeries(s) \/ ListEpisodes(s) \/ CallFails(s)
          \/ Turn(s) \/ TurnFails(s) \/ LoopEnds(s) \/ Search(s) \/ Answer(s)
    \/ \E id \in Ids : Import(id)
    \/ PushReads \/ \E body \in flying : PushLands(body) \/ PushFails(body)

Spec == Init /\ [][Next]_vars
-----------------------------------------------------------------------------
\* The episodes the margin after w covers, counted from the episodes alone: the
\* season's end is no border, and specials do not count.
After(w) ==
    LET later == {e \in Ids : /\ Episodes[e].season >= 1
                              /\ \/ Episodes[e].season > w.season
                                 \/ Episodes[e].season = w.season /\ Episodes[e].number > w.number}
        between(e) == {f \in later : \/ Episodes[f].season < Episodes[e].season
                                     \/ /\ Episodes[f].season = Episodes[e].season
                                        /\ Episodes[f].number <= Episodes[e].number}
    IN {e \in later : Cardinality(between(e)) <= Margin}

\* A hook that ends well leaves every episode of the margin monitored, and on the
\* disk or searched, but for those whose own call failed; whatever the other hook
\* and Sonarr did meanwhile.
NextAreFetched ==
    \A s \in Sources : pc[s] = "done" =>
        \A e \in After(watched[s]) \ missed[s] : e \in monitored /\ e \in asked \cup hasFile

\* Once no push is under way Pushgateway shows the log as it is, unless one failed
\* or was overtaken by a later one.
GatewayIsCurrent ==
    spawned = 0 /\ flying = {} /\ failures = 0 /\ ~overtaken => gateway = Window
=============================================================================
