----------------------------- MODULE SubtitleZip -----------------------------
(***************************************************************************)
(* The zips of subtitle-links (services/subtitle-links/main.go): the text  *)
(* tracks of the films and the episodes, filtered by language, named, and  *)
(* fetched in batches of four whose calls end in any order or fail.        *)
(* Library: [movies: a sequence of films, series: a sequence of shows].    *)
(* A name is its parts: title, language, and what stands in parentheses.   *)
(***************************************************************************)
EXTENDS Filters, Functions, TLC

CONSTANTS
    Library,        \* what Jellyfin has
    Batch,          \* zipConcurrency
    Wishes          \* the ?langs= a page may send; {} is every language

VARIABLES
    pc,             \* "idle", "batch", "done", "gone"
    jobs,           \* the zip's jobs
    langs, scope,   \* history: the languages and the items asked for
    start, bodies,  \* the batch at hand: the body of each of its jobs
    seen, zip,      \* names given, and the entries [name, job]
    came            \* history: the jobs Jellyfin delivered

request == <<jobs, langs, scope>>
vars == <<pc, request, start, bodies, seen, zip, came>>

\* langAliases, as far as the library goes.
Aliases == [fre |-> "fra", ger |-> "deu", es |-> "spa", en |-> "eng"]
Canonical(lang) ==
    IF lang \in {"", "und"} THEN "?"
    ELSE IF lang \in DOMAIN Aliases THEN Aliases[lang] ELSE lang

\* trackLabel: the track's own title (the part in parentheses), else what kind it is, else nothing.
TrackLabel(s) ==
    IF s.title # "" THEN s.title
    ELSE IF s.hearingImpaired THEN "SDH" ELSE IF s.forced THEN "forzado" ELSE ""

TextSubs(item) ==
    LET text == Filter(item.streams, {s \in Range(item.streams) : s.type = "Subtitle" /\ s.text})
    IN [i \in DOMAIN text |-> [index |-> text[i].index, lang |-> Canonical(text[i].lang),
                               label |-> TrackLabel(text[i])]]

LangSet(asked) == {Canonical(l) : l \in asked}

KeepLangs(subs, wanted) ==
    IF wanted = {} THEN subs ELSE Filter(subs, {s \in Range(subs) : s.lang \in wanted})

SubFilename(base, s) ==
    base \o <<s.lang>> \o (IF s.label = "" THEN <<>> ELSE <<s.label>>)

\* sort.Slice by two numbers of each element, told apart by place where they are equal.
Before(key, a, b) ==
    \/ key[a][1] < key[b][1]
    \/ /\ key[a][1] = key[b][1]
       /\ key[a][2] < key[b][2] \/ (key[a][2] = key[b][2] /\ a < b)
Arranged(s, key) ==
    LET place == CHOOSE f \in [1 .. Len(s) -> 1 .. Len(s)] :
                    \A j, k \in 1 .. Len(s) : j < k => Before(key, f[j], f[k])
    IN [k \in 1 .. Len(s) |-> s[place[k]]]

\* fetchMovies, fetchEpisodes: what has no text track is not listed.
WithText(listed) == Filter(listed, {item \in Range(listed) : TextSubs(item) # <<>>})
FetchMovies ==
    LET s == WithText(Library.movies)
    IN Arranged(s, [k \in 1 .. Len(s) |-> <<s[k].order, 0>>])
FetchEpisodes(show) ==
    LET s == WithText(show.episodes)
    IN Arranged(s, [k \in 1 .. Len(s) |-> <<s[k].season, s[k].episode>>])
FetchSeries ==
    LET s == Filter(Library.series, {show \in Range(Library.series) : FetchEpisodes(show) # <<>>})
    IN Arranged(s, [k \in 1 .. Len(s) |-> <<s[k].order, 0>>])

JobsOf(item, name, wanted) ==
    LET subs == KeepLangs(TextSubs(item), wanted) IN
    [i \in DOMAIN subs |-> [name |-> SubFilename(name, subs[i]),
                            id |-> item.id, index |-> subs[i].index]]

MovieJobs(wanted) ==
    LET movies == FetchMovies IN
    Joined([i \in DOMAIN movies |-> JobsOf(movies[i], <<movies[i].title>>, wanted)])
\* Under a folder named after the series when the zip holds several.
EpisodeJobs(dir, show, wanted) ==
    LET eps == FetchEpisodes(show) IN
    Joined([i \in DOMAIN eps |->
        JobsOf(eps[i], dir \o <<ToString(eps[i].season), ToString(eps[i].episode)>>, wanted)])

UniqueName(given, name) ==
    IF name \in DOMAIN given THEN name \o <<ToString(given[name] + 1)>> ELSE name
Count(given, name) ==
    [n \in DOMAIN given \cup {name} |->
        (IF n \in DOMAIN given THEN given[n] ELSE 0) + (IF n = name THEN 1 ELSE 0)]
-----------------------------------------------------------------------------
Init ==
    /\ pc = "idle" /\ jobs = <<>> /\ langs = {} /\ scope = {} /\ start = 1 /\ bodies = <<>>
    /\ seen = <<>> /\ zip = <<>> /\ came = {}

LastJob == IF start + Batch - 1 < Len(jobs) THEN start + Batch - 1 ELSE Len(jobs)

Begin(wish, list, items) ==
    /\ pc = "idle"
    /\ pc' = "batch" /\ jobs' = list /\ langs' = wish /\ scope' = items
    /\ UNCHANGED <<start, bodies, seen, zip, came>>

\* Films at the root, each series under its own folder.
DownloadEverything(wish) ==
    LET wanted == LangSet(wish)
        shows == FetchSeries
    IN Begin(wish,
             MovieJobs(wanted) \o Joined([i \in DOMAIN shows |->
                 EpisodeJobs(<<shows[i].title>>, shows[i], wanted)]),
             Range(Library.movies) \cup UNION {Range(s.episodes) : s \in Range(Library.series)})

DownloadAll(wish, s) ==
    Begin(wish, EpisodeJobs(<<>>, s, LangSet(wish)), Range(s.episodes))

\* A goroutine of the batch: subtitleBody answers, or its track is skipped.
Body(j, body) ==
    /\ pc = "batch" /\ j \in start .. LastJob /\ j \notin DOMAIN bodies
    /\ bodies' = [i \in DOMAIN bodies \cup {j} |-> IF i = j THEN body ELSE bodies[i]]
    /\ came' = IF body = "nil" THEN came ELSE came \cup {j}
    /\ UNCHANGED <<pc, request, start, seen, zip>>

Batched == pc = "batch" /\ start <= Len(jobs) /\ DOMAIN bodies = start .. LastJob

\* The entries of these jobs, one after the other, each under a name not given yet.
WriteJobs(js) ==
    LET name(k) == jobs[js[k]].name
        given[k \in 0 .. Len(js)] == IF k = 0 THEN seen ELSE Count(given[k - 1], name(k))
    IN /\ Batched
       /\ zip' = zip \o [k \in 1 .. Len(js) |->
                            [name |-> UniqueName(given[k - 1], name(k)), job |-> js[k]]]
       /\ seen' = given[Len(js)]
       /\ start' = start + Batch /\ bodies' = <<>>
       /\ UNCHANGED <<pc, request, came>>

InBatch == [i \in 1 .. LastJob - start + 1 |-> start + i - 1]

\* Mutant: a track that did not come ends its batch.
WriteCut ==
    WriteJobs(Filter(InBatch, {j \in start .. LastJob : \A i \in start .. j : bodies[i] # "nil"}))

\* wg.Wait, and the batch is written in order; what did not come is skipped.
Write == WriteJobs(Filter(InBatch, {j \in start .. LastJob : bodies[j] # "nil"}))

Close ==
    /\ pc = "batch" /\ start > Len(jobs)
    /\ pc' = "done"
    /\ UNCHANGED <<request, start, bodies, seen, zip, came>>

\* The reader goes away: zw.Create fails for whatever is left, which is passed
\* over, and the zip is nobody's.
HangUp ==
    /\ pc = "batch"
    /\ pc' = "gone"
    /\ UNCHANGED <<request, start, bodies, seen, zip, came>>

Next ==
    \/ \E wish \in Wishes :
          DownloadEverything(wish) \/ \E s \in Range(Library.series) : DownloadAll(wish, s)
    \/ \E j \in 1 .. Len(jobs), body \in {"srt", "nil"} : Body(j, body)
    \/ Write \/ Close \/ HangUp

Spec == Init /\ [][Next]_vars
-----------------------------------------------------------------------------
\* The tracks a reader of the page would count: text, in a language asked for
\* under any of its codes.
Tracks(item) ==
    {<<item.id, t.index>> : t \in {t \in Range(item.streams) :
        /\ t.type = "Subtitle" /\ t.text
        /\ langs = {} \/ \E l \in langs : Canonical(l) = Canonical(t.lang)}}

\* "One bad file cannot truncate the rest of the zip": a finished zip holds
\* exactly the tracks asked for that Jellyfin delivered, each once, in order.
ZipHoldsWhatCame ==
    pc = "done" =>
        /\ UNION {Tracks(item) : item \in scope} = {<<j.id, j.index>> : j \in Range(jobs)}
        /\ \A i, j \in DOMAIN jobs : i # j => <<jobs[i].id, jobs[i].index>> # <<jobs[j].id, jobs[j].index>>
        /\ {entry.job : entry \in Range(zip)} = came
        /\ \A i, j \in DOMAIN zip : i < j => zip[i].job < zip[j].job

\* uniqueName "keeps a zip from carrying two entries under one name".
NamesDiffer == \A i, j \in DOMAIN zip : i # j => zip[i].name # zip[j].name
=============================================================================
