-------------------------------- MODULE Baird --------------------------------
(***************************************************************************)
(* How baird's list is made (services/baird: main.go, store.go,            *)
(* sources.go, and the reading of the lists in lists.go).  One goroutine   *)
(* makes passes: it reads the shared lists, the web pages and the engine's *)
(* catalogue outside the store's lock, one after another, and writes the   *)
(* list; requests change the choices meanwhile and poke it.  All but the   *)
(* list is saved as it is set, and a save that fails is only logged.  What *)
(* the shared lists keep, by what the player says, and hide is BairdLists; *)
(* here they carry channels of one source.                                 *)
(***************************************************************************)
EXTENDS Naturals, FiniteSets

CONSTANTS
    Listed,      \* channels the shared lists may carry
    Pages,       \* URLs somebody may add
    Links,       \* what they may link to
    Linking,     \* what they link to at first
    Channels,    \* of the engine's catalogue, a broadcast each
    Category,    \* of each
    Country,     \* of each, "-" when it has none
    Alive,       \* those the engine plays at first
    MaxMoves,    \* bound: changes of the lists, the pages and the catalogue
    MaxEdits,    \* bound: requests
    MaxTicks,    \* bound: ticks of the two tickers
    MaxFailures, \* bound: reads that fail, restarts
    MaxUnsaved   \* bound: files whose last save failed, at a time

VARIABLES
    lists, site, live,      \* the world: what they carry, link to, and play
    pages, picked, excluded, categories, countries,  \* choices
    listed,                 \* the channels of the lists, those kept after they dropped them too
    catalogue, ids,         \* as read last: channels and live ones; translated
    disk,                   \* the state files, and the last good copy of the lists
    m3u,                    \* the list, in memory; none is served before it is built
    kick,                   \* a pass is waiting in the channel
    saved,                  \* requests that changed a choice and did not poke yet
    adding,                 \* pages scraped by a request and not added yet
    pc, pass, fetched, urls, scraped, found,  \* the pass
    last,                   \* history: the list built last, which its readers go on playing
    missed,                 \* history: channels whose id the engine did not give in this pass
    carries,                \* history: the channels no read of the lists has dropped
    gone,                   \* history: other sources let go of since the list was written
    unsaved,                \* history: the files whose last save failed
    moves, edits, ticks, failures

world == <<lists, site, live>>
choices == <<pages, picked, excluded, categories, countries>>
store == <<choices, listed, catalogue, ids>>
requests == <<kick, saved, adding>>
loop == <<pc, pass, fetched, urls, scraped, found>>
files == <<disk, unsaved>>
history == <<last, missed, carries, gone>>
vars == <<world, store, files, m3u, requests, loop, history, moves, edits, ticks, failures>>

Nowhere == [url |-> "", ids |-> {}]
NoPages == [u \in {} |-> {}]
Choices == [pages |-> pages, picked |-> picked, excluded |-> excluded,
            categories |-> categories, countries |-> countries]
NoCatalogue == [all |-> {}, live |-> {}]

Init ==
    /\ lists = Listed /\ site = Linking /\ live = Alive
    /\ pages = NoPages /\ picked = {} /\ excluded = {} /\ categories = {} /\ countries = {}
    /\ listed = {} /\ catalogue = NoCatalogue /\ ids = {}
    /\ disk = [choices |-> Choices, upstream |-> {}, catalogue |-> NoCatalogue, ids |-> {}, copy |-> {}]
    /\ m3u = {} /\ last = {}
    /\ kick = FALSE /\ saved = 0 /\ adding = {}
    /\ pc = "upstream" /\ pass = "everything"
    /\ fetched = {} /\ urls = {} /\ scraped = Nowhere /\ found = {}
    /\ missed = {} /\ carries = {} /\ gone = {} /\ unsaved = {}
    /\ moves = 0 /\ edits = 0 /\ ticks = 0 /\ failures = 0

Fails == failures < MaxFailures /\ failures' = failures + 1

\* writeJSON, and the copy of a list: a failure is logged, if that.
Write(file, what) ==
    \/ disk' = [disk EXCEPT ![file] = what] /\ unsaved' = unsaved \ {file}
    \/ /\ Cardinality(unsaved \cup {file}) <= MaxUnsaved
       /\ unsaved' = unsaved \cup {file} /\ UNCHANGED disk
-----------------------------------------------------------------------------
(* store.go *)

\* ruled: a live channel of a picked category and, if any is, a picked country.
Ruled(c) ==
    /\ c \in catalogue.live
    /\ "*" \in categories \/ Category[c] \in categories
    /\ countries = {} \/ Country[c] \in countries
Included(c) == c \in catalogue.all /\ (c \in picked \/ (Ruled(c) /\ c \notin excluded))
PickedEntries == {c \in Channels : Included(c)}

\* render: the lists, the pages, the picked channels that have been translated.
Rendered ==
    {<<"list", c>> : c \in listed}
    \cup (UNION {{<<"page", u, i>> : i \in pages[u]} : u \in DOMAIN pages})
    \cup {<<"catalogue", c>> : c \in PickedEntries \cap ids}

\* History: what this step takes out of what is to be listed has been let go of.
LetGo == gone' = gone \cup (Rendered \ Rendered')

Unchosen ==
    UNCHANGED <<world, listed, catalogue, ids, m3u, loop, last, missed, carries,
                moves, ticks, failures>>

\* A request changes a choice, which is saved; it has still to poke.
Chosen == saved' = saved + 1 /\ LetGo /\ Write("choices", Choices')
NotChosen == UNCHANGED <<choices, files, gone>>

Toggle(S, x, on) == IF on THEN S \cup {x} ELSE S \ {x}
Edits == edits < MaxEdits /\ edits' = edits + 1

SetPicked(c, on) ==
    /\ Edits
    /\ picked' = Toggle(picked, c, on)
    /\ excluded' = Toggle(excluded, c, ~on /\ Ruled(c))
    /\ UNCHANGED <<pages, categories, countries, kick, adding>> /\ Unchosen /\ Chosen

SetCategories(name, on) ==
    /\ Edits
    /\ categories' = Toggle(categories, name, on)
    /\ UNCHANGED <<pages, picked, excluded, countries, kick, adding>> /\ Unchosen /\ Chosen

SetCountries(name, on) ==
    /\ Edits
    /\ countries' = Toggle(countries, name, on)
    /\ UNCHANGED <<pages, picked, excluded, categories, kick, adding>> /\ Unchosen /\ Chosen

\* pages: POST scrapes before it takes the lock.
ScrapeNew(u) ==
    /\ Edits /\ adding' = adding \cup {[url |-> u, ids |-> site[u]]}
    /\ UNCHANGED <<kick, saved>> /\ NotChosen /\ Unchosen

AddPage(new) ==
    /\ new \in adding /\ adding' = adding \ {new}
    /\ new.url \notin DOMAIN pages
    /\ pages' = [u \in DOMAIN pages \cup {new.url} |-> IF u = new.url THEN new.ids ELSE pages[u]]
    /\ UNCHANGED <<picked, excluded, categories, countries, kick, edits>> /\ Unchosen /\ Chosen

\* addPage: "already listed".
AddAgain(new) ==
    /\ new \in adding /\ adding' = adding \ {new}
    /\ new.url \in DOMAIN pages
    /\ UNCHANGED <<kick, saved, edits>> /\ NotChosen /\ Unchosen

RemovePage(u) ==
    /\ Edits
    /\ pages' = [v \in DOMAIN pages \ {u} |-> pages[v]]
    /\ UNCHANGED <<picked, excluded, categories, countries, kick, adding>> /\ Unchosen /\ Chosen

\* Mutant: a channel without a buffer: only a loop that waits takes the pass.
PokeUnbuffered ==
    /\ saved > 0 /\ saved' = saved - 1
    /\ kick' = (kick \/ pc = "select")
    /\ UNCHANGED <<adding, edits>> /\ NotChosen /\ Unchosen

\* poke: a second pass is not queued behind one that has not begun.
Poke ==
    /\ saved > 0 /\ saved' = saved - 1
    /\ kick' = TRUE
    /\ UNCHANGED <<adding, edits>> /\ NotChosen /\ Unchosen
-----------------------------------------------------------------------------
(* The loop.  A tick that comes during a pass waits in its ticker. *)
InPass ==
    UNCHANGED <<world, picked, excluded, categories, countries, saved, adding, moves, edits>>
NotStored == UNCHANGED <<pages, listed, catalogue, ids, files, carries, gone>>
NotListed == UNCHANGED <<m3u, last>>

Begin(p) == pass' = p /\ pc' = IF p = "rebuild" THEN "missing" ELSE "upstream"
Then(to) == pc' = to /\ UNCHANGED <<pass, kick, ticks>>

Ticked ==
    /\ pc = "select" /\ ticks < MaxTicks /\ ticks' = ticks + 1
    /\ \E p \in {"upstreamOnly", "everything"} : Begin(p)
    /\ UNCHANGED <<kick, fetched, urls, scraped, found, missed, failures>>
    /\ NotStored /\ NotListed /\ InPass

Kicked ==
    /\ pc = "select" /\ kick /\ kick' = FALSE /\ Begin("rebuild")
    /\ UNCHANGED <<fetched, urls, scraped, found, missed, ticks, failures>>
    /\ NotStored /\ NotListed /\ InPass

\* update: what comes after the lists.
AfterLists == IF pass = "everything" THEN "copy" ELSE "missing"

\* readList: a route that answers with channels.
ReadList ==
    /\ pc = "upstream" /\ Then("remember")
    /\ lists # {} /\ fetched' = lists /\ carries' = carries \cap lists
    /\ Write("copy", lists)
    /\ UNCHANGED <<pages, listed, catalogue, ids, gone, urls, scraped, found, missed, failures>>
    /\ NotListed /\ InPass

\* Mutant: a list that no route answers with is read as one with no channels.
ReadNothing ==
    /\ pc = "upstream" /\ Then("remember") /\ Fails
    /\ fetched' = {}
    /\ UNCHANGED <<pages, listed, catalogue, ids, files, carries, gone, urls, scraped, found, missed>>
    /\ NotListed /\ InPass

\* No route does: the last good copy.  History: a copy that could not be written
\* is older than the lists, and what it lacks of them they might as well drop.
ReadCopy ==
    /\ pc = "upstream" /\ Then("remember")
    /\ \/ lists = {} /\ UNCHANGED failures
       \/ Fails
    /\ fetched' = disk.copy
    /\ carries' = IF "copy" \in unsaved THEN carries \cap disk.copy ELSE carries
    /\ UNCHANGED <<pages, listed, catalogue, ids, files, gone, urls, scraped, found, missed>>
    /\ NotListed /\ InPass

\* The file that names the lists cannot be read: setUpstream does nothing.
ListsUnreadable ==
    /\ pc = "upstream" /\ Then(AfterLists) /\ Fails
    /\ UNCHANGED <<fetched, urls, scraped, found, missed>> /\ NotStored /\ NotListed /\ InPass

\* outcomes and setUpstream: what was read, and of what it drops what the player
\* has seen play and is not too old; with no answer from the player, nothing.
SetUpstream ==
    /\ pc = "remember" /\ Then(AfterLists)
    /\ \E played \in SUBSET (listed \ fetched) : listed' = fetched \cup played
    /\ carries' = carries \cup fetched /\ fetched' = {}
    /\ Write("upstream", listed')
    /\ UNCHANGED <<pages, catalogue, ids, gone, urls, scraped, found, missed, failures>>
    /\ NotListed /\ InPass

CopyPages ==
    /\ pc = "copy" /\ Then("pages") /\ urls' = DOMAIN pages
    /\ UNCHANGED <<fetched, scraped, found, missed, failures>> /\ NotStored /\ NotListed /\ InPass

\* scrape: a page with no acestream link failed.
Scrape ==
    /\ pc = "pages" /\ scraped = Nowhere /\ Then(pc)
    /\ \E u \in urls :
          /\ urls' = urls \ {u}
          /\ \/ scraped' = [url |-> u, ids |-> site[u]] /\ UNCHANGED failures
             \/ Fails /\ scraped' = [url |-> u, ids |-> {}]
    /\ UNCHANGED <<fetched, found, missed>> /\ NotStored /\ NotListed /\ InPass

ResultKept == scraped.url \in DOMAIN pages /\ scraped.ids # {}

\* pageResult: to the page that has this URL by now, if one has.
PageResult ==
    /\ pc = "pages" /\ scraped # Nowhere /\ scraped' = Nowhere /\ Then(pc)
    /\ pages' = IF ResultKept THEN [pages EXCEPT ![scraped.url] = scraped.ids] ELSE pages
    /\ UNCHANGED <<listed, catalogue, ids, fetched, urls, found, carries, missed, failures>>
    /\ NotListed /\ InPass /\ Write("choices", Choices')
    /\ IF scraped.ids # {} THEN LetGo ELSE UNCHANGED gone

\* catalogue and setCatalogue: the engine's, page by page, or the last one.
SetCatalogue ==
    /\ pc = "pages" /\ urls = {} /\ scraped = Nowhere /\ Then("missing")
    /\ catalogue' = [all |-> Channels, live |-> live]
    /\ UNCHANGED <<pages, listed, ids, fetched, urls, scraped, found, carries, missed, failures>>
    /\ NotListed /\ InPass /\ LetGo /\ Write("catalogue", catalogue')

CatalogueFails ==
    /\ pc = "pages" /\ urls = {} /\ scraped = Nowhere /\ Then("missing") /\ Fails
    /\ UNCHANGED <<fetched, urls, scraped, found, missed>> /\ NotStored /\ NotListed /\ InPass

\* missingIDs, and what contentID translates of them.
MissingIDs ==
    /\ pc = "missing" /\ Then("learn")
    /\ \/ found' = PickedEntries \ ids /\ UNCHANGED failures
       \/ Fails /\ found' \in (SUBSET (PickedEntries \ ids)) \ {PickedEntries \ ids}
    /\ missed' = (PickedEntries \ ids) \ found'
    /\ UNCHANGED <<fetched, urls, scraped>> /\ NotStored /\ NotListed /\ InPass

\* learnIDs: with nothing found nothing is written.
LearnIDs ==
    /\ pc = "learn" /\ Then("render") /\ ids' = ids \cup found /\ found' = {}
    /\ IF found = {} THEN UNCHANGED files ELSE Write("ids", ids')
    /\ UNCHANGED <<pages, listed, catalogue, carries, gone, fetched, urls, scraped, missed, failures>>
    /\ NotListed /\ InPass

\* The list is in memory, and what is served, before it is written.
Render ==
    /\ pc = "render" /\ Then("select") /\ m3u' = Rendered /\ last' = Rendered
    /\ gone' = {}
    /\ UNCHANGED <<pages, listed, catalogue, ids, files, carries, missed>>
    /\ UNCHANGED <<fetched, urls, scraped, found, failures>> /\ InPass

\* openStore: what was saved, and no list until the full pass that comes first.
\* History: what was not saved is lost, and only then.
Restart ==
    /\ Fails
    /\ pages' = disk.choices.pages /\ picked' = disk.choices.picked
    /\ excluded' = disk.choices.excluded
    /\ categories' = disk.choices.categories /\ countries' = disk.choices.countries
    /\ catalogue' = disk.catalogue /\ ids' = disk.ids
    /\ listed' = disk.upstream
    /\ carries' = IF "upstream" \in unsaved THEN carries \cap disk.upstream ELSE carries
    /\ IF unsaved \cap {"choices", "catalogue", "ids"} # {} THEN LetGo ELSE UNCHANGED gone
    /\ unsaved' = unsaved \cap {"copy"}
    /\ m3u' = {} /\ kick' = FALSE /\ saved' = 0 /\ adding' = {}
    /\ pc' = "upstream" /\ pass' = "everything"
    /\ fetched' = {} /\ urls' = {} /\ scraped' = Nowhere /\ found' = {}
    /\ UNCHANGED <<world, disk, last, missed, moves, edits, ticks>>

\* What the lists carry, the pages link to and the engine plays (external).
Move ==
    /\ moves < MaxMoves /\ moves' = moves + 1
    /\ \/ lists' \in SUBSET Listed \ {lists} /\ UNCHANGED <<site, live>>
       \/ \E u \in Pages : \E new \in ({{}} \cup {{i} : i \in Links}) \ {site[u]} :
             site' = [site EXCEPT ![u] = new] /\ UNCHANGED <<lists, live>>
       \/ \E c \in Channels : live' = Toggle(live, c, c \notin live) /\ UNCHANGED <<lists, site>>
    /\ UNCHANGED <<store, files, m3u, requests, loop, history, edits, ticks, failures>>

Choose ==
    \/ \E c \in catalogue.all, on \in BOOLEAN : SetPicked(c, on)
    \/ \E on \in BOOLEAN : \E name \in {"*"} \cup {Category[c] : c \in Channels} : SetCategories(name, on)
    \/ \E on \in BOOLEAN : \E name \in {Country[c] : c \in Channels} : SetCountries(name, on)
    \/ \E u \in Pages : site[u] # {} /\ ScrapeNew(u)
    \/ \E new \in adding : AddPage(new) \/ AddAgain(new)
    \/ \E u \in DOMAIN pages : RemovePage(u)
    \/ Poke
Pass ==
    \/ Ticked \/ Kicked \/ ReadList \/ ReadCopy \/ ListsUnreadable \/ SetUpstream
    \/ CopyPages \/ Scrape \/ PageResult \/ SetCatalogue \/ CatalogueFails
    \/ MissingIDs \/ LearnIDs \/ Render

Next == Choose \/ Pass \/ Restart \/ Move

Spec == Init /\ [][Next]_vars
-----------------------------------------------------------------------------
\* No choice waits for a tick: when the loop waits, nothing is queued and no
\* request is between its save and its poke, the list is what the choices, the
\* lists, the pages and the catalogue in store make it, and every picked channel
\* is in it for which the engine did not fail to give an id.
IdleListIsCurrent ==
    pc = "select" /\ ~kick /\ saved = 0 =>
        m3u = Rendered /\ PickedEntries \ ids \subseteq missed

\* "Every failure falls back to as it was": between one list and the next a source
\* goes only because somebody let go of it or a read that was answered no longer
\* had it, and not for a read that failed, a player that did not answer, or a pass
\* that overlapped a request.  A restart loses what a save had failed to keep, and
\* a failed read what the failed write of a copy had; neither loses more.
FailuresDropNothing ==
    [][last \ last' \subseteq gone \cup {<<"list", c>> : c \in Listed \ carries}]_last
=============================================================================
