----------------------------- MODULE BairdProofs -----------------------------
(***************************************************************************)
(* Proofs about Baird, for any lists, pages, ids and channels, and any     *)
(* number of requests, passes, failing reads and restarts.                 *)
(*                                                                         *)
(* FailuresDropNothing is about the step that writes the list.  KeepInv    *)
(* carries it there: what the last list holds is still to be listed or was *)
(* let go of, what no read of the lists has dropped is remembered and in   *)
(* their copy, and every file holds what it is of unless its save failed.  *)
(*                                                                         *)
(* IdleListIsCurrent is about a loop that waits.  IdleInv follows a pass   *)
(* there: unless a request has left it another to make, what the pass has  *)
(* learned and what the engine did not give are all that is picked.        *)
(***************************************************************************)
EXTENDS BairdService, SequenceLemmas, TLAPS

\* The channels a read of the lists has dropped.
Dropped == {<<"list", c>> : c \in Listed \ carries}

\* What the lists are said to carry, they may.
ListsInv ==
    /\ lists \subseteq Listed /\ fetched \subseteq Listed /\ listed \subseteq Listed
    /\ disk.copy \subseteq Listed /\ disk.upstream \subseteq Listed
    /\ DOMAIN disk = {"choices", "upstream", "catalogue", "ids", "copy"}
    /\ disk.choices =
         [pages |-> disk.choices.pages, picked |-> disk.choices.picked,
          excluded |-> disk.choices.excluded, categories |-> disk.choices.categories,
          countries |-> disk.choices.countries]

\* A file holds what was saved, and what no read dropped is in store.
StoreInv ==
    /\ "choices" \notin unsaved => disk.choices = Choices
    /\ "catalogue" \notin unsaved => disk.catalogue = catalogue
    /\ "ids" \notin unsaved => disk.ids = ids
    /\ "upstream" \notin unsaved => disk.upstream = listed
    /\ "copy" \notin unsaved => carries \subseteq disk.copy
    /\ carries \subseteq listed
    /\ pc = "remember" => /\ carries \subseteq fetched
                          /\ "copy" \notin unsaved => fetched \subseteq disk.copy

Listing == last \subseteq Rendered \cup gone \cup Dropped

KeepInv == ListsInv /\ StoreInv /\ Listing
-----------------------------------------------------------------------------
LEMMA InitKeep == Init => KeepInv
BY DEF Init, KeepInv, ListsInv, StoreInv, Listing, Choices

\* What is listed apart from the lists.
Others == (UNION {{<<"page", u, i>> : i \in pages[u]} : u \in DOMAIN pages})
              \cup {<<"catalogue", c>> : c \in PickedEntries \cap ids}
sources == <<choices, catalogue, ids>>

LEMMA RenderedIs == Rendered = {<<"list", c>> : c \in listed} \cup Others
BY DEF Rendered, Others

LEMMA SameOthers == ASSUME UNCHANGED sources PROVE Others' = Others
BY DEF sources, choices, Others, PickedEntries, Included, Ruled

LEMMA SameSources == ASSUME UNCHANGED sources, UNCHANGED listed PROVE Rendered' = Rendered
<1>1. Others' = Others BY SameOthers
<1>2. Rendered' = {<<"list", c>> : c \in listed'} \cup Others' BY DEF Rendered, Others
<1> QED BY <1>1, <1>2, RenderedIs

\* A file is written, or it is not and that is known.
LEMMA Written ==
    ASSUME NEW f \in {"choices", "upstream", "catalogue", "ids", "copy"}, NEW w,
           ListsInv, Write(f, w)
    PROVE  /\ DOMAIN disk' = DOMAIN disk
           /\ f \notin unsaved' => disk'[f] = w
           /\ \A g \in DOMAIN disk \ {f} : disk'[g] = disk[g] /\ (g \in unsaved' <=> g \in unsaved)
           /\ disk'[f] = disk[f] \/ disk'[f] = w
BY DEF Write, ListsInv

\* The list is not written, and what is to be listed no more was let go of.
LEMMA KeepsListing ==
    ASSUME Listing, UNCHANGED last, gone \subseteq gone', UNCHANGED carries,
           Rendered \subseteq Rendered' \cup gone'
    PROVE  Listing'
BY DEF Listing, Dropped

LEMMA LetsGo == ASSUME LetGo PROVE gone \subseteq gone' /\ Rendered \subseteq Rendered' \cup gone'
BY DEF LetGo

\* A request or a page's ids: the choices change and are saved.
LEMMA ChoicesChange ==
    ASSUME KeepInv, Write("choices", Choices'), gone \subseteq gone',
           Rendered \subseteq Rendered' \cup gone',
           UNCHANGED <<lists, fetched, listed, catalogue, ids, carries, last>>,
           pc' = "remember" => pc = "remember"
    PROVE  KeepInv'
<1>1. ListsInv /\ StoreInv /\ Listing BY DEF KeepInv
<1>2. /\ DOMAIN disk' = DOMAIN disk
      /\ "choices" \notin unsaved' => disk'["choices"] = Choices'
      /\ \A g \in DOMAIN disk \ {"choices"} : disk'[g] = disk[g] /\ (g \in unsaved' <=> g \in unsaved)
      /\ disk'["choices"] = disk["choices"] \/ disk'["choices"] = Choices'
    <2>1. PICK w : w = Choices' OBVIOUS
    <2> QED BY <1>1, <2>1, Written
<1>3. ListsInv' BY <1>1, <1>2 DEF ListsInv, Choices
<1>4. StoreInv' BY <1>1, <1>2 DEF StoreInv, ListsInv
<1>5. Listing' BY <1>1, KeepsListing
<1> QED BY <1>3, <1>4, <1>5 DEF KeepInv

\* A step that stores nothing.
LEMMA NothingStored ==
    ASSUME KeepInv, UNCHANGED <<choices, listed, catalogue, ids, files, carries, gone, last>>,
           lists' \subseteq Listed, fetched' = fetched, pc' # "remember" \/ pc = "remember"
    PROVE  KeepInv'
<1>1. ListsInv /\ StoreInv /\ Listing BY DEF KeepInv
<1>2. UNCHANGED <<disk, unsaved, sources>> BY DEF files, sources
<1>3. Rendered' = Rendered BY <1>2, SameSources
<1>4. ListsInv' BY <1>1, <1>2 DEF ListsInv
<1>5. StoreInv' BY <1>1, <1>2 DEF StoreInv, Choices, choices
<1>6. Listing' BY <1>1, <1>3, KeepsListing
<1> QED BY <1>4, <1>5, <1>6 DEF KeepInv

LEMMA ChooseStep == ASSUME KeepInv, Choose PROVE KeepInv' /\ last' = last
<1>1. CASE Chosen /\ Unchosen
    <2>1. UNCHANGED <<lists, fetched, listed, catalogue, ids, carries, last, pc>>
        BY <1>1 DEF Unchosen, world, loop
    <2>2. LetGo /\ Write("choices", Choices') BY <1>1 DEF Chosen
    <2> QED BY <2>1, <2>2, LetsGo, ChoicesChange
<1>2. CASE NotChosen /\ Unchosen
    <2>1. /\ UNCHANGED <<choices, listed, catalogue, ids, files, carries, gone, last>>
          /\ UNCHANGED <<lists, fetched, pc>>
        BY <1>2 DEF NotChosen, Unchosen, world, loop
    <2>2. lists' \subseteq Listed BY <2>1 DEF KeepInv, ListsInv
    <2> QED BY <2>1, <2>2, NothingStored
<1>3. (Chosen /\ Unchosen) \/ (NotChosen /\ Unchosen)
    BY DEF Choose, SetPicked, SetCategories, SetCountries, ScrapeNew, AddPage, AddAgain,
        RemovePage, Poke
<1> QED BY <1>1, <1>2, <1>3

LEMMA MoveStep == ASSUME KeepInv, Move PROVE KeepInv' /\ last' = last
<1>1. UNCHANGED <<choices, listed, catalogue, ids, files, carries, gone, last, fetched, pc>>
    BY DEF Move, store, loop, history
<1>2. lists' \subseteq Listed BY DEF Move, KeepInv, ListsInv
<1> QED BY <1>1, <1>2, NothingStored

\* What a read of the lists brings waits to be remembered.
LEMMA ReadStep == ASSUME KeepInv, ReadList \/ ReadCopy PROVE KeepInv' /\ last' = last
<1>1. ListsInv /\ StoreInv /\ Listing BY DEF KeepInv
<1>2. /\ UNCHANGED <<sources, listed, lists, gone, last>>
      /\ carries' \subseteq carries /\ fetched' \subseteq Listed
    BY <1>1 DEF ReadList, ReadCopy, InPass, NotListed, world, sources, choices, ListsInv
<1>3. Rendered' = Rendered BY <1>2, SameSources
<1>4. Listing' BY <1>1, <1>2, <1>3 DEF Listing, Dropped
<1>5. Choices' = Choices BY <1>2 DEF Choices, sources, choices
<1>6. CASE ReadList
    <2>1. Write("copy", lists) /\ fetched' = lists /\ carries' = carries \cap lists
        BY <1>6 DEF ReadList
    <2>2. /\ DOMAIN disk' = DOMAIN disk
          /\ "copy" \notin unsaved' => disk'["copy"] = lists
          /\ \A g \in DOMAIN disk \ {"copy"} : disk'[g] = disk[g] /\ (g \in unsaved' <=> g \in unsaved)
          /\ disk'["copy"] = disk["copy"] \/ disk'["copy"] = lists
        BY <1>1, <2>1, Written
    <2>3. ListsInv' BY <1>1, <1>2, <2>1, <2>2 DEF ListsInv
    <2>4. StoreInv' BY <1>1, <1>2, <1>5, <2>1, <2>2 DEF StoreInv, ListsInv, sources
    <2> QED BY <1>2, <1>4, <2>3, <2>4 DEF KeepInv
<1>7. CASE ReadCopy
    <2>1. /\ UNCHANGED <<disk, unsaved>> /\ fetched' = disk.copy
          /\ carries' = IF "copy" \in unsaved THEN carries \cap disk.copy ELSE carries
        BY <1>7 DEF ReadCopy, files
    <2>2. ListsInv' BY <1>1, <1>2, <2>1 DEF ListsInv
    <2>3. StoreInv' BY <1>1, <1>2, <1>5, <2>1 DEF StoreInv, sources
    <2> QED BY <1>2, <1>4, <2>2, <2>3 DEF KeepInv
<1> QED BY <1>6, <1>7

\* What is forgotten of the lists, a read has dropped.
LEMMA RememberStep == ASSUME KeepInv, SetUpstream PROVE KeepInv' /\ last' = last
<1>1. ListsInv /\ StoreInv /\ Listing BY DEF KeepInv
<1>2. /\ UNCHANGED <<sources, lists, gone, last>>
      /\ carries' = carries \cup fetched /\ fetched' = {}
      /\ fetched \subseteq listed' /\ listed' \subseteq fetched \cup listed
      /\ pc = "remember" /\ pc' # "remember"
      /\ Write("upstream", listed')
    BY DEF SetUpstream, InPass, NotListed, world, sources, choices, Then, AfterLists
<1>3. carries' = fetched /\ listed' \subseteq Listed /\ carries' \subseteq listed'
    BY <1>1, <1>2 DEF StoreInv, ListsInv
<1>4. Others' = Others /\ Rendered' = {<<"list", c>> : c \in listed'} \cup Others'
    BY <1>2, SameOthers DEF Rendered, Others
<1>5. Listing'
    <2>1. ASSUME NEW x \in last PROVE x \in Rendered' \cup gone' \cup Dropped'
        <3>1. CASE x \in gone \cup Others BY <1>2, <1>4, <3>1
        <3>2. ASSUME NEW c \in Listed, x = <<"list", c>> PROVE x \in Rendered' \cup Dropped'
            <4>1. CASE c \in carries' BY <1>3, <1>4, <3>2, <4>1
            <4>2. CASE c \notin carries' BY <3>2, <4>2 DEF Dropped
            <4> QED BY <4>1, <4>2
        <3>3. x \in Rendered \cup Dropped => x \in Others \/ \E c \in Listed : x = <<"list", c>>
            BY <1>1, RenderedIs DEF ListsInv, Dropped
        <3> QED BY <1>1, <2>1, <3>1, <3>2, <3>3 DEF Listing
    <2> QED BY <1>2, <2>1 DEF Listing
<1>6. /\ DOMAIN disk' = DOMAIN disk
      /\ "upstream" \notin unsaved' => disk'["upstream"] = listed'
      /\ \A g \in DOMAIN disk \ {"upstream"} : disk'[g] = disk[g] /\ (g \in unsaved' <=> g \in unsaved)
      /\ disk'["upstream"] = disk["upstream"] \/ disk'["upstream"] = listed'
    <2>1. PICK w : w = listed' OBVIOUS
    <2> QED BY <1>1, <1>2, <2>1, Written
<1>7. ListsInv' BY <1>1, <1>2, <1>3, <1>6 DEF ListsInv
<1>8. Choices' = Choices BY <1>2 DEF Choices, sources, choices
<1>9. "copy" \notin unsaved' => carries' \subseteq disk'.copy
    BY <1>1, <1>2, <1>6 DEF StoreInv, ListsInv
<1>10. StoreInv' BY <1>1, <1>2, <1>3, <1>6, <1>8, <1>9 DEF StoreInv, ListsInv, sources
<1> QED BY <1>2, <1>5, <1>7, <1>10 DEF KeepInv

LEMMA PassStep == ASSUME KeepInv, Pass PROVE KeepInv' /\ last \ last' \subseteq gone \cup Dropped
<1>0. ListsInv /\ StoreInv /\ Listing BY DEF KeepInv
<1> USE DEF InPass, Then, NotListed, NotStored
<1>1. CASE Ticked \/ Kicked \/ ListsUnreadable \/ CopyPages \/ Scrape \/ CatalogueFails \/ MissingIDs
    <2>1. /\ UNCHANGED <<choices, listed, catalogue, ids, files, carries, gone, last>>
          /\ UNCHANGED <<lists, fetched>> /\ (pc' # "remember")
        BY <1>1 DEF Ticked, Kicked, Begin, ListsUnreadable, AfterLists, CopyPages, Scrape,
            CatalogueFails, MissingIDs, world, choices
    <2>2. lists' \subseteq Listed BY <1>0, <2>1 DEF ListsInv
    <2> QED BY <2>1, <2>2, NothingStored
<1>2. CASE ReadList \/ ReadCopy
    BY <1>2, ReadStep
<1>3. CASE SetUpstream
    BY <1>3, RememberStep
<1>4. CASE PageResult
    <2>1. /\ Write("choices", Choices') /\ UNCHANGED <<lists, fetched, listed, catalogue, ids, carries, last, pc>>
          /\ UNCHANGED <<picked, excluded, categories, countries>>
        BY <1>4 DEF PageResult, world
    <2>2. CASE scraped.ids # {}
        <3>1. LetGo BY <1>4, <2>2 DEF PageResult
        <3> QED BY <2>1, <3>1, LetsGo, ChoicesChange
    <2>3. CASE scraped.ids = {}
        <3>1. pages' = pages /\ gone' = gone BY <1>4, <2>3 DEF PageResult, ResultKept
        <3>2. Rendered' = Rendered BY <2>1, <3>1, SameSources DEF sources, choices
        <3> QED BY <2>1, <3>1, <3>2, ChoicesChange
    <2> QED BY <2>2, <2>3
<1>5. CASE SetCatalogue
    <2>1. /\ Write("catalogue", catalogue') /\ UNCHANGED <<lists, fetched, listed, choices, ids, carries, last>>
          /\ pc' # "remember" /\ LetGo
        BY <1>5 DEF SetCatalogue, world, choices
    <2>2. /\ DOMAIN disk' = DOMAIN disk
          /\ "catalogue" \notin unsaved' => disk'["catalogue"] = catalogue'
          /\ \A g \in DOMAIN disk \ {"catalogue"} : disk'[g] = disk[g] /\ (g \in unsaved' <=> g \in unsaved)
        <3>1. PICK w : w = catalogue' OBVIOUS
        <3> QED BY <1>0, <2>1, <3>1, Written
    <2>3. ListsInv' BY <1>0, <2>1, <2>2 DEF ListsInv
    <2>4. StoreInv' BY <1>0, <2>1, <2>2 DEF StoreInv, ListsInv, Choices, choices
    <2>5. Listing' BY <1>0, <2>1, LetsGo, KeepsListing
    <2> QED BY <2>1, <2>3, <2>4, <2>5 DEF KeepInv
<1>6. CASE LearnIDs
    <2>1. /\ UNCHANGED <<lists, fetched, listed, choices, catalogue, carries, last, gone>>
          /\ pc' # "remember" /\ ids' = ids \cup found
          /\ IF found = {} THEN UNCHANGED files ELSE Write("ids", ids')
        BY <1>6 DEF LearnIDs, world, choices
    <2>2. /\ DOMAIN disk' = DOMAIN disk
          /\ "ids" \notin unsaved' => disk'["ids"] = ids'
          /\ \A g \in DOMAIN disk \ {"ids"} : disk'[g] = disk[g] /\ (g \in unsaved' <=> g \in unsaved)
        <3>1. CASE found = {}
            <4>1. ids' = ids /\ UNCHANGED <<disk, unsaved>> BY <2>1, <3>1 DEF files
            <4> QED BY <1>0, <4>1 DEF StoreInv
        <3>2. CASE found # {}
            <4>1. PICK w : w = ids' OBVIOUS
            <4>2. Write("ids", w) BY <2>1, <3>2, <4>1
            <4> QED BY <1>0, <4>1, <4>2, Written
        <3> QED BY <3>1, <3>2
    <2>3. ListsInv' BY <1>0, <2>1, <2>2 DEF ListsInv
    <2>4. StoreInv' BY <1>0, <2>1, <2>2 DEF StoreInv, ListsInv, Choices, choices
    <2>5. Rendered \subseteq Rendered'
        <3>1. PickedEntries' = PickedEntries
            BY <2>1 DEF choices, PickedEntries, Included, Ruled
        <3> QED BY <2>1, <3>1 DEF Rendered, choices
    <2>6. Listing' BY <1>0, <2>1, <2>5, KeepsListing
    <2> QED BY <2>1, <2>3, <2>4, <2>6 DEF KeepInv
<1>7. CASE Render
    <2>1. /\ UNCHANGED <<choices, listed, catalogue, ids, files, carries, lists, fetched>>
          /\ last' = Rendered /\ pc' # "remember"
        BY <1>7 DEF Render, world, choices
    <2>2. Rendered' = Rendered BY <2>1, SameSources DEF sources
    <2>3. ListsInv' /\ StoreInv' BY <1>0, <2>1 DEF ListsInv, StoreInv, Choices, choices, files
    <2>4. Listing' BY <2>1, <2>2 DEF Listing
    <2>5. last \ last' \subseteq gone \cup Dropped BY <1>0, <2>1 DEF Listing
    <2> QED BY <2>3, <2>4, <2>5 DEF KeepInv
<1> QED BY <1>1, <1>2, <1>3, <1>4, <1>5, <1>6, <1>7 DEF Pass

\* A restart comes back with what was saved; the rest counts as let go of.
LEMMA RestartStep == ASSUME KeepInv, Restart PROVE KeepInv' /\ last' = last
<1>1. ListsInv /\ StoreInv /\ Listing BY DEF KeepInv
<1>2. /\ Choices' = disk.choices /\ catalogue' = disk.catalogue /\ ids' = disk.ids
      /\ listed' = disk.upstream /\ fetched' = {} /\ pc' = "upstream"
      /\ carries' = IF "upstream" \in unsaved THEN carries \cap disk.upstream ELSE carries
      /\ unsaved' = unsaved \cap {"copy"} /\ UNCHANGED <<disk, last, lists>>
    <2>1. Choices' = disk.choices BY <1>1 DEF Restart, Choices, ListsInv
    <2> QED BY <2>1 DEF Restart, world
<1>3. ListsInv' BY <1>1, <1>2 DEF ListsInv
<1>4. StoreInv' BY <1>1, <1>2 DEF StoreInv
<1>5. /\ gone \subseteq gone' /\ Others \subseteq Others' \cup gone'
    <2>1. CASE LetGo
        <3>1. Rendered' = {<<"list", c>> : c \in listed'} \cup Others' BY DEF Rendered, Others
        <3>2. gone' = gone \cup (Rendered \ Rendered') BY <2>1 DEF LetGo
        <3>3. ASSUME NEW x \in Others PROVE x \in Others' \cup gone'
            <4>1. \A c : x # <<"list", c>>
                <5>1. (\E u, i : x = <<"page", u, i>>) \/ (\E c : x = <<"catalogue", c>>)
                    <6>1. ASSUME x \in UNION {{<<"page", u, i>> : i \in pages[u]} : u \in DOMAIN pages}
                          PROVE  \E u, i : x = <<"page", u, i>>
                        <7>1. PICK u \in DOMAIN pages : x \in {<<"page", u, i>> : i \in pages[u]}
                            BY <6>1, Zenon
                        <7> QED BY <7>1
                    <6>2. x \in {<<"catalogue", c>> : c \in PickedEntries \cap ids}
                             => \E c : x = <<"catalogue", c>>
                        OBVIOUS
                    <6> QED BY <3>3, <6>1, <6>2, Zenon DEF Others
                <5>2. \A u, i, c : <<"page", u, i>> # <<"list", c>> OBVIOUS
                <5>3. \A d, c : <<"catalogue", d>> # <<"list", c>> OBVIOUS
                <5> QED BY <5>1, <5>2, <5>3
            <4> QED BY <3>1, <3>2, <3>3, <4>1, RenderedIs
        <3> QED BY <3>2, <3>3
    <2>2. CASE ~LetGo
        <3>1. unsaved \cap {"choices", "catalogue", "ids"} = {} /\ gone' = gone
            BY <2>2 DEF Restart
        <3>2. UNCHANGED <<pages, picked, excluded, categories, countries, catalogue, ids>>
            BY <1>1, <1>2, <3>1 DEF StoreInv, Choices, Restart
        <3>3. Others' = Others BY <3>2, SameOthers DEF sources, choices
        <3> QED BY <3>1, <3>3
    <2> QED BY <2>1, <2>2
<1>6. Listing'
    <2>1. Rendered' = {<<"list", c>> : c \in listed'} \cup Others' BY DEF Rendered, Others
    <2>2. ASSUME NEW c \in Listed, c \in listed \/ c \notin carries
          PROVE  <<"list", c>> \in Rendered' \cup Dropped'
        <3>1. CASE c \in listed' BY <2>1, <3>1
        <3>2. CASE c \notin carries' BY <3>2 DEF Dropped
        <3>3. CASE c \notin listed' /\ c \in carries' BY <1>1, <1>2, <2>2, <3>3 DEF StoreInv
        <3> QED BY <3>1, <3>2, <3>3
    <2>3. ASSUME NEW x \in last PROVE x \in Rendered' \cup gone' \cup Dropped'
        <3>1. x \in gone \/ x \in Others
              \/ \E c \in Listed : x = <<"list", c>> /\ (c \in listed \/ c \notin carries)
            BY <1>1, RenderedIs DEF Listing, ListsInv, Dropped
        <3> QED BY <1>5, <2>1, <2>2, <3>1
    <2> QED BY <1>2, <2>3 DEF Listing
<1> QED BY <1>2, <1>3, <1>4, <1>6 DEF KeepInv

LEMMA KeepStep ==
    KeepInv /\ [Next]_vars => KeepInv' /\ [last \ last' \subseteq gone \cup Dropped]_last
<1> SUFFICES ASSUME KeepInv, [Next]_vars
             PROVE  KeepInv' /\ [last \ last' \subseteq gone \cup Dropped]_last
    OBVIOUS
<1>1. CASE UNCHANGED vars
    <2>1. /\ UNCHANGED <<choices, listed, catalogue, ids, files, carries, gone, last>>
          /\ UNCHANGED <<lists, fetched, pc>>
        BY <1>1 DEF vars, store, world, loop, history
    <2>2. lists' \subseteq Listed BY <2>1 DEF KeepInv, ListsInv
    <2> QED BY <2>1, <2>2, NothingStored
<1>2. CASE Next
    BY <1>2, ChooseStep, PassStep, RestartStep, MoveStep DEF Next
<1> QED BY <1>1, <1>2

\* For any choices, passes, failing reads, failing saves and restarts: a source
\* leaves the list only when it was let go of or a read of the lists dropped it.
THEOREM NothingIsDropped == Spec => FailuresDropNothing
BY InitKeep, KeepStep, PTL DEF Spec, FailuresDropNothing, Dropped
-----------------------------------------------------------------------------
IdleInv ==
    /\ saved \in Nat /\ kick \in BOOLEAN
    /\ ~kick /\ saved = 0 =>
         /\ pc = "select" => m3u = Rendered
         /\ pc = "learn" => (PickedEntries \ ids) \ found \subseteq missed
         /\ pc \in {"render", "select"} => PickedEntries \ ids \subseteq missed

LEMMA InitIdle == Init => IdleInv
<1> SUFFICES ASSUME Init PROVE IdleInv OBVIOUS
<1>1. saved = 0 /\ kick = FALSE /\ pc = "upstream" BY DEF Init
<1>2. saved \in Nat BY <1>1
<1>3. kick \in BOOLEAN BY <1>1
<1>4. pc \notin {"select", "learn", "render"} BY <1>1
<1> QED BY <1>2, <1>3, <1>4 DEF IdleInv

LEMMA SamePicks ==
    ASSUME UNCHANGED <<picked, excluded, categories, countries, catalogue>>
    PROVE  PickedEntries' = PickedEntries
BY DEF PickedEntries, Included, Ruled

\* A step outside the pass, which leaves the store as it is.
LEMMA IdleStutter ==
    ASSUME IdleInv, UNCHANGED <<sources, listed, m3u, kick, saved, pc, found, missed>> PROVE IdleInv'
<1>1. Rendered' = Rendered BY SameSources
<1>2. PickedEntries' = PickedEntries BY SamePicks DEF sources, choices
<1> QED BY <1>1, <1>2 DEF IdleInv, sources

\* A request that changed a choice has a poke to come, or has just poked.
LEMMA IdleChoose == ASSUME IdleInv, Choose PROVE IdleInv'
<1>0. UNCHANGED <<missed, pc, found, m3u, listed, catalogue, ids>>
    BY DEF Choose, SetPicked, SetCategories, SetCountries, ScrapeNew, AddPage, AddAgain,
        RemovePage, Poke, Unchosen, loop
<1>1. CASE saved' = saved + 1 /\ UNCHANGED kick BY <1>1 DEF IdleInv
<1>2. CASE Poke
    <2>1. kick' = TRUE /\ saved' \in Nat BY <1>2 DEF Poke, IdleInv
    <2> QED BY <2>1 DEF IdleInv
<1>3. CASE UNCHANGED <<choices, kick, saved>>
    BY <1>0, <1>3, IdleStutter DEF sources
<1> QED
    BY <1>1, <1>2, <1>3
    DEF Choose, SetPicked, SetCategories, SetCountries, ScrapeNew, AddPage, AddAgain,
        RemovePage, Chosen, NotChosen

LEMMA IdlePass == ASSUME IdleInv, Pass PROVE IdleInv'
<1> USE DEF InPass, Then, NotStored, NotListed
<1>1. CASE \/ Ticked \/ Kicked \/ ReadList \/ ReadCopy \/ ListsUnreadable \/ SetUpstream
           \/ CopyPages \/ Scrape \/ PageResult \/ SetCatalogue \/ CatalogueFails
    <2>1. pc' \in {"missing", "upstream", "copy", "pages", "remember"}
        BY <1>1 DEF Ticked, Kicked, Begin, ReadList, ReadCopy, ListsUnreadable, SetUpstream,
            AfterLists, CopyPages, Scrape, PageResult, SetCatalogue, CatalogueFails
    <2>2. saved' = saved /\ (kick' = kick \/ kick' = FALSE)
        BY <1>1 DEF Ticked, Kicked, ReadList, ReadCopy, ListsUnreadable, SetUpstream, CopyPages,
            Scrape, PageResult, SetCatalogue, CatalogueFails
    <2> QED BY <2>1, <2>2 DEF IdleInv
<1>2. CASE MissingIDs
    <2>1. pc' = "learn" /\ UNCHANGED <<ids, kick, saved>> /\ PickedEntries' = PickedEntries
        BY <1>2, SamePicks DEF MissingIDs
    <2>2. missed' = (PickedEntries \ ids) \ found' BY <1>2 DEF MissingIDs
    <2> QED BY <2>1, <2>2 DEF IdleInv
<1>3. CASE LearnIDs
    <2>1. /\ pc = "learn" /\ pc' = "render" /\ ids' = ids \cup found
          /\ UNCHANGED <<kick, saved, missed>> /\ PickedEntries' = PickedEntries
        BY <1>3, SamePicks DEF LearnIDs
    <2> QED BY <2>1 DEF IdleInv
<1>4. CASE Render
    <2>1. /\ pc = "render" /\ pc' = "select" /\ m3u' = Rendered
          /\ UNCHANGED <<ids, kick, saved, missed>>
          /\ Rendered' = Rendered /\ PickedEntries' = PickedEntries
        BY <1>4, SameSources, SamePicks DEF Render, sources, choices
    <2> QED BY <2>1 DEF IdleInv
<1> QED BY <1>1, <1>2, <1>3, <1>4 DEF Pass

LEMMA IdleStep == IdleInv /\ [Next]_vars => IdleInv'
<1> SUFFICES ASSUME IdleInv, [Next]_vars PROVE IdleInv'
    OBVIOUS
<1>1. CASE UNCHANGED vars
    BY <1>1, IdleStutter DEF vars, store, requests, loop, sources, history
<1>2. CASE Move
    BY <1>2, IdleStutter DEF Move, store, requests, loop, sources, history
<1>3. CASE Restart
    BY <1>3 DEF Restart, IdleInv
<1> QED BY <1>1, <1>2, <1>3, IdleChoose, IdlePass DEF Next

\* For any choices made at any moment of any pass: when the loop waits, with no
\* pass queued and no poke to come, the list is what the choices make it.
THEOREM IdleIsCurrent == Spec => []IdleListIsCurrent
<1>1. IdleInv => IdleListIsCurrent BY DEF IdleInv, IdleListIsCurrent
<1> QED BY <1>1, InitIdle, IdleStep, PTL DEF Spec
-----------------------------------------------------------------------------
(***************************************************************************)
(* The shared lists.  GroupsAreDecided is about what is listed; the switch *)
(* of a group is about every group ever known, listed now or not, and a    *)
(* group nobody has known is neither hidden nor on.                        *)
(***************************************************************************)
GroupInv ==
    /\ L!Groups(carried) \cup hiddenGroups \cup on \subseteq knownGroups
    /\ \A g \in knownGroups : g \in on <=> g \notin hiddenGroups
    /\ shown \cup hidden \subseteq touched

LEMMA InitGroups == L!Init => GroupInv
BY DEF L!Init, L!Nothing, L!Groups, GroupInv

\* Whatever a read brings, its new groups are decided with it: on with the first
\* that brings any, hidden after.
LEMMA NewGroupsAreDecided ==
    ASSUME GroupInv, NEW l, L!HoldNewGroups(l), UNCHANGED <<shown, hidden, touched>>,
           carried' = l \/ UNCHANGED carried
    PROVE  GroupInv'
<1> USE DEF L!HoldNewGroups, GroupInv
<1> DEFINE fresh == L!Groups(l) \ knownGroups
<1>1. knownGroups' = knownGroups \cup fresh /\ L!Groups(l) \subseteq knownGroups'
    OBVIOUS
<1>2. L!Groups(carried') \subseteq knownGroups'
    BY <1>1
<1>3. CASE knownGroups # {}
    BY <1>1, <1>2, <1>3 DEF L!Groups
<1>4. CASE knownGroups = {}
    BY <1>1, <1>2, <1>4 DEF L!Groups
<1> QED BY <1>3, <1>4

LEMMA GroupStep == GroupInv /\ [L!Next]_(L!vars) => GroupInv'
<1> SUFFICES ASSUME GroupInv, [L!Next]_(L!vars) PROVE GroupInv'
    OBVIOUS
<1>1. ASSUME NEW r \in L!Readings, NEW o \in Answers, L!Read(r, o) PROVE GroupInv'
    BY <1>1, NewGroupsAreDecided DEF L!Read
<1>2. ASSUME NEW r \in L!Readings, NEW o \in Answers, L!ReadCut(r, o) PROVE GroupInv'
    BY <1>2, NewGroupsAreDecided DEF L!ReadCut
<1>3. ASSUME NEW g \in L!Groups(carried), NEW yes \in BOOLEAN, L!SetListGroups(g, yes)
      PROVE  GroupInv'
    <2>1. UNCHANGED <<carried, shown, hidden, touched, knownGroups>> /\ g \in knownGroups
        BY <1>3 DEF L!SetListGroups, GroupInv
    <2>2. IF yes THEN on' = on \cup {g} /\ hiddenGroups' = hiddenGroups \ {g}
                 ELSE on' = on \ {g} /\ hiddenGroups' = hiddenGroups \cup {g}
        BY <1>3 DEF L!SetListGroups, L!Toggle
    <2> QED BY <2>1, <2>2 DEF GroupInv, L!Groups
<1>4. ASSUME NEW c \in DOMAIN carried, NEW yes \in BOOLEAN, L!SetListChannels(c, yes)
      PROVE  GroupInv'
    BY <1>4 DEF L!SetListChannels, L!Toggle, GroupInv, L!Groups
<1>5. CASE UNCHANGED L!vars
    BY <1>5 DEF L!vars, L!choices, L!history, GroupInv, L!Groups
<1> QED BY <1>1, <1>2, <1>3, <1>4, <1>5 DEF L!Next

LEMMA ListsDecideGroups == L!Spec => []L!GroupsAreDecided
<1>1. GroupInv => L!GroupsAreDecided
    BY DEF GroupInv, L!GroupsAreDecided, L!Shown, L!Groups
<1> QED BY <1>1, InitGroups, GroupStep, PTL DEF L!Spec
-----------------------------------------------------------------------------
(***************************************************************************)
(* What the lists carry goes in, and of the rest the best is kept.  Both   *)
(* are about one fold of a read into what was carried, so the work is in   *)
(* lemmas about its loops; what has to be remembered between reads is only *)
(* that a channel has each source once.                                    *)
(***************************************************************************)
Aged == [id : Source, age : Nat]
IdOf == [e \in Aged |-> e.id]
Stock == {s \in Seq(Aged) : Apart(s, IdOf)}

\* The instance's Filter is Filter.
LEMMA ListFilter == ASSUME NEW s, NEW T PROVE L!Filter(s, T) = Filter(s, T)
BY Zenon DEF L!Filter, Filter

\* A stock as a set.
LEMMA InStock ==
    ASSUME NEW s \in Stock
    PROVE  /\ Len(s) \in Nat /\ DOMAIN s = 1 .. Len(s)
           /\ \A x : x \in L!ToSet(s) <=> Holds(s, x)
           /\ \A x : Holds(s, x) => x \in Aged /\ IdOf[x] = x.id
           /\ \A x, y : Holds(s, x) /\ Holds(s, y) /\ x.id = y.id => x = y
<1>1. s \in Seq(Aged) /\ Apart(s, IdOf) BY DEF Stock
<1>2. Len(s) \in Nat /\ DOMAIN s = 1 .. Len(s) BY <1>1
<1>3. \A x : x \in L!ToSet(s) <=> Holds(s, x) BY <1>2 DEF L!ToSet, Holds
<1>4. \A x : Holds(s, x) => x \in Aged /\ IdOf[x] = x.id BY <1>1 DEF Holds, IdOf
<1>5. ASSUME NEW x, NEW y, Holds(s, x), Holds(s, y), x.id = y.id PROVE x = y
  <2>1. PICK i \in 1 .. Len(s) : s[i] = x BY <1>5 DEF Holds
  <2>2. PICK j \in 1 .. Len(s) : s[j] = y BY <1>5 DEF Holds
  <2>3. IdOf[s[i]] = IdOf[s[j]] BY <1>4, <1>5, <2>1, <2>2
  <2>4. i = j BY <1>1, <2>3 DEF Apart
  <2> QED BY <2>1, <2>2, <2>4
<1> QED BY <1>2, <1>3, <1>4, <1>5

\* Part of a stock.
LEMMA StockFilter ==
    ASSUME NEW s \in Stock, NEW T
    PROVE  /\ L!Filter(s, T) = Filter(s, T) /\ Filter(s, T) \in Stock
           /\ \A x : Holds(Filter(s, T), x) <=> x \in T /\ Holds(s, x)
<1>1. s \in Seq(Aged) /\ Apart(s, IdOf) BY DEF Stock
<1>2. Filter(s, T) \in Seq(Aged) BY <1>1, FilterType
<1>3. Apart(Filter(s, T), IdOf) BY <1>1, FilterApart
<1>4. \A x : Holds(Filter(s, T), x) <=> x \in T /\ Holds(s, x) BY <1>1, FilterKeeps
<1> QED BY <1>2, <1>3, <1>4, ListFilter DEF Stock

\* Two stocks with no source in common.
LEMMA StockJoin ==
    ASSUME NEW s \in Stock, NEW t \in Stock,
           \A x, y : Holds(s, x) /\ Holds(t, y) => x.id # y.id
    PROVE  /\ s \o t \in Stock
           /\ \A x : Holds(s \o t, x) <=> Holds(s, x) \/ Holds(t, x)
<1>1. s \in Seq(Aged) /\ t \in Seq(Aged) /\ Apart(s, IdOf) /\ Apart(t, IdOf) BY DEF Stock
<1>2. \A i \in 1 .. Len(s), j \in 1 .. Len(t) : IdOf[s[i]] # IdOf[t[j]]
  <2> SUFFICES ASSUME NEW i \in 1 .. Len(s), NEW j \in 1 .. Len(t) PROVE IdOf[s[i]] # IdOf[t[j]]
      OBVIOUS
  <2>1. Holds(s, s[i]) /\ Holds(t, t[j]) BY DEF Holds
  <2>2. IdOf[s[i]] = s[i].id /\ IdOf[t[j]] = t[j].id BY <2>1, InStock
  <2> QED BY <2>1, <2>2
<1>3. Apart(s \o t, IdOf) BY <1>1, <1>2, JoinApart
<1>4. s \o t \in Seq(Aged) BY <1>1
<1>5. \A x : Holds(s \o t, x) <=> Holds(s, x) \/ Holds(t, x) BY <1>1, JoinHolds
<1> QED BY <1>3, <1>4, <1>5 DEF Stock

\* A list of the elements of a finite set has each of them once.
LEMMA SetInOrder ==
    ASSUME NEW S, IsFiniteSet(S)
    PROVE  /\ L!Cardinality(S) = Cardinality(S) /\ Cardinality(S) \in Nat
           /\ L!SetToSeq(S) \in [1 .. Cardinality(S) -> S]
           /\ \A i, j \in 1 .. Cardinality(S) : L!SetToSeq(S)[i] = L!SetToSeq(S)[j] => i = j
           /\ \A x \in S : \E i \in 1 .. Cardinality(S) : L!SetToSeq(S)[i] = x
<1> DEFINE n == Cardinality(S)
<1>1. n \in Nat /\ ExistsBijection(1 .. n, S) BY FS_CardinalityType
<1>2. PICK g \in [1 .. n -> S] : L!IsInjective(g)
    BY <1>1 DEF ExistsBijection, Bijection, Injection, IsInjective, L!IsInjective
<1>3. L!Cardinality(S) = n BY Zenon DEF L!Cardinality, Cardinality
<1> HIDE DEF n
<1>4. L!SetToSeq(S) \in [1 .. n -> S] /\ L!IsInjective(L!SetToSeq(S))
    BY <1>2, <1>3, Zenon DEF L!SetToSeq
<1>5. PICK t : t = L!SetToSeq(S) OBVIOUS
<1>6. t \in [1 .. n -> S] /\ \A i, j \in 1 .. n : t[i] = t[j] => i = j
    BY <1>4, <1>5 DEF L!IsInjective
<1>7. t \in Injection(1 .. n, S) BY <1>6 DEF Injection, IsInjective
<1>8. IsFiniteSet(1 .. n) /\ Cardinality(1 .. n) = n BY <1>1, FS_Interval
<1>9. t \in Surjection(1 .. n, S) BY <1>7, <1>8, FS_Injection DEF n
<1>10. \A x \in S : \E i \in 1 .. n : t[i] = x BY <1>9 DEF Surjection
<1> QED BY <1>1, <1>3, <1>5, <1>6, <1>10 DEF n

\* A read folded into a channel's stock: it has what the read carries, each source
\* once, and what it does not carry is a read older.
LEMMA FoldStock ==
    ASSUME NEW s \in Stock, NEW brought \in SUBSET Source
    PROVE  /\ L!Fold(s, brought) \in Stock
           /\ \A y \in brought : \E x : Holds(L!Fold(s, brought), x) /\ x.id = y
           /\ \A x : Holds(L!Fold(s, brought), x) /\ x.id \notin brought /\ x.age < For => x.age \in 1 .. For
<1> DEFINE fresh == brought \ L!Ids(s)
<1> DEFINE m == Cardinality(fresh)
<1> DEFINE old == [i \in DOMAIN s |->
       [id |-> s[i].id,
        age |-> IF s[i].id \in brought THEN 0
                ELSE IF s[i].age < For THEN s[i].age + 1 ELSE For]]
<1> DEFINE rest == [i \in 1 .. m |-> [id |-> L!SetToSeq(fresh)[i], age |-> 0]]
<1>1. For \in Nat /\ IsFiniteSet(fresh) /\ fresh \subseteq Source
  <2>1. IsFiniteSet(Source) /\ fresh \in SUBSET Source BY ListsAssumption
  <2> QED BY <2>1, ListsAssumption, FS_Subset
<1>2. /\ m \in Nat /\ L!Cardinality(fresh) = m
      /\ \A i \in 1 .. m : L!SetToSeq(fresh)[i] \in fresh
      /\ \A i, j \in 1 .. m : L!SetToSeq(fresh)[i] = L!SetToSeq(fresh)[j] => i = j
      /\ \A x \in fresh : \E i \in 1 .. m : L!SetToSeq(fresh)[i] = x
  <2> HIDE DEF fresh
  <2> QED BY <1>1, SetInOrder
<1>3. L!Fold(s, brought) = old \o rest BY <1>2 DEF L!Fold
<1>4. /\ s \in Seq(Aged) /\ Len(s) \in Nat /\ DOMAIN s = 1 .. Len(s)
      /\ \A i \in 1 .. Len(s) : s[i] \in Aged /\ Holds(s, s[i])
      /\ \A i, j \in 1 .. Len(s) : s[i].id = s[j].id => i = j
  <2>1. s \in Seq(Aged) /\ Apart(s, IdOf) BY DEF Stock
  <2>2. \A i \in 1 .. Len(s) : s[i] \in Aged /\ IdOf[s[i]] = s[i].id BY <2>1 DEF IdOf
  <2> QED BY <2>1, <2>2 DEF Apart, Holds
<1>5. L!Ids(s) = {s[i].id : i \in 1 .. Len(s)} BY <1>4 DEF L!Ids, L!ToSet
<1> HIDE DEF fresh, m
<1>6. old \in Seq(Aged) /\ Len(old) = Len(s) /\ \A i \in 1 .. Len(s) : old[i].id = s[i].id
  <2>1. \A i \in 1 .. Len(s) : old[i] \in Aged /\ old[i].id = s[i].id
    <3> SUFFICES ASSUME NEW i \in 1 .. Len(s) PROVE old[i] \in Aged /\ old[i].id = s[i].id
        OBVIOUS
    <3>1. s[i].id \in Source /\ s[i].age \in Nat BY <1>4 DEF Aged
    <3> QED BY <1>1, <1>4, <3>1 DEF Aged
  <2>2. DOMAIN old = 1 .. Len(s) /\ old = [i \in 1 .. Len(s) |-> old[i]] BY <1>4
  <2> HIDE DEF old
  <2> QED BY <1>4, <2>1, <2>2, TableIsList
<1>7. /\ rest \in Seq(Aged) /\ Len(rest) = m
      /\ \A i \in 1 .. m : rest[i].id = L!SetToSeq(fresh)[i] /\ rest[i].age = 0
  <2>1. \A i \in 1 .. m : rest[i] \in Aged
    <3> SUFFICES ASSUME NEW i \in 1 .. m PROVE rest[i] \in Aged
        OBVIOUS
    <3>1. PICK y \in Source : y = L!SetToSeq(fresh)[i] BY <1>1, <1>2
    <3>2. rest[i] = [id |-> y, age |-> 0] BY <3>1
    <3> QED BY <3>2 DEF Aged
  <2>2. DOMAIN rest = 1 .. m /\ rest = [i \in 1 .. m |-> rest[i]] OBVIOUS
  <2>3. \A i \in 1 .. m : rest[i].id = L!SetToSeq(fresh)[i] /\ rest[i].age = 0 OBVIOUS
  <2> HIDE DEF rest
  <2> QED BY <1>2, <2>1, <2>2, <2>3, TableIsList
<1>8. old \in Stock
  <2>1. \A i \in 1 .. Len(s) : IdOf[old[i]] = s[i].id
    <3>1. \A i \in 1 .. Len(s) : old[i] \in Aged BY <1>6
    <3> HIDE DEF old
    <3> QED BY <1>6, <3>1 DEF IdOf
  <2> HIDE DEF old
  <2> QED BY <1>4, <1>6, <2>1 DEF Stock, Apart
<1>9. rest \in Stock
  <2>1. \A i \in 1 .. m : IdOf[rest[i]] = L!SetToSeq(fresh)[i]
    <3> HIDE DEF rest
    <3>1. \A i \in 1 .. m : rest[i] \in Aged BY <1>7
    <3> QED BY <1>7, <3>1 DEF IdOf
  <2> HIDE DEF rest
  <2> QED BY <1>2, <1>7, <2>1 DEF Stock, Apart
<1>10. \A x, y : Holds(old, x) /\ Holds(rest, y) => x.id # y.id
  <2> SUFFICES ASSUME NEW i \in 1 .. Len(s), NEW j \in 1 .. m PROVE old[i].id # rest[j].id
    <3> HIDE DEF old, rest
    <3> QED BY <1>6, <1>7 DEF Holds
  <2>1. old[i].id \in L!Ids(s) /\ rest[j].id \in fresh
    <3> HIDE DEF old, rest
    <3> QED BY <1>2, <1>5, <1>6, <1>7
  <2> QED BY <2>1 DEF fresh
<1>11. old \o rest \in Stock /\ \A x : Holds(old \o rest, x) <=> Holds(old, x) \/ Holds(rest, x)
  <2> HIDE DEF old, rest
  <2> QED BY <1>8, <1>9, <1>10, StockJoin
<1>12. ASSUME NEW y \in brought PROVE \E x : Holds(old \o rest, x) /\ x.id = y
  <2>1. CASE y \in L!Ids(s)
    <3>1. PICK i \in 1 .. Len(s) : y = s[i].id BY <1>5, <2>1
    <3>2. Holds(old, old[i]) /\ old[i].id = y
      <4> HIDE DEF old
      <4> QED BY <1>6, <3>1 DEF Holds
    <3> QED BY <1>11, <3>2
  <2>2. CASE y \notin L!Ids(s)
    <3>1. y \in fresh BY <2>2 DEF fresh
    <3>2. PICK i \in 1 .. m : L!SetToSeq(fresh)[i] = y BY <1>2, <3>1
    <3>3. Holds(rest, rest[i]) /\ rest[i].id = y
      <4> HIDE DEF rest
      <4> QED BY <1>7, <3>2 DEF Holds
    <3> QED BY <1>11, <3>3
  <2> QED BY <2>1, <2>2
<1>13. ASSUME NEW x, Holds(old \o rest, x), x.id \notin brought, x.age < For PROVE x.age \in 1 .. For
  <2>1. CASE Holds(old, x)
    <3>1. PICK i \in 1 .. Len(s) : x = old[i]
      <4> HIDE DEF old
      <4> QED BY <1>6, <2>1 DEF Holds
    <3>2. s[i].id \notin brought /\ s[i].age \in Nat BY <1>4, <1>6, <1>13, <3>1 DEF Aged
    <3>3. x.age = IF s[i].age < For THEN s[i].age + 1 ELSE For BY <1>4, <3>1, <3>2
    <3> QED BY <1>1, <1>13, <3>2, <3>3
  <2>2. CASE Holds(rest, x)
    <3>1. PICK i \in 1 .. m : x = rest[i]
      <4> HIDE DEF rest
      <4> QED BY <1>7, <2>2 DEF Holds
    <3>2. x.id \in fresh BY <1>2, <1>7, <3>1
    <3> QED BY <1>13, <3>2 DEF fresh
  <2> QED BY <1>11, <1>13, <2>1, <2>2
<1> QED BY <1>3, <1>11, <1>12, <1>13

\* Of a stock, those so many reads old.
OfAge(s, a) == L!Filter(s, {x \in L!ToSet(s) : x.age = a})

\* They are those.
LEMMA OfAgeIs ==
    ASSUME NEW s \in Stock, NEW a
    PROVE  /\ OfAge(s, a) \in Stock /\ OfAge(s, a) \in Seq(Aged)
           /\ \A x : Holds(OfAge(s, a), x) <=> Holds(s, x) /\ x.age = a
<1> DEFINE T == {x \in L!ToSet(s) : x.age = a}
<1>1. \A x : x \in T <=> Holds(s, x) /\ x.age = a BY InStock
<1>2. OfAge(s, a) = L!Filter(s, T) BY DEF OfAge
<1> HIDE DEF T
<1>3. OfAge(s, a) = Filter(s, T) BY <1>2, ListFilter
<1>4. Filter(s, T) \in Stock /\ \A x : Holds(Filter(s, T), x) <=> x \in T /\ Holds(s, x)
    BY StockFilter
<1>5. OfAge(s, a) \in Seq(Aged) BY <1>3, <1>4 DEF Stock
<1> QED BY <1>1, <1>3, <1>4, <1>5

\* Newest runs its loop.
LEMMA NewestRuns ==
    ASSUME NEW s \in Stock
    PROVE  \E g : /\ g \in [0 .. For -> Seq(Aged)] /\ g[0] = <<>>
                  /\ \A a \in 1 .. For : g[a] = g[a - 1] \o OfAge(s, a)
                  /\ L!Newest(s) = g[For]
<1> DEFINE V == Seq(Aged)
<1> DEFINE turn == [a \in 1 .. For |-> [v \in V |-> v \o OfAge(s, a)]]
<1> DEFINE Is(g) == g = [a \in 0 .. For |-> IF a = 0 THEN <<>> ELSE g[a - 1] \o OfAge(s, a)]
<1>1. For \in Nat BY ListsAssumption
<1>2. turn \in [1 .. For -> [V -> V]]
  <2>1. ASSUME NEW a \in 1 .. For, NEW v \in V PROVE v \o OfAge(s, a) \in V
    <3>1. OfAge(s, a) \in V BY OfAgeIs
    <3> QED BY <3>1
  <2> HIDE DEF V
  <2> QED BY <2>1
<1>3. <<>> \in V OBVIOUS
<1>4. PICK g : LoopValues(g, For, V, <<>>, turn)
  <2> HIDE DEF V, turn
  <2> QED BY <1>1, <1>2, <1>3, LoopRuns
<1>5. /\ g \in [0 .. For -> V] /\ g[0] = <<>>
      /\ \A a \in 1 .. For : g[a] = g[a - 1] \o OfAge(s, a)
  <2>1. /\ g \in [0 .. For -> V] /\ g[0] = <<>>
        /\ \A a \in 1 .. For : g[a] = turn[a][g[a - 1]]
    BY <1>4 DEF LoopValues
  <2>2. \A a \in 1 .. For : g[a - 1] \in V
    <3>1. \A a \in 1 .. For : a - 1 \in 0 .. For BY <1>1
    <3> HIDE DEF V
    <3> QED BY <2>1, <3>1
  <2>3. \A a \in 1 .. For : turn[a][g[a - 1]] = g[a - 1] \o OfAge(s, a)
    <3> HIDE DEF V
    <3> QED BY <2>2
  <2> HIDE DEF V, turn
  <2> QED BY <2>1, <2>3
<1>6. Is(g)
  <2> HIDE DEF V
  <2>1. ASSUME NEW a \in 0 .. For
        PROVE  g[a] = IF a = 0 THEN <<>> ELSE g[a - 1] \o OfAge(s, a)
    <3>1. a = 0 \/ a \in 1 .. For BY <1>1
    <3> QED BY <1>5, <3>1
  <2>2. DOMAIN g = 0 .. For BY <1>5
  <2> QED BY <1>5, <2>1, <2>2
<1> DEFINE f == CHOOSE h : Is(h)
<1>7. Is(f)
  <2> HIDE DEF Is
  <2> QED BY <1>6
<1>8. L!Newest(s) = f[For] BY Zenon DEF L!Newest, OfAge
<1> HIDE DEF f
<1>9. f[For] = g[For]
  <2>1. f[0] = <<>> /\ \A a \in 1 .. For : f[a] = f[a - 1] \o OfAge(s, a)
    <3>1. 0 \in 0 .. For /\ \A a \in 1 .. For : a \in 0 .. For /\ a # 0 BY <1>1
    <3> QED BY <1>7, <3>1
  <2>2. \A a \in 1 .. For : f[a - 1] \in V => f[a] = turn[a][f[a - 1]]
    <3> HIDE DEF V
    <3> QED BY <2>1
  <2> HIDE DEF V, turn, Is
  <2>3. LoopTurns(f, For, V, <<>>, turn) BY <2>1, <2>2 DEF LoopTurns
  <2> QED BY <1>1, <1>4, <2>3, LoopEnds
<1> QED BY <1>5, <1>8, <1>9

\* Of two places the later has the older source.
ByAge(s) == \A i, j \in 1 .. Len(s) : i < j => s[i].age <= s[j].age

\* Newest has all of the stock that is not of this read, by age.
LEMMA NewestIs ==
    ASSUME NEW s \in Stock
    PROVE  /\ L!Newest(s) \in Stock /\ ByAge(L!Newest(s))
           /\ \A x : Holds(L!Newest(s), x) <=> Holds(s, x) /\ x.age \in 1 .. For
<1>1. PICK g : /\ g \in [0 .. For -> Seq(Aged)] /\ g[0] = <<>>
               /\ \A a \in 1 .. For : g[a] = g[a - 1] \o OfAge(s, a)
               /\ L!Newest(s) = g[For]
    BY NewestRuns
<1>2. For \in Nat BY ListsAssumption
<1> DEFINE Upto(a) == /\ g[a] \in Stock /\ ByAge(g[a])
                      /\ \A x : Holds(g[a], x) <=> Holds(s, x) /\ x.age \in 1 .. a
<1> DEFINE S == {a \in Nat : a <= For => Upto(a)}
<1>3. 0 \in S
  <2>1. g[0] = <<>> /\ <<>> \in Seq(Aged) /\ Len(<<>>) = 0 BY <1>1
  <2>2. Upto(0) BY <2>1 DEF Stock, Apart, ByAge, Holds
  <2> HIDE DEF Upto
  <2> QED BY <2>2
<1>4. ASSUME NEW a \in Nat, a \in S PROVE a + 1 \in S
  <2> SUFFICES ASSUME a + 1 <= For PROVE Upto(a + 1)
      OBVIOUS
  <2>1. a + 1 \in 1 .. For /\ (a + 1) - 1 = a /\ a <= For BY <1>2
  <2>2. Upto(a) BY <1>4, <2>1
  <2>3. PICK p : p = g[a] OBVIOUS
  <2>4. PICK q : q = OfAge(s, a + 1) OBVIOUS
  <2>5. g[a + 1] = p \o q BY <1>1, <2>1, <2>3, <2>4
  <2>6. /\ p \in Stock /\ ByAge(p)
        /\ \A x : Holds(p, x) <=> Holds(s, x) /\ x.age \in 1 .. a
    BY <2>2, <2>3
  <2>7. q \in Stock /\ \A x : Holds(q, x) <=> Holds(s, x) /\ x.age = a + 1
    BY <2>4, OfAgeIs
  <2>8. \A x, y : Holds(p, x) /\ Holds(q, y) => x.id # y.id
    <3> SUFFICES ASSUME NEW x, NEW y, Holds(p, x), Holds(q, y), x.id = y.id PROVE FALSE
        OBVIOUS
    <3>1. x = y BY <2>6, <2>7, InStock
    <3> QED BY <2>6, <2>7, <3>1
  <2>9. p \o q \in Stock /\ \A x : Holds(p \o q, x) <=> Holds(p, x) \/ Holds(q, x)
    BY <2>6, <2>7, <2>8, StockJoin
  <2>10. \A x : Holds(p \o q, x) <=> Holds(s, x) /\ x.age \in 1 .. a + 1
    <3>1. \A x : Holds(s, x) => x.age \in Nat BY InStock DEF Aged
    <3>2. \A x : Holds(s, x) => (x.age \in 1 .. a + 1 <=> x.age \in 1 .. a \/ x.age = a + 1)
        BY <3>1
    <3> QED BY <2>6, <2>7, <2>9, <3>2
  <2>11. ByAge(p \o q)
    <3>1. p \in Seq(Aged) /\ q \in Seq(Aged) BY <2>6, <2>7 DEF Stock
    <3>2. /\ Len(p \o q) = Len(p) + Len(q) /\ Len(p) \in Nat /\ Len(q) \in Nat
          /\ \A i \in 1 .. Len(p) : (p \o q)[i] = p[i]
          /\ \A i \in 1 .. Len(p) + Len(q) : i > Len(p) =>
                i - Len(p) \in 1 .. Len(q) /\ (p \o q)[i] = q[i - Len(p)]
      BY <3>1
    <3>3. \A i \in 1 .. Len(p) : p[i].age \in 1 .. a BY <2>6 DEF Holds
    <3>4. \A i \in 1 .. Len(q) : q[i].age = a + 1 BY <2>7 DEF Holds
    <3> SUFFICES ASSUME NEW i \in 1 .. Len(p) + Len(q), NEW j \in 1 .. Len(p) + Len(q), i < j
                 PROVE  (p \o q)[i].age <= (p \o q)[j].age
        BY <3>2 DEF ByAge
    <3>5. CASE j <= Len(p)
      <4>1. i \in 1 .. Len(p) /\ j \in 1 .. Len(p) BY <3>2, <3>5
      <4> QED BY <2>6, <3>2, <4>1 DEF ByAge
    <3>6. CASE j > Len(p) /\ i <= Len(p)
      <4>1. i \in 1 .. Len(p) BY <3>2, <3>6
      <4>2. (p \o q)[i].age \in 1 .. a /\ (p \o q)[j].age = a + 1 BY <3>2, <3>3, <3>4, <3>6, <4>1
      <4> QED BY <4>2
    <3>7. CASE j > Len(p) /\ i > Len(p)
      <4>1. (p \o q)[i].age = a + 1 /\ (p \o q)[j].age = a + 1 BY <3>2, <3>4, <3>7
      <4> QED BY <4>1
    <3> QED BY <3>2, <3>5, <3>6, <3>7
  <2> QED BY <2>5, <2>9, <2>10, <2>11
<1> HIDE DEF S
<1>5. Nat \subseteq S BY <1>3, <1>4, SetInduction
<1>6. Upto(For) BY <1>2, <1>5 DEF S
<1> QED BY <1>1, <1>6
\* The better of two dropped sources never comes later.
ByWorth(s, o) == \A i, j \in 1 .. Len(s) : i < j => ~L!Better(s[j], s[i], o)

\* Rank has all that is not of this read, the better first.
LEMMA RankIs ==
    ASSUME NEW s \in Stock, NEW o
    PROVE  /\ L!Rank(s, o) \in Stock /\ ByWorth(L!Rank(s, o), o)
           /\ \A x : Holds(L!Rank(s, o), x) <=> Holds(s, x) /\ x.age \in 1 .. For
<1> DEFINE good == {x \in L!ToSet(s) : o[x.id] \in L!Played}
<1> DEFINE rest == L!ToSet(s) \ good
<1>1. /\ \A x : x \in good <=> Holds(s, x) /\ o[x.id] \in L!Played
      /\ \A x : x \in rest <=> Holds(s, x) /\ o[x.id] \notin L!Played
  BY InStock
<1>2. L!Rank(s, o) = L!Newest(L!Filter(s, good)) \o L!Newest(L!Filter(s, rest)) BY DEF L!Rank
<1> HIDE DEF good, rest
<1>3. /\ L!Filter(s, good) \in Stock /\ L!Filter(s, rest) \in Stock
      /\ \A x : Holds(L!Filter(s, good), x) <=> x \in good /\ Holds(s, x)
      /\ \A x : Holds(L!Filter(s, rest), x) <=> x \in rest /\ Holds(s, x)
  <2>1. L!Filter(s, good) = Filter(s, good) /\ L!Filter(s, rest) = Filter(s, rest) BY ListFilter
  <2> QED BY <2>1, StockFilter
<1>4. PICK p : p = L!Newest(L!Filter(s, good)) OBVIOUS
<1>5. PICK q : q = L!Newest(L!Filter(s, rest)) OBVIOUS
<1>6. /\ p \in Stock /\ ByAge(p)
      /\ \A x : Holds(p, x) <=> Holds(s, x) /\ o[x.id] \in L!Played /\ x.age \in 1 .. For
  BY <1>1, <1>3, <1>4, NewestIs
<1>7. /\ q \in Stock /\ ByAge(q)
      /\ \A x : Holds(q, x) <=> Holds(s, x) /\ o[x.id] \notin L!Played /\ x.age \in 1 .. For
  BY <1>1, <1>3, <1>5, NewestIs
<1>8. \A x, y : Holds(p, x) /\ Holds(q, y) => x.id # y.id BY <1>6, <1>7
<1>9. p \o q \in Stock /\ \A x : Holds(p \o q, x) <=> Holds(p, x) \/ Holds(q, x)
  BY <1>6, <1>7, <1>8, StockJoin
<1>10. ByWorth(p \o q, o)
  <2>1. p \in Seq(Aged) /\ q \in Seq(Aged) BY <1>6, <1>7 DEF Stock
  <2>2. /\ Len(p \o q) = Len(p) + Len(q) /\ Len(p) \in Nat /\ Len(q) \in Nat
        /\ \A i \in 1 .. Len(p) : (p \o q)[i] = p[i]
        /\ \A i \in 1 .. Len(p) + Len(q) : i > Len(p) =>
              i - Len(p) \in 1 .. Len(q) /\ (p \o q)[i] = q[i - Len(p)]
    BY <2>1
  <2>3. \A i \in 1 .. Len(p) : o[p[i].id] \in L!Played /\ p[i].age \in 1 .. For
    BY <1>6 DEF Holds
  <2>4. \A i \in 1 .. Len(q) : o[q[i].id] \notin L!Played /\ q[i].age \in 1 .. For
    BY <1>7 DEF Holds
  <2>5. For \in Nat BY ListsAssumption
  <2> SUFFICES ASSUME NEW i \in 1 .. Len(p) + Len(q), NEW j \in 1 .. Len(p) + Len(q), i < j
               PROVE  ~L!Better((p \o q)[j], (p \o q)[i], o)
      BY <2>2 DEF ByWorth
  <2>6. CASE j <= Len(p)
    <3>1. i \in 1 .. Len(p) /\ j \in 1 .. Len(p) BY <2>2, <2>6
    <3>2. p[i].age <= p[j].age BY <1>6, <3>1 DEF ByAge
    <3> QED BY <2>2, <2>3, <2>5, <3>1, <3>2 DEF L!Better
  <2>7. CASE j > Len(p) /\ i <= Len(p)
    <3>1. i \in 1 .. Len(p) /\ j - Len(p) \in 1 .. Len(q) /\ (p \o q)[j] = q[j - Len(p)]
      BY <2>2, <2>7
    <3>2. o[(p \o q)[i].id] \in L!Played /\ o[(p \o q)[j].id] \notin L!Played
      BY <2>2, <2>3, <2>4, <3>1
    <3> QED BY <3>2 DEF L!Better
  <2>8. CASE j > Len(p) /\ i > Len(p)
    <3>1. /\ i - Len(p) \in 1 .. Len(q) /\ (p \o q)[i] = q[i - Len(p)]
          /\ j - Len(p) \in 1 .. Len(q) /\ (p \o q)[j] = q[j - Len(p)]
      BY <2>2, <2>8
    <3>2. PICK a \in 1 .. Len(q) : a = i - Len(p) BY <3>1
    <3>3. PICK b \in 1 .. Len(q) : b = j - Len(p) BY <3>1
    <3>4. a < b BY <2>2, <3>2, <3>3
    <3>5. q[a].age <= q[b].age BY <1>7, <3>4 DEF ByAge
    <3>6. (p \o q)[i] = q[a] /\ (p \o q)[j] = q[b] BY <3>1, <3>2, <3>3
    <3> QED BY <2>4, <2>5, <3>5, <3>6 DEF L!Better
  <2> QED BY <2>2, <2>6, <2>7, <2>8
<1> QED BY <1>2, <1>4, <1>5, <1>6, <1>7, <1>9, <1>10

\* What a channel's stock becomes: what the lists carry of it, and then some of the
\* rest, of which nothing better was let go of.
KeepsBest(s, C, o, now, best) ==
    /\ now \in Stock /\ best \in Stock
    /\ \A x : Holds(now, x) <=> Holds(s, x) /\ x.id \in C
    /\ \A x : Holds(best, x) => Holds(s, x) /\ x.id \notin C
    /\ Len(best) <= MaxKept
    /\ now # <<>> =>
         \A x : Holds(s, x) /\ x.id \notin C /\ x.age \in 1 .. For /\ x.age < For
                /\ o[x.id] # "failed" /\ ~Holds(best, x) =>
                    /\ Len(best) = MaxKept
                    /\ \A i \in 1 .. Len(best) : ~L!Better(x, best[i], o)

LEMMA RememberedIs ==
    ASSUME NEW s \in Stock, NEW C, NEW o
    PROVE  \E now, best : /\ L!Remembered(s, C, o) = now \o best
                          /\ now \o best \in Stock
                          /\ KeepsBest(s, C, o, now, best)
<1> DEFINE T == {x \in L!ToSet(s) : x.id \in C}
<1> DEFINE now == L!Filter(s, T)
<1> DEFINE K == {x \in L!ToSet(s) : /\ x.id \notin C /\ x.age < For /\ o[x.id] # "failed"
                                    /\ now = <<>> => o[x.id] \in L!Played}
<1> DEFINE rank == L!Rank(L!Filter(s, K), o)
<1> DEFINE m == IF Len(rank) < MaxKept THEN Len(rank) ELSE MaxKept
<1> DEFINE best == SubSeq(rank, 1, m)
<1>1. L!Remembered(s, C, o) = now \o best BY DEF L!Remembered
<1>2. \A x : x \in T <=> Holds(s, x) /\ x.id \in C BY InStock
<1>3. \A x : x \in K <=> /\ Holds(s, x) /\ x.id \notin C /\ x.age < For /\ o[x.id] # "failed"
                         /\ now = <<>> => o[x.id] \in L!Played
  <2> HIDE DEF now
  <2> QED BY InStock
<1> HIDE DEF T, K
<1>4. now \in Stock /\ \A x : Holds(now, x) <=> Holds(s, x) /\ x.id \in C
  <2>1. now = Filter(s, T) BY ListFilter
  <2>2. Filter(s, T) \in Stock /\ \A x : Holds(Filter(s, T), x) <=> x \in T /\ Holds(s, x)
    BY StockFilter
  <2> HIDE DEF now
  <2> QED BY <1>2, <2>1, <2>2
<1> HIDE DEF now
<1>5. /\ rank \in Stock /\ ByWorth(rank, o)
      /\ \A x : Holds(rank, x) <=> x \in K /\ Holds(s, x) /\ x.age \in 1 .. For
  <2>1. L!Filter(s, K) = Filter(s, K) BY ListFilter
  <2>2. Filter(s, K) \in Stock /\ \A x : Holds(Filter(s, K), x) <=> x \in K /\ Holds(s, x)
    BY StockFilter
  <2>3. PICK t : t = L!Filter(s, K) OBVIOUS
  <2>4. t \in Stock /\ \A x : Holds(t, x) <=> x \in K /\ Holds(s, x) BY <2>1, <2>2, <2>3
  <2>5. rank = L!Rank(t, o) BY <2>3
  <2> HIDE DEF rank
  <2> QED BY <2>4, <2>5, RankIs
<1> HIDE DEF rank
<1>6. rank \in Seq(Aged) /\ Apart(rank, IdOf) /\ Len(rank) \in Nat /\ MaxKept \in Nat
  <2>1. rank \in Seq(Aged) /\ Apart(rank, IdOf) BY <1>5 DEF Stock
  <2> QED BY <2>1, ListsAssumption
<1>7. m \in 0 .. Len(rank) /\ m <= MaxKept /\ (m < Len(rank) => m = MaxKept) BY <1>6
<1> HIDE DEF m
<1>8. /\ best \in Seq(Aged) /\ Len(best) = m
      /\ \A i \in 1 .. m : i \in 1 .. Len(rank) /\ best[i] = rank[i]
  BY <1>6, <1>7
<1> HIDE DEF best
<1>9. best \in Stock BY <1>6, <1>7, <1>8 DEF Stock, Apart
<1>10. \A x : Holds(best, x) => Holds(rank, x) BY <1>8 DEF Holds
<1>11. \A x : Holds(best, x) => Holds(s, x) /\ x.id \notin C BY <1>3, <1>5, <1>10
<1>12. ASSUME now # <<>>, NEW x, Holds(s, x), x.id \notin C, x.age \in 1 .. For, x.age < For,
              o[x.id] # "failed", ~Holds(best, x)
       PROVE  Len(best) = MaxKept /\ \A i \in 1 .. Len(best) : ~L!Better(x, best[i], o)
  <2>1. Holds(rank, x) BY <1>3, <1>5, <1>12
  <2>2. PICK j \in 1 .. Len(rank) : rank[j] = x BY <2>1 DEF Holds
  <2>3. ~(j <= m)
    <3> SUFFICES ASSUME j <= m PROVE FALSE
        OBVIOUS
    <3>1. j \in 1 .. Len(best) /\ best[j] = x BY <1>7, <1>8, <2>2
    <3> QED BY <1>12, <3>1 DEF Holds
  <2>4. m = MaxKept BY <1>6, <1>7, <2>3
  <2>5. \A i \in 1 .. m : i \in 1 .. Len(rank) /\ i < j BY <1>6, <1>7, <2>3
  <2> QED BY <1>5, <1>8, <2>2, <2>4, <2>5 DEF ByWorth
<1>13. now \o best \in Stock
  <2>1. \A x, y : Holds(now, x) /\ Holds(best, y) => x.id # y.id BY <1>4, <1>11
  <2> QED BY <1>4, <1>9, <2>1, StockJoin
<1>14. KeepsBest(s, C, o, now, best)
  BY <1>4, <1>7, <1>8, <1>9, <1>11, <1>12 DEF KeepsBest
<1> QED BY <1>1, <1>13, <1>14

\* What was carried under a channel, and what a read carries under it.
Was(c) == IF c \in DOMAIN carried THEN carried[c].sources ELSE <<>>
Brings(r, c) == IF c \in DOMAIN r THEN r[c].ids ELSE {}
Becomes(r, o, c) == L!Remembered(L!Fold(Was(c), Brings(r, c)), L!Carried(r), o)

\* remember, channel by channel.
LEMMA RememberIs ==
    ASSUME NEW r, NEW o
    PROVE  /\ DOMAIN L!Remember(r, o) =
                 {c \in DOMAIN carried \cup DOMAIN r : Becomes(r, o, c) # <<>>}
           /\ \A c \in DOMAIN L!Remember(r, o) : L!Remember(r, o)[c].sources = Becomes(r, o, c)
BY DEF L!Remember, Becomes, Was, Brings

\* A channel has each source once.
StockInv == \A c \in DOMAIN carried : carried[c].sources \in Stock

\* What a read may bring.
LEMMA ReadingIs ==
    ASSUME NEW r \in L!Readings
    PROVE  \A c \in DOMAIN r : r[c].ids \in SUBSET Source /\ r[c].ids # {}
BY ListsAssumption DEF L!Readings, L!MayBring

\* What one read does to one channel.
Splits(r, o, c, now, best) ==
    /\ Becomes(r, o, c) = now \o best /\ now \o best \in Stock
    /\ KeepsBest(L!Fold(Was(c), Brings(r, c)), L!Carried(r), o, now, best)
    /\ L!Fold(Was(c), Brings(r, c)) \in Stock
    /\ c \in DOMAIN r => now # <<>> /\ \A y \in r[c].ids : \E x : Holds(now, x) /\ x.id = y

LEMMA BecomesIs ==
    ASSUME StockInv, NEW r \in L!Readings, NEW o, NEW c \in DOMAIN carried \cup DOMAIN r
    PROVE  \E now, best : Splits(r, o, c, now, best)
<1>1. Was(c) \in Stock
  <2>1. <<>> \in Stock
    <3>1. <<>> \in Seq(Aged) /\ Len(<<>>) = 0 OBVIOUS
    <3> QED BY <3>1 DEF Stock, Apart
  <2> QED BY <2>1 DEF StockInv, Was
<1>2. Brings(r, c) \in SUBSET Source BY ReadingIs DEF Brings
<1>3. PICK s : s = L!Fold(Was(c), Brings(r, c)) OBVIOUS
<1>4. s \in Stock /\ \A y \in Brings(r, c) : \E x : Holds(s, x) /\ x.id = y
  BY <1>1, <1>2, <1>3, FoldStock
<1>5. PICK now, best : /\ L!Remembered(s, L!Carried(r), o) = now \o best
                       /\ now \o best \in Stock
                       /\ KeepsBest(s, L!Carried(r), o, now, best)
  BY <1>4, RememberedIs
<1>6. ASSUME c \in DOMAIN r
      PROVE  now # <<>> /\ \A y \in r[c].ids : \E x : Holds(now, x) /\ x.id = y
  <2>1. ASSUME NEW y \in r[c].ids PROVE \E x : Holds(now, x) /\ x.id = y
    <3>1. y \in L!Carried(r) BY <1>6, <2>1 DEF L!Carried
    <3>2. PICK x : Holds(s, x) /\ x.id = y BY <1>4, <1>6, <2>1 DEF Brings
    <3> QED BY <1>5, <3>1, <3>2 DEF KeepsBest
  <2>2. PICK y : y \in r[c].ids BY <1>6, ReadingIs
  <2>3. PICK x : Holds(now, x) BY <2>1, <2>2
  <2>4. now # <<>> BY <2>3 DEF Holds
  <2> QED BY <2>1, <2>4
<1>7. Becomes(r, o, c) = now \o best BY <1>3, <1>5 DEF Becomes
<1>8. Splits(r, o, c, now, best) BY <1>3, <1>4, <1>5, <1>6, <1>7 DEF Splits
<1> QED BY <1>8

\* What a read brings goes in, before what is kept.
LEMMA ReadGoesIn ==
    ASSUME StockInv, NEW r \in L!Readings, NEW o, NEW c \in DOMAIN r
    PROVE  LET l == L!Remember(r, o)
           IN  /\ c \in DOMAIN l
               /\ \E n \in 0 .. Len(l[c].sources) :
                    /\ r[c].ids \subseteq L!Ids(SubSeq(l[c].sources, 1, n))
                    /\ L!Ids(SubSeq(l[c].sources, 1, n)) \subseteq L!Carried(r)
<1>1. PICK now, best :
          /\ Becomes(r, o, c) = now \o best /\ now \o best \in Stock
          /\ KeepsBest(L!Fold(Was(c), Brings(r, c)), L!Carried(r), o, now, best)
          /\ now # <<>> /\ \A y \in r[c].ids : \E x : Holds(now, x) /\ x.id = y
  <2>1. PICK now, best : Splits(r, o, c, now, best) BY BecomesIs
  <2> QED BY <2>1 DEF Splits
<1>2. now \in Stock /\ now \in Seq(Aged) /\ best \in Seq(Aged) /\ \A x : Holds(now, x) => x.id \in L!Carried(r)
  BY <1>1 DEF KeepsBest, Stock
<1>3. Len(now) \in 0 .. Len(now \o best) /\ SubSeq(now \o best, 1, Len(now)) = now
      /\ now \o best # <<>>
  BY <1>1, <1>2
<1>4. L!Ids(now) = {x.id : x \in L!ToSet(now)} BY DEF L!Ids
<1>5. r[c].ids \subseteq L!Ids(now) /\ L!Ids(now) \subseteq L!Carried(r)
  <2>1. \A x : x \in L!ToSet(now) <=> Holds(now, x) BY <1>2, InStock
  <2> QED BY <1>1, <1>2, <1>4, <2>1
<1>6. c \in DOMAIN L!Remember(r, o) /\ L!Remember(r, o)[c].sources = now \o best
  BY <1>1, <1>3, RememberIs, ZenonT(30)
<1> QED BY <1>3, <1>5, <1>6

\* With l for the channels after the read: of what channel c had and the read still
\* carries, the best is kept.
KeptWell(l, r, o, c) ==
    LET old  == L!Fold(carried[c].sources, r[c].ids)
        kept == {s \in L!ToSet(l[c].sources) : s.id \notin L!Carried(r)}
    IN  /\ L!Cardinality(kept) <= MaxKept
        /\ \A s \in L!ToSet(old) :
            \/ s.id \in L!Ids(l[c].sources) \/ o[s.id] = "failed" \/ s.age >= For
            \/ L!Cardinality(kept) = MaxKept /\ \A k \in kept : ~L!Better(s, k, o)

\* Of what a channel had and is still carried, the best is kept.
LEMMA ReadKeepsBest ==
    ASSUME StockInv, NEW r \in L!Readings, NEW o, NEW c \in DOMAIN carried \cap DOMAIN r
    PROVE  KeptWell(L!Remember(r, o), r, o, c)
<1>1. PICK now, best :
          /\ Becomes(r, o, c) = now \o best /\ now \o best \in Stock
          /\ KeepsBest(L!Fold(Was(c), Brings(r, c)), L!Carried(r), o, now, best)
          /\ L!Fold(Was(c), Brings(r, c)) \in Stock
          /\ now # <<>> /\ \A y \in r[c].ids : \E x : Holds(now, x) /\ x.id = y
  <2>1. PICK now, best : Splits(r, o, c, now, best) BY BecomesIs
  <2> QED BY <2>1 DEF Splits
<1>2. PICK old : old = L!Fold(carried[c].sources, r[c].ids) OBVIOUS
<1>3. L!Fold(Was(c), Brings(r, c)) = old BY <1>2 DEF Was, Brings
<1>4. PICK all : all = now \o best OBVIOUS
<1>5. c \in DOMAIN L!Remember(r, o) /\ L!Remember(r, o)[c].sources = all
  <2>1. now \in Seq(Aged) /\ best \in Seq(Aged) BY <1>1 DEF KeepsBest, Stock
  <2>2. now \o best # <<>> BY <1>1, <2>1
  <2> QED BY <1>1, <1>4, <2>2, RememberIs, ZenonT(30)
<1>6. KeepsBest(old, L!Carried(r), o, now, best) /\ old \in Stock BY <1>1, <1>3
<1>7. all \in Stock /\ \A x : Holds(all, x) <=> Holds(now, x) \/ Holds(best, x)
  <2>1. now \in Seq(Aged) /\ best \in Seq(Aged) BY <1>6 DEF KeepsBest, Stock
  <2> QED BY <1>1, <1>4, <2>1, JoinHolds
<1> DEFINE kept == {s \in L!ToSet(all) : s.id \notin L!Carried(r)}
<1>8. kept = {best[i] : i \in 1 .. Len(best)}
  <2>1. \A x : x \in L!ToSet(all) <=> Holds(now, x) \/ Holds(best, x) BY <1>7, InStock
  <2>2. \A x : x \in kept <=> Holds(best, x) BY <1>6, <2>1 DEF KeepsBest
  <2>3. \A x : x \in {best[i] : i \in 1 .. Len(best)} <=> Holds(best, x) BY DEF Holds
  <2> HIDE DEF kept
  <2> QED BY <2>2, <2>3
<1>9. L!Cardinality(kept) = Len(best)
  <2>1. best \in Seq(Aged) /\ Apart(best, IdOf) BY <1>6 DEF KeepsBest, Stock
  <2>2. Cardinality(kept) = Len(best)
    <3> HIDE DEF kept
    <3> QED BY <1>8, <2>1, ApartCount
  <2>3. L!Cardinality(kept) = Cardinality(kept)
    <3> HIDE DEF kept
    <3> QED BY Zenon DEF L!Cardinality, Cardinality
  <2> HIDE DEF kept
  <2> QED BY <2>2, <2>3
<1>10. L!Cardinality(kept) <= MaxKept
  <2> HIDE DEF kept
  <2> QED BY <1>6, <1>9 DEF KeepsBest
<1>11. ASSUME NEW s \in L!ToSet(old), s.id \notin L!Ids(all), o[s.id] # "failed", ~(s.age >= For)
       PROVE  L!Cardinality(kept) = MaxKept /\ \A k \in kept : ~L!Better(s, k, o)
  <2>1. Holds(old, s) /\ s \in Aged /\ For \in Nat BY <1>6, InStock, ListsAssumption
  <2>2. ~Holds(all, s)
    <3>1. Holds(all, s) => s \in L!ToSet(all) BY <1>7, InStock
    <3> QED BY <1>11, <3>1 DEF L!Ids
  <2>3. s.id \notin L!Carried(r) /\ ~Holds(best, s)
    BY <1>6, <1>7, <2>1, <2>2 DEF KeepsBest
  <2>4. s.age < For BY <1>11, <2>1 DEF Aged
  <2>5. s.age \in 1 .. For
    <3>1. s.id \notin r[c].ids BY <2>3 DEF L!Carried
    <3>2. carried[c].sources \in Stock /\ r[c].ids \in SUBSET Source BY ReadingIs DEF StockInv
    <3> QED BY <1>2, <2>1, <2>4, <3>1, <3>2, FoldStock
  <2>6. Len(best) = MaxKept /\ \A i \in 1 .. Len(best) : ~L!Better(s, best[i], o)
    BY <1>1, <1>6, <1>11, <2>1, <2>3, <2>4, <2>5 DEF KeepsBest
  <2> HIDE DEF kept
  <2> QED BY <1>8, <1>9, <2>6
<1> HIDE DEF kept
<1>12. /\ L!Cardinality(kept) <= MaxKept
       /\ \A s \in L!ToSet(old) :
            \/ s.id \in L!Ids(all) \/ o[s.id] = "failed" \/ s.age >= For
            \/ L!Cardinality(kept) = MaxKept /\ \A k \in kept : ~L!Better(s, k, o)
  BY <1>10, <1>11
<1> QED BY <1>2, <1>5, <1>12 DEF kept, KeptWell

StockedInv == StockInv /\ L!CarriedGoIn

LEMMA InitStocked == L!Init => StockedInv
BY DEF L!Init, L!Nothing, StockedInv, StockInv, L!CarriedGoIn

\* A read leaves each channel its sources once.
LEMMA ReadStocks ==
    ASSUME StockInv, NEW r \in L!Readings, NEW o,
           carried' = L!Remember(r, o)
    PROVE  StockInv'
<1>1. ASSUME NEW c \in DOMAIN carried' PROVE carried'[c].sources \in Stock
  <2>1. c \in DOMAIN carried \cup DOMAIN r /\ carried'[c].sources = Becomes(r, o, c)
    BY <1>1, RememberIs, ZenonT(30)
  <2>2. PICK now, best : Splits(r, o, c, now, best) BY <2>1, BecomesIs
  <2> QED BY <2>1, <2>2 DEF Splits
<1> QED BY <1>1 DEF StockInv

LEMMA StockedStep == StockedInv /\ [L!Next]_(L!vars) => StockedInv'
<1> SUFFICES ASSUME StockedInv, [L!Next]_(L!vars) PROVE StockedInv'
    OBVIOUS
<1>1. ASSUME NEW r \in L!Readings, NEW o \in Answers, L!Read(r, o) PROVE StockedInv'
  <2>1. carried' = L!Remember(r, o) /\ read' = r /\ StockInv BY <1>1 DEF L!Read, StockedInv
  <2>2. StockInv' BY <2>1, ReadStocks
  <2>3. L!CarriedGoIn' BY <2>1, ReadGoesIn DEF L!CarriedGoIn
  <2> QED BY <2>2, <2>3 DEF StockedInv
<1>2. ASSUME NEW r \in L!Readings, NEW o \in Answers, L!ReadCut(r, o) PROVE StockedInv'
  BY <1>2 DEF L!ReadCut, StockedInv, StockInv, L!CarriedGoIn
<1>3. CASE UNCHANGED <<carried, read, cut>>
  BY <1>3 DEF StockedInv, StockInv, L!CarriedGoIn
<1>4. ASSUME NEW g, NEW yes, L!SetListGroups(g, yes) PROVE UNCHANGED <<carried, read, cut>>
  BY <1>4 DEF L!SetListGroups
<1>5. ASSUME NEW c, NEW yes, L!SetListChannels(c, yes) PROVE UNCHANGED <<carried, read, cut>>
  BY <1>5 DEF L!SetListChannels
<1>6. CASE UNCHANGED L!vars
  BY <1>3, <1>6 DEF L!vars, L!history
<1> QED BY <1>1, <1>2, <1>3, <1>4, <1>5, <1>6 DEF L!Next

LEMMA StockedKeeps == StockedInv /\ [L!Next]_(L!vars) => [L!LetsGoOfTheWorst]_(L!vars)
<1> SUFFICES ASSUME StockedInv, [L!Next]_(L!vars) PROVE [L!LetsGoOfTheWorst]_(L!vars)
    OBVIOUS
<1>1. ASSUME NEW r \in L!Readings, NEW o \in Answers, L!Read(r, o) PROVE L!LetsGoOfTheWorst
  <2>1. carried' = L!Remember(r, o) /\ read' = r /\ outcome' = o /\ StockInv
    BY <1>1 DEF L!Read, StockedInv
  <2>2. \A c \in DOMAIN carried \cap DOMAIN read' : KeptWell(carried', read', outcome', c)
    BY <2>1, ReadKeepsBest
  <2> QED BY <2>2 DEF L!LetsGoOfTheWorst, KeptWell
<1>2. ASSUME NEW r \in L!Readings, NEW o \in Answers, L!ReadCut(r, o) PROVE L!LetsGoOfTheWorst
  BY <1>2 DEF L!ReadCut, L!LetsGoOfTheWorst
<1>3. ASSUME NEW g, NEW yes, L!SetListGroups(g, yes) PROVE L!LetsGoOfTheWorst
  BY <1>3 DEF L!SetListGroups, L!LetsGoOfTheWorst
<1>4. ASSUME NEW c, NEW yes, L!SetListChannels(c, yes) PROVE L!LetsGoOfTheWorst
  BY <1>4 DEF L!SetListChannels, L!LetsGoOfTheWorst
<1> QED BY <1>1, <1>2, <1>3, <1>4 DEF L!Next

LEMMA ListsCarry == L!Spec => []L!CarriedGoIn
<1>1. StockedInv => L!CarriedGoIn BY DEF StockedInv
<1> QED BY <1>1, InitStocked, StockedStep, PTL DEF L!Spec

LEMMA ListsKeep == L!Spec => L!KeptAreTheBest
BY InitStocked, StockedStep, StockedKeeps, PTL DEF L!Spec, L!KeptAreTheBest
-----------------------------------------------------------------------------
(***************************************************************************)
(* The two parts together.                                                 *)
(***************************************************************************)
LEMMA PartsImplementEach == PartsSpec => Spec /\ L!Spec
<1>1. PartsInit => Init /\ L!Init BY DEF PartsInit
<1>2. ASSUME [PartsNext]_allVars PROVE [Next]_vars /\ [L!Next]_(L!vars)
    <2>1. UNCHANGED listVars => UNCHANGED L!vars
        BY DEF listVars, L!vars, L!choices, L!history
    <2> QED BY <1>2, <2>1 DEF PartsNext, allVars
<1> QED BY <1>1, <1>2, PTL DEF PartsSpec, Spec, L!Spec

\* For any channels, sources and groups, any reads, switches and kills: a channel
\* nobody switched itself is shown exactly when its group was decided to be on.
THEOREM GroupsStayDecided == PartsSpec => []GroupsAreDecided
BY PartsImplementEach, ListsDecideGroups DEF GroupsAreDecided

\* For any channels, sources and reads, any switches and kills: whatever a read
\* carries under a channel goes in, before what is kept of what it does not.
THEOREM CarriedAlwaysGoIn == PartsSpec => []CarriedGoIn
BY PartsImplementEach, ListsCarry DEF CarriedGoIn

\* For any reads and answers of the player: what a read lets go of under a channel
\* it carries has failed, is too old, or is no better than any that fills a place.
THEOREM BestAreKept == PartsSpec => KeptAreTheBest
BY PartsImplementEach, ListsKeep DEF KeptAreTheBest
=============================================================================
