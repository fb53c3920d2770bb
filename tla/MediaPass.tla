------------------------------ MODULE MediaPass ------------------------------
(***************************************************************************)
(* What pi-metrics says of the library and the disk (services/pi-metrics:  *)
(* media.go, host.go, purpose.go).  A pass asks one service after another, *)
(* and a walk of the disk goes folder by folder in a goroutine of its own, *)
(* while films are grabbed, imported, cross-seeded, watched and deleted.   *)
(* A film is one inode with a name per place that holds it.                *)
(***************************************************************************)
EXTENDS Naturals, FiniteSets, FiniteSetsExt

CONSTANTS
    Films,        \* films: each one torrent, one payload file
    Ratio,        \* those nobody asked Radarr for: autobrr's
    Low,          \* those whose first release is below the profile's cutoff
    Bytes,        \* size of each
    MinOrphan,    \* minOrphanBytes
    MaxMoves,     \* bound: changes of the world
    MaxFailures   \* bound: calls that fail

VARIABLES
    names,        \* of each film: the places that hold its inode
    torrents,     \* of each film: which of "main" and "cross" qBittorrent has
    queue,        \* of each film, in Radarr: "none", "downloading", "blocked"
    monitored,    \* films Radarr wants
    pending,      \* films Maintainerr has queued for deletion
    pc, movies, queued, claims,  \* the pass, and the answers it goes by
    out,          \* what it has to say
    calm, whole,  \* history: nothing moved, no call failed since it began
    walk, found, charged, purposes,  \* the disk collector
    still,        \* history: nothing moved since it began
    moves, failures

world == <<names, torrents, queue, monitored, pending>>
pass == <<pc, movies, queued, claims, out>>
disk == <<walk, found, charged, purposes>>
vars == <<world, pass, calm, whole, disk, still, moves, failures>>

\* The places under downloads/, in the order of their paths: linkDirs of
\* config/cross-seed puts every cross-seed under downloads/cross-seed.
Bin == {"binMain", "binCross"}
Downloads == Bin \cup {"main", "cross", "incomplete"}
Rank == [binCross |-> 1, binMain |-> 2, main |-> 3, cross |-> 4, incomplete |-> 5, films |-> 6]
\* The first component under downloads/ of a film's place.
Component(f, place) ==
    CASE place = "main" -> f
      [] place = "cross" -> "cross-seed"
      [] place = "incomplete" -> "incomplete"
      [] place \in Bin -> ".RecycleBin"
Components == Films \cup {"cross-seed", "incomplete", ".RecycleBin"}
HasFile(f) == "films" \in names[f]
Sum(S) == MapThenSumSet(LAMBDA f : Bytes[f], S)
-----------------------------------------------------------------------------
(* The world: what the other services do (external). *)
Nothing == [sole |-> {}, unmanaged |-> {}, counts |-> <<0, 0>>, waiting |-> [f \in Films |-> "none"],
            pending |-> {}, stuck |-> {}, orphans |-> {}, linked |-> {},
            bin |-> [main |-> {}, cross |-> {}, sole |-> {}]]

\* Where a film may be in its life when the service starts.
Life(n, t, q, asked) == [names |-> n, torrents |-> t, queue |-> q, asked |-> asked]
Lives == {
    Life({}, {}, "none", TRUE), Life({}, {}, "none", FALSE),
    Life({"incomplete"}, {"main"}, "downloading", TRUE),
    Life({"main"}, {"main"}, "downloading", TRUE),
    Life({"main", "films"}, {"main"}, "none", TRUE),
    Life({"main", "cross", "films"}, {"main", "cross"}, "none", TRUE),
    Life({"main", "cross"}, {"main", "cross"}, "none", FALSE),
    Life({"main", "films"}, {}, "none", TRUE),
    Life({"binMain", "films"}, {}, "none", TRUE),
    Life({"binMain", "cross"}, {"cross"}, "none", FALSE)}

Init ==
    /\ \E life \in [Films -> Lives] :
          /\ \A f \in Ratio : ~life[f].asked
          /\ names = [f \in Films |-> life[f].names]
          /\ torrents = [f \in Films |-> life[f].torrents]
          /\ queue = [f \in Films |-> life[f].queue]
          /\ monitored = {f \in Films : life[f].asked}
    /\ pending \in SUBSET {f \in Films : HasFile(f)}
    /\ pc = "qbit" /\ movies = [file |-> {}, monitored |-> {}] /\ queued = {} /\ claims = {}
    /\ out = Nothing /\ calm = TRUE /\ whole = TRUE
    /\ walk = "films" /\ found = [f \in Films |-> {}] /\ still = TRUE
    /\ charged = [films |-> {}, downloads |-> {}] /\ purposes = [f \in Films |-> "none"]
    /\ moves = 0 /\ failures = 0

Move ==
    /\ moves < MaxMoves /\ moves' = moves + 1
    /\ calm' = FALSE /\ still' = FALSE
    /\ UNCHANGED <<pass, whole, disk, failures>>

Rename(f, from, to) == names' = [names EXCEPT ![f] = (@ \ from) \cup to]

Grab(f) ==
    /\ Move /\ torrents[f] = {} /\ names[f] = {} /\ f \in monitored \cup Ratio
    /\ torrents' = [torrents EXCEPT ![f] = {"main"}]
    /\ Rename(f, {}, {"incomplete"})
    /\ queue' = [queue EXCEPT ![f] = IF f \in Ratio THEN "none" ELSE "downloading"]
    /\ UNCHANGED <<monitored, pending>>

Completes(f) ==
    /\ Move /\ "incomplete" \in names[f]
    /\ Rename(f, {"incomplete"}, {"main"})
    /\ UNCHANGED <<torrents, queue, monitored, pending>>

Imports(f) ==
    /\ Move /\ queue[f] = "downloading" /\ "main" \in names[f]
    /\ \/ Rename(f, {}, {"films"}) /\ queue' = [queue EXCEPT ![f] = "none"]
       \/ queue' = [queue EXCEPT ![f] = "blocked"] /\ UNCHANGED names
    /\ UNCHANGED <<torrents, monitored, pending>>

CrossSeeds(f) ==
    /\ Move /\ "main" \in torrents[f] /\ "main" \in names[f] /\ "cross" \notin torrents[f] \cup names[f]
    /\ torrents' = [torrents EXCEPT ![f] = @ \cup {"cross"}]
    /\ Rename(f, {}, {"cross"})
    /\ UNCHANGED <<queue, monitored, pending>>

Watched(f) ==
    /\ Move /\ HasFile(f)
    /\ IF f \in pending
         THEN /\ Rename(f, {"films"}, {})
              /\ pending' = pending \ {f} /\ monitored' = monitored \ {f}
         ELSE pending' = pending \cup {f} /\ UNCHANGED <<names, monitored>>
    /\ UNCHANGED <<torrents, queue>>

\* qbit-manage deletes a torrent into the bin; a person may leave its files.
Leaves(f, t) ==
    /\ Move /\ t \in torrents[f] /\ t \in names[f] /\ queue[f] # "downloading"
    /\ torrents' = [torrents EXCEPT ![f] = @ \ {t}]
    /\ \/ Rename(f, {t}, {IF t = "main" THEN "binMain" ELSE "binCross"})
       \/ UNCHANGED names
    /\ UNCHANGED <<queue, monitored, pending>>

EmptyBin ==
    /\ Move /\ \E f \in Films : names[f] \cap Bin # {}
    /\ names' = [f \in Films |-> names[f] \ Bin]
    /\ UNCHANGED <<torrents, queue, monitored, pending>>
-----------------------------------------------------------------------------
(* media: the groups, call by call. *)
Goes(to) == pc' = to
Says(key, value) == out' = [out EXCEPT ![key] = value]
Kept == UNCHANGED <<world, calm, whole, disk, still, moves, failures>>

\* treeBytesAndLinks: the link count of a payload file only.
Links(f) == IF Bytes[f] * 2 > MinOrphan THEN Cardinality(names[f]) ELSE 0

\* qbitMetrics: cross-seeds that are the last link to their bytes, and torrents
\* with no category and no ratio tag (none is added here).
QbitMetrics ==
    /\ pc = "qbit" /\ Goes("library") /\ Kept
    /\ Says("sole", {f \in Films : /\ "cross" \in torrents[f] /\ "cross" \in names[f]
                                   /\ Links(f) <= 1 /\ Bytes[f] > 0})
    /\ UNCHANGED <<movies, queued, claims>>

LibrarySizes ==
    /\ pc = "library" /\ Goes("movies") /\ Kept
    /\ Says("counts", <<Cardinality(Films \ Ratio), Cardinality({f \in Films : HasFile(f)})>>)
    /\ UNCHANGED <<movies, queued, claims>>

\* waitingOn: the films, then the queue, then the rows.
Movies ==
    /\ pc = "movies" /\ Goes("queue") /\ Kept
    /\ movies' = [file |-> {f \in Films : HasFile(f)}, monitored |-> monitored]
    /\ UNCHANGED <<queued, claims, out>>

Queue ==
    /\ pc = "queue" /\ Goes("cutoff") /\ Kept
    /\ queued' = {f \in Films : queue[f] # "none"}
    /\ UNCHANGED <<movies, claims, out>>

\* "downloading wins over the other two: it is already happening".
Row(f, below) ==
    IF f \in queued THEN "downloading"
    ELSE IF f \in movies.monitored \ movies.file THEN "missing"
    ELSE IF f \in below THEN "upgrade" ELSE "none"

Cutoff ==
    /\ pc = "cutoff" /\ Goes("pending") /\ Kept
    /\ LET below == {f \in Low \cap monitored : HasFile(f)}
       IN Says("waiting", [f \in Films |-> Row(f, below)])
    /\ UNCHANGED <<movies, queued, claims>>

MaintainerrPending ==
    /\ pc = "pending" /\ Goes("stuck") /\ Kept
    /\ Says("pending", pending)
    /\ UNCHANGED <<movies, queued, claims>>

\* orphans: what the queue cannot import, then who claims what in downloads.
Stuck ==
    /\ pc = "stuck" /\ Goes("claims") /\ Kept
    /\ Says("stuck", {f \in Films : queue[f] = "blocked"})
    /\ UNCHANGED <<movies, queued, claims>>

\* Where qBittorrent has each torrent's content.
ContentPath(f, t) == IF t = "main" /\ "incomplete" \in names[f] THEN "incomplete" ELSE t
Claimed == UNION {{Component(f, ContentPath(f, t)) : t \in torrents[f]} : f \in Films}

Claims ==
    /\ pc = "claims" /\ Goes("dirs") /\ Kept
    /\ claims' = Claimed
    /\ UNCHANGED <<movies, queued, out>>

\* Mutant: the bin is one more directory that nobody claims.
ManagedDirNoBin == {"incomplete"}
ManagedDir == {"incomplete", ".RecycleBin"}

Within(c) == {f \in Films : \E place \in names[f] \cap Downloads : Component(f, place) = c}

Dirs ==
    /\ pc = "dirs" /\ Goes("bin") /\ Kept
    /\ LET data == {c \in Components \ (ManagedDir \cup claims) :
                        Within(c) # {} /\ Sum(Within(c)) >= MinOrphan}
       IN out' = [out EXCEPT !.orphans = data,
                             !.linked = {c \in data : \E f \in Within(c) : Links(f) >= 2}]
    /\ UNCHANGED <<movies, queued, claims>>

\* recycleBin: what it holds, name by name, and what has no other name (the films,
\* whose bytes it adds up).
RecycleBin ==
    /\ pc = "bin" /\ Goes("done") /\ Kept
    /\ LET held(place) == {f \in Films : place \in names[f]}
           sole == {f \in Films : names[f] \cap Bin # {} /\ Cardinality(names[f]) = 1}
       IN Says("bin", [main |-> held("binMain"), cross |-> held("binCross"), sole |-> sole])
    /\ UNCHANGED <<movies, queued, claims>>

\* A call fails: the problem is named, its group says what it can.
CallFails ==
    /\ failures < MaxFailures /\ failures' = failures + 1
    /\ pc \in {"qbit", "library", "movies", "queue", "cutoff", "pending", "stuck", "claims"}
    /\ pc' = CASE pc = "qbit" -> "library" [] pc = "library" -> "movies"
               [] pc = "movies" -> "pending" [] pc = "queue" -> "cutoff"
               [] pc = "cutoff" -> "pending" [] pc = "pending" -> "stuck"
               [] pc = "stuck" -> "claims" [] pc = "claims" -> "bin"
    /\ queued' = IF pc = "queue" THEN {} ELSE queued
    /\ out' = IF pc = "cutoff" THEN [out EXCEPT !.waiting = [f \in Films |-> Row(f, {})]] ELSE out
    /\ whole' = FALSE
    /\ UNCHANGED <<world, movies, claims, calm, disk, still, moves>>

\* collect: five minutes later, the next pass.
NextPass ==
    /\ pc = "done" /\ Goes("qbit")
    /\ out' = Nothing /\ calm' = TRUE /\ whole' = TRUE
    /\ movies' = [file |-> {}, monitored |-> {}] /\ queued' = {} /\ claims' = {}
    /\ UNCHANGED <<world, disk, still, moves, failures>>
-----------------------------------------------------------------------------
(* disk: films first, then downloads, an inode counted once. *)
DiskOnly == UNCHANGED <<world, pass, calm, whole, still, moves, failures>>

WalkFilms ==
    /\ walk = "films" /\ walk' = "downloads" /\ DiskOnly
    /\ found' = [f \in Films |-> names[f] \cap {"films"}]
    /\ charged' = [charged EXCEPT !.films = {f \in Films : HasFile(f)}]
    /\ UNCHANGED purposes

\* Mutant: a second name is charged to its folder too.
WalkDownloadsTwice ==
    /\ walk = "downloads" /\ walk' = "purpose" /\ DiskOnly
    /\ found' = [f \in Films |-> found[f] \cup (names[f] \cap Downloads)]
    /\ charged' = [charged EXCEPT !.downloads = {f \in Films : names[f] \cap Downloads # {}}]
    /\ UNCHANGED purposes

WalkDownloads ==
    /\ walk = "downloads" /\ walk' = "purpose" /\ DiskOnly
    /\ found' = [f \in Films |-> found[f] \cup (names[f] \cap Downloads)]
    /\ charged' = [charged EXCEPT !.downloads =
                      {f \in Films : names[f] \cap Downloads # {} /\ found[f] = {}}]
    /\ UNCHANGED purposes

\* torrentTags: the tags of every torrent under a component, together.
TagsUnder(c) ==
    UNION {UNION {(IF t = "cross" THEN {"cross-seed"} ELSE {})
                  \cup (IF f \in Ratio THEN {"ratio"} ELSE {})
                  \cup (IF f \notin Ratio /\ ~HasFile(f) THEN {"noHL"} ELSE {}) :
                  t \in {u \in torrents[f] : Component(f, ContentPath(f, u)) = c}} : f \in Films}

\* purpose and downloadPurpose, by the last of the inode's paths.  With no answer
\* from qBittorrent no torrent claims anything.
Purpose(f, answered) ==
    LET path == CHOOSE p \in found[f] : \A q \in found[f] : Rank[q] <= Rank[p]
        c == Component(f, path)
        tags == TagsUnder(c)
        known == answered /\ c \in Claimed
    IN CASE "films" \in found[f] /\ found[f] \cap Downloads # {} -> "watched_kept"
         [] "films" \in found[f] /\ found[f] \cap Downloads = {} -> "watched_only"
         [] "films" \notin found[f] /\ ~known -> "unclaimed"
         [] OTHER -> IF "ratio" \in tags THEN "ratio"
                     ELSE IF "noHL" \in tags THEN "seed_debt"
                     ELSE IF "cross-seed" \in tags THEN "cross_seed" ELSE "seed_debt"

Purposes ==
    /\ walk = "purpose" /\ walk' = "done"
    /\ \E answered \in BOOLEAN :
          /\ purposes' = [f \in Films |-> IF found[f] = {} THEN "none" ELSE Purpose(f, answered)]
          /\ IF answered THEN UNCHANGED failures
             ELSE failures < MaxFailures /\ failures' = failures + 1
    /\ UNCHANGED <<world, pass, calm, whole, still, moves, found, charged>>

NextWalk ==
    /\ walk = "done" /\ walk' = "films"
    /\ found' = [f \in Films |-> {}] /\ purposes' = [f \in Films |-> "none"]
    /\ charged' = [films |-> {}, downloads |-> {}] /\ still' = TRUE
    /\ UNCHANGED <<world, pass, calm, whole, moves, failures>>

World ==
    \/ EmptyBin
    \/ \E f \in Films : \/ Grab(f) \/ Completes(f) \/ Imports(f) \/ CrossSeeds(f) \/ Watched(f)
                        \/ \E t \in {"main", "cross"} : Leaves(f, t)
Media ==
    \/ QbitMetrics \/ LibrarySizes \/ Movies \/ Queue \/ Cutoff \/ MaintainerrPending
    \/ Stuck \/ Claims \/ Dirs \/ RecycleBin \/ CallFails \/ NextPass
Disk == WalkFilms \/ WalkDownloads \/ Purposes \/ NextWalk
Next == World \/ Media \/ Disk

Spec == Init /\ [][Next]_vars
-----------------------------------------------------------------------------
\* What a film waits for, from the film alone.
Waits(f) ==
    IF queue[f] # "none" THEN "downloading"
    ELSE IF f \in monitored /\ ~HasFile(f) THEN "missing"
    ELSE IF f \in monitored \cap Low THEN "upgrade" ELSE "none"

\* A pass in which nothing moved and no call failed says what is so: which bytes
\* only a cross-seed holds, what each film waits for, which data no torrent
\* claims, and no more reclaimable than emptying the bin gives back.  Of what lies
\* under downloads/cross-seed it tells nothing here (OrphansAreTold), and payload
\* files are above the size whose links are counted.
CalmPassIsTrue ==
    pc = "done" /\ calm /\ whole =>
        /\ out.sole = {f \in Films : "cross" \in torrents[f] /\ names[f] = {"cross"}}
        /\ \A f \in Films : out.waiting[f] = Waits(f)
        /\ out.orphans \ {"cross-seed"} =
              {f \in Films : "main" \in names[f] /\ "main" \notin torrents[f] /\ Bytes[f] >= MinOrphan}
        /\ \A f \in Films : f \in out.orphans \ out.linked => ~HasFile(f)
        /\ out.bin.sole \subseteq {f \in Films : names[f] # {} /\ names[f] \subseteq Bin}

\* "The purposes add up to the used space on the data disk", and so do the
\* folders, whatever is renamed during the walk: each film is told of once by both,
\* and when nothing moved those told of are those on the disk.
UsageAddsUp ==
    walk = "done" =>
        LET told == {f \in Films : purposes[f] # "none"}
        IN /\ told = charged.films \cup charged.downloads
           /\ charged.films \cap charged.downloads = {}
           /\ still => told = {f \in Films : names[f] # {}}

\* "Data in downloads that no torrent claims any more" is told.
OrphansAreTold ==
    pc = "done" /\ calm /\ whole =>
        \A f \in Films : "cross" \in names[f] \ torrents[f] => "cross-seed" \in out.orphans
=============================================================================
