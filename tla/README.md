# TLA+ for rpi-homeserver

This directory holds a TLA+ development of the programs in this repository: what a deploy does to
the Pi and who may deploy, how audio files are converted and which tracks they get, how cross-seed
is asked about torrents, how limits follow what is being watched, how the ratio control moves the
grabber and the tags, how the IPTV list is made and what it keeps of what its sources drop, what the
metrics say of the library and of what was played, how the next episodes are fetched, how subtitles
are listed and zipped. Each module is translated from the source and names the lines it stands for in
`PROJECT.json` ("map"). TLC checks the modules on small instances; TLAPS proves the theorems listed
below for every value of the constants.

    tlc -workers 2 -config DeployLock.cfg MCDeployLock     # one run
    tlapm DeployLockProofs.tla                             # one module's proofs

## The system: inventory

| part | source | state it keeps | operations | talks to |
|---|---|---|---|---|
| deploy lock | `scripts/deploy/apply.sh` 60-128, 335-347, `scripts/crontab` | `.deploy.lock` (flock and pid), `.deploy.pending`, `DEPLOY_RERUNS` | claim, leave a marker, take over a stuck run, start over | cron, the webhook, its own children |
| deploy pass | `apply.sh` 152-600 | the checkout, images, containers, `.deploy.build-failed.*`, the metric | pull, re-exec, reload, plan, pull images, build, up, retry | git, docker, Pushgateway |
| webhook receiver | `services/deploy-webhook` | counters | check a push, start `apply.sh` | GitHub, apply.sh, Pushgateway |
| audio-convert | `services/audio-convert` | queue, running job, results, `state.json` | play, cancel, worker, scan, inspect | audio-compat (child), the flock |
| audio-compat | `scripts/sync/audio-compat.py` | the library's files, `convert.lock` | one file, nightly pass, verify, swap | ffmpeg, the ledger, arrs |
| pi-metrics | `services/pi-metrics` | audio ledger, causes by session, the last lines of each collector | poll players, plan tracks, a pass over the library, a walk of the disk | Plex and its log, Jellyfin, Radarr, Sonarr, Maintainerr, qBittorrent |
| torrent-drop | `services/torrent-drop` | tags in qBittorrent, the baseline flag | add, sweep, ask cross-seed, button | qBittorrent, cross-seed, TMDB |
| tracker-control | `services/tracker-control` | whose the limits are; tiers read back from the services | limits while watching, ratio control, stats | qBittorrent, Jellyfin, autobrr, Prowlarr, arrs |
| baird | `services/baird` | choices, lists, outcomes, the translated ids, the list | pick, add and remove pages, passes of three sizes | upstream lists, web pages, Acestream engine |
| watch-next | `services/watch-next` | last actions and errors | watched hooks: monitor, search, push | Sonarr, Tautulli, Jellyfin, Pushgateway |
| subtitle-links | `services/subtitle-links` | a snapshot of the library | three ways into a walk, zips in batches | Jellyfin |
| speedtest | `services/speedtest` | history file | wait for the slot, measure, append | librespeed |
| tailscale-metrics, farnsworth | `services/...` | one cached answer each | scrape, page | Tailscale, a playlist |
| scripts | `scripts/sync`, `ops`, `setup`, `recovery`, `ci` | little or none (`indexer-retry`, `oci-hunt` remember) | one shot from cron, apply.sh, CI or a person | every service's API |

How they interact: a push reaches the webhook receiver, which starts `apply.sh`; so does cron. The
lock file and the marker are what runs share. `audio-convert` and the nightly `audio-compat` share a
flock and the files; both follow a rule about tracks that `pi-metrics` repeats in Go to offer the
button, from the ledger of what was played that it writes. `torrent-drop` and the other clients of
qBittorrent share its tags. Everything that publishes a metric pushes or is scraped; alerts read
those, so a metric that says the wrong thing hides a failure.

What makes each part correct, and what makes it hard:

- *Deploy lock.* Two passes never overlap; a push is with a run or with cron; a hung run does not end
  deploying. Hard: a flock lives on a file description, which children inherit; killed runs leave
  children; traps run on TERM; the script replaces itself while holding the lock.
- *Deploy pass.* What was pulled is running, or owed, or known to be dropped; retries stop; the
  metric tells the truth. Hard: everything is worked out from the diff of one pull, so a failure
  after the pull is a change no later diff shows.
- *Audio conversion.* No release and no conversion is lost, a file takes only its own name, a press
  is run once, the queue drains. Hard: two renames with a kill between, a temporary name shared by a
  directory, a worker on a copy of a queue requests change.
- *The rule about tracks.* The two copies agree, what one plans the other accepts, conversion ends
  and leaves a file that plays. Hard: by-hand and nightly conversions follow one another.
- *Cross-seed.* A tag is true; every torrent gets asked about; startup is no burst. Hard: calls that
  fail in the middle of a sweep, restarts.
- *Limits while watching.* Limits on while something plays, off later, a person's are left alone.
  Hard: the API can only toggle, and the answer may be lost.
- *Ratio control.* A paused grabber resumes only with the margin; the bonus hold fits the disk and
  wastes none of its budget; the metrics tell what is set; the knobs settle. Hard: six services are
  set in a row, any call may fail, and what is in place is read back rather than remembered.
- *Baird's lists.* What the lists carry goes in, the best of what they drop is kept, nothing shows
  undecided. Hard: sources come and go between reads, and the choices are saved before the channels.
- *Baird's passes.* A choice is in the list without waiting for a tick; a read that fails drops
  nothing. Hard: the pass works on a copy of the pages while requests change them, and a poke may
  come while another waits.
- *The ledger of what was played.* A codec is blamed only on a client that refuses it, or that
  changed its request in the middle of a file that has it, and the page's decisions follow from the
  codecs beside them. Hard: the cause is in a log that rotates, is remembered for a session that may
  change its request, and the file is written at another time than the memory changes.
- *What is said of the library and the disk.* A pass no film moves under tells what is so; purposes
  and folders add up. Hard: five services are asked in a row, and a film has a name in several
  places.
- *Watched hooks.* The episodes of the margin are monitored and there or searched; Pushgateway shows
  the log. Hard: two players report the same episode at once, any call fails, pushes overtake.
- *The snapshot of the library.* It never goes back, a stale visit refreshes it. Hard: a first
  request, a stale one and the keeper all want to walk.
- *Zips.* One that was finished holds every track asked for that came, and no other. Hard: batches
  whose calls end in any order, names built from labels.

`PROJECT.json` lists each hazard at its line with the properties that watch it.

## Modules

**`DeployRepo`** - one repository under a sequence of passes (`deploy_repo`, `image_plan`,
`push_repo_metrics`). A commit is what the script tells apart in its diff: services touched, tags
pinned, configs reloaded, `versions.env` or a compose file, `apply.sh` itself. `stale` are items that do
not hold the pulled source, `missing` pinned tags not on the Pi, `unapplied` containers older than their
image. One action per stretch of code that ends in a command which may fail, and one for that failure.
`carried` is the environment variable `DEPLOY_SELF_BEFORE`. A pass ends either in the end of its process
or in its trap running the script over with the environment it has (`RunOver`), `carried` included.
`excused` is history: what the code has dropped for good, at a kill, a re-exec whose second pull fails
and whose process then ends, a reload refused, or a debt past its retries. Naming those places is the
point: `NothingForgotten` says there is no other.

**`DeployLock`** - every line of `apply.sh` from opening the lock file to the EXIT trap, for any number
of runs at once. Each run has a program counter and a descriptor; the lock belongs to a description and
goes with its last user (`Surviving`), children (`fg`) and `git gc --auto` (`bg`) included. A pass is
one pull, which may fail and end it there (`PullFails`), and one foreground child. `seen` is the last
push that a pull brought, `asked` the last one that a pull tried to bring. `Term` follows bash: a run in
its pass runs its EXIT trap at once and leaves the child alone.

**`AudioConvert`** and **`Library`** - the page's queue and worker, the child it starts, and the
nightly pass, under one flock over files of one directory. The content of a file is `<<f, k>>`: the
release `f` with `k` remuxes behind it. `Library` is the abstract specification: of every file the
release stays, and each remux is of the newest file there is. `AudioConvert` implements it with
`kept` mapped to what is under the name and beside it. The state file is a variable of its own (`saved`):
each change of the queue saves it whole, a save that fails is only logged, and a restart loads what is
there. The results, saved beside the queue, are only shown and are left out.

**`AudioPlan`** - the rule as two sets of operators, Python (`MainTracks`, `StandsIn`, `Assess`,
`Remux`, `Verify`) and Go (`Lead`, `PlanMains`, `Playable`, `Decide`), and a state machine in which
a release is played, converted by hand from what the page planned, and converted at night.

**`AudioLedger`** - the playback collector one call at a time (Plex, Plex's log, Jellyfin, record,
write, publish) while clients play and stop, the log rotates, calls and writes fail, a person edits
the file and the service restarts. A client is what it refuses to play, what it may ask for (with direct play,
without, or either, changed in the middle of a session too), whether its video is re-encoded and whether
it is a browser; a file is the codecs of its tracks. `collect` is here
because what it stores and when it says so is part of what an alert reads.

**`MediaPass`** - the pass over the library, one service after another (qBittorrent, Radarr, its
queue, Maintainerr, the downloads, the bin), and the walk of the disk, a goroutine of its own. A film
is one inode with a name per place that holds it; its life (grabbed, complete, imported,
cross-seeded, watched, deleted, in the bin) goes on meanwhile. The walk
asks qBittorrent what is whose, and with no answer nothing is. `calm`, `whole` and `still` are
history: nothing moved, nothing failed.

**`CrossSeed`** - torrent-drop's sweep one call at a time (list, mark, ask, tag), against downloads
that finish, the button (for any torrent, known to qBittorrent or not), failing calls and restarts.

**`Quiet`** - `quietStep` one call at a time, against people who play, people who press the turtle,
lost answers, failures and restarts. Time is in looks: `Linger` looks of `quietEvery`.

**`TrackerControl`** - a pass of the ratio control over a tracker with tiers, one call at a time:
account, torrents, the two tag calls, the disk and autobrr's filter, Prowlarr, Radarr, Sonarr, the
filter again, the metrics. Each call may fail; one that writes may be applied with its answer lost. The
account, the disk and the site move, a person turns any knob, and the service restarts, between any two
of them. `seen`, `found` and `aside` are history: the space the look at the disk and the bonus hold went
by, and which calls of the pass failed or which knobs were turned meanwhile, each by its name. A
service's compare and write are one step: the write puts down the same value whatever happened in
between. Space is in units of 50 GB, the margin.

**`Baird`** - one goroutine that makes passes of three sizes (`everything`, `upstreamOnly`, `rebuild`),
woken by two tickers and by a channel that holds one poke; the reads of lists, pages, catalogue and
ids outside the store's lock, each of which may fail; requests between any two of them, that save a
choice and then poke. `disk` has the state files and the last good copy of the lists; a write of one may
fail, which is only logged, and a restart reads what is there. What a read of the lists drops stays only
if the player has played it, and not at all when the player does not answer. `carries`, `gone`, `missed` and
`unsaved` are history: the channels no read of the lists has dropped, what was let go of since the list
was written, what the engine did not translate in this pass, and the files whose last save failed.

**`BairdLists`** - the shared lists of baird: a read folded into what was carried before
(`Remember`), the groups it brings (`HoldNewGroups`), the switches of the page, and a kill between
the two files a read saves. A read holds the store's mutex, so it is one step. Age is in reads. What
is left out of the data: the order of channels, names, logos, header.

**`WatchNext`** - two hooks at once, each a goroutine that asks Sonarr for the series, goes through
the margin call by call and searches; the two short logs; and a push per event from a goroutine that
reads the log under its lock and sends it without, so bodies land in any order.

**`SubtitleLinks`** - the snapshot. The library is a version; a walker (the hourly keeper, the
goroutine of a stale visit, a request before the first snapshot) reads the films, the list of series
and each series' episodes, in calls that end in any order. **`SubtitleZip`** is one zip of the films
or of the series: its jobs, filters and names, the batches of four, and a reader who goes away (which is
when `zw.Create` fails).

Three modules put components side by side under one specification: **`Services`** (`SubtitleLinks`,
which it extends, `SubtitleZip`, `Quiet`, `CrossSeed`, `WatchNext`), **`PiMetrics`** (`AudioPlan`,
`AudioLedger`, `MediaPass`) and **`BairdService`** (`Baird`, `BairdLists`). The components of one share
no state, so interleaving them shows nothing that each alone does not: `which` is chosen at the start,
a behaviour is of that component, and the others stand at their start. `AtHand` names those a run
chooses from. `PartsSpec` is that specification; the theorems about a component are stated of it, by way
of a lemma that it implements the component's own.

**`Filters`** has the loops that keep what passes a test or append what each element brings, as they are
written all over the services (append in Go, a comprehension in the scripts); **`SequenceLemmas`** holds
what the proofs need of such loops. The `MC*` modules give constants; the `*Proofs` modules hold
theorems.

## Runs

Runs expected to pass:

| run | shows | bounds |
|---|---|---|
| `DeployRepo` | `NothingForgotten`, `AttemptsBounded`, `StatusHonest`, `HealsItself` | two pushes, three faults, a kill, one retry; one service of each kind |
| `DeployLock` | type, `MutualExclusion` when no run outlives `STUCK_AFTER` | three runs, four descriptions, two pushes, a crash |
| `DeployLockTakeover` | `PushIsOnAList`, `DeploysGoOn` with runs that hang and are taken over and pulls that fail | two runs, four descriptions, one push |
| `AudioConvert` | `TakesItsOwnName`, `CancelledStaysOut`, `QueuedIsRun`, `QueueDrains`, refinement of `Library` | two files, two presses, a cancel, two faults (restarts, kills of the night, failed saves), a night, two remuxes of a file |
| `TrackerControl` | `PublishedIsTrue`, `HoldIsFull`, `ResumesWithMargin`, `KnobsSettle` | a change of the world, a knob turned by hand, a restart, a failing call; the three tiers of rules.json, three values of the disk around the floor, three torrents of two sizes |
| `Services`: `Quiet` | `HandKept`, `QuietWhileWatching`, `LimitsLifted` | four looks of linger, three changes, two flips by hand, a restart, a lost answer, two failures |
| `CrossSeed` | `TagsAreTrue`, `EveryTorrentIsTagged` | two torrents, two failures, a restart, a press |
| `SubtitleLinks` | `NeverGoesBack`, `VisitRefreshes` | one series, one early request, a change of the library, two stale visits, a failure |
| `SubtitleZip` | `ZipHoldsWhatCame` | two films and two episodes, seven tracks, every choice of three wishes |
| `WatchNext` | `NextAreFetched`, `GatewayIsCurrent` | two seasons of two and a special, a margin of two, two hooks, a failure, logs of one entry |
| `PiMetrics`: `AudioPlan` | `TwinsAgree`, `PlanIsAccepted`, `EveryTrackStays`, `EveryLanguagePlays` | every release of up to three tracks (but for the names of its languages), three conversions |
| `AudioLedger` | `LearnedFromRefusals`, `DecisionsFollow` | five clients, of which two may change what they ask for, three files, one of them in the ledger already, two plays, two polls, a failure, one rotation of the log, a queue of two |
| `MediaPass` | `CalmPassIsTrue`, `UsageAddsUp` | two films at any point of their lives, a change, a failure; passes and walks as they come |
| `Baird`: `Baird` | `IdleListIsCurrent`, `FailuresDropNothing` | a listed channel, a page with two links, a catalogue channel; a change of them, two requests, a tick, a failure or restart, a file whose last save failed |
| `BairdLists` | `GroupsAreDecided`, `CarriedGoIn`, `KeptAreTheBest` | four reads, or three and a switch before the last; three sources, two channels, two groups, one source kept for three reads |

Why those bounds are enough. Two pushes and three faults let a failed build, its retry, a second failure
past the retries and a build of another service follow one another: the longest chain of causes in
`deploy_repo`. Three runs are the holder, one that takes it over and one that arrives in between; a
fourth does nothing a third cannot. With takeovers one push is enough to be lost. Four descriptions are
one for each run and one for an orphan. Two files and two presses give the shared temporary name, a job
behind another, and the same file queued twice. Three tracks are a default one, one of another language,
and one more that is a commentary, a stand-in or a double. One failing call with one change of the world
reaches a pass that acts on what is no longer so at each of its calls, and one restart a pass that is
cut at each. Four reads let a source be carried, dropped, outlive another, and be too old; three sources
and one place are what the choice of the best to keep needs. Two requests put one in a pass and one
behind it, which is what a channel of one place can get wrong. Two plays and two polls give a session
that is read again after its log was rotated away, and two sessions of which one evicts the other from
the queue. A change under a pass or a walk moves a film between any two of its calls, from any point of
its life. Two hooks give one inside the other at each call, and a push that overtakes. A walk that
begins while another reads needs two walkers; the third is the one the in-flight flag turns away. Every
number that a bound caps is a number of *events*, not a value the code computes with; the proofs are
free of them.

Runs expected to find a violation state what a comment or a document of the repository promises and
the code does not keep; each has a finding in `PROJECT.json`:

| run | promise | what happens |
|---|---|---|
| `DeployRepoAlert` | docs/deploy.md:95-96, the alert stands after the retries | the next pass has no diff and no retry due: status 0, the alert resolves |
| `DeployLockOverlap` | apply.sh:67, two deploys never overlap | TERM runs the stuck run's trap, which with a marker starts a pass beside its own orphan |
| `CrossSeedBurst` | torrent-drop main.go:280-282, the first pass only marks | a failed first pass counts as the first |
| `LastSuccess` | pi-metrics main.go:115, the time a collector last produced a snapshot, and docs/alerting.md:20, the data is fresh | one server fails, the other has no session: there is no line, and such passes set it until one brings something (main.go:75-78) |

### Other disagreements met while modelling

These hold no run of their own; the definition is in the module, and TLC refutes it when the cfg is
changed as said (of an instanced component it is named in the MC module, as `X!OthersAreAsked`).

| definition | promise | in which cfg | what happens |
|---|---|---|---|
| `PulledIsBuiltOrOwed` | apply.sh:335-337, the re-exec still sees what changed | `DeployRepo` | the second pull fails and the variable dies with the process |
| `FailedFileHonest` | apply.sh:501, a failed build is remembered | `DeployRepo` | past the retries another service's build removes the file |
| `NoPushLeftForCron` | apply.sh:72-74, the holder takes one more pass | `DeployLock` | a marker after the trap looked waits for cron, and so does a push whose pull failed |
| `LockKeptAcrossExec` | docs/deploy.md:40, the lock stays held | `DeployLock` | `exec 9>>` closes the inherited description |
| `OnlyTheStuckAreKilled` | docs/deploy.md:90-91 | `DeployLockOverlap` without symmetry | `fuser -k` kills a run that has only just started |
| `CancelSparesTheStarted` | audio-convert main.go:317, a started job cannot be cancelled | `AudioConvert` | it is still at the head: cancel says yes, it goes on |
| `RestartFindsTheFile` | docs/audio-convert.md:163-166, a restart starts again | `AudioConvert` | between the renames the path does not exist |
| `DeploysGoOn` | docs/deploy.md:90-91, a holder past 45 minutes is killed | `DeployLockTakeover` with one crash | an orphan holds the lock under a pid that is gone: every later run takes it for busy |
| `EveryPressIsRun` | convert.go:132, the queue runs one file at a time | `AudioConvert` | a file cancelled between the worker's copy and its run, and pressed again, is removed by the first press's result |
| `CommentariesStay` | audio-compat.py:377, everything else untouched | `PiMetrics` | the comment flags go |
| `DefaultLanguagePlays` | audio-compat.py:397, the default already plays | `PiMetrics` | not when the plan leads with another track |
| `OthersAreAsked` | docs/lifecycle.md:135, every torrent | `Services` with `Refused = {t1}` | one that fails ends every sweep |
| `PausedWhenFull` | docs/private-trackers.md:144-145 and control.go:430-431, below the floor the grabber is paused whatever the ratio says | `TrackerControl` | a tracker that cannot be read ends its pass (control.go:415-419) before the floor is looked at |
| `LimitIsAll` | lists.go:206-207 and docs/baird.md:29, without the player's answer the time limit is all there is | `Baird` | a channel dropped whole counts as one that never played, and goes at once (lists.go:186) |
| `RenamedGoes` | lists.go:145-146 and docs/baird.md:37, a channel dropped whole stays only while one of its sources has played | `Baird` | `carried` is by id over all channels: a renamed one keeps its sources under both names for ever |
| `NamesDiffer` | subtitle-links main.go:225, a repeated name gets a number | `Services` with two tracks of a film in one language and a third entitled "2" | the number may be another track's label: two entries share a name |
| `OrphansAreTold` | media.go:901, data in downloads that no torrent claims any more | `PiMetrics` | a dropped cross-seed is hidden while another cross-seed lives: the whole `cross-seed` folder counts as claimed |

`Quiet` meets two more: docs/private-trackers.md:170 (two minutes later the limits are off again) does
not survive a restart or a lost answer, and 174 (a turtle turned on by hand stays on) not a person who
flips it between the service's reading and its toggle, or over its own limits. `LimitsLifted` and
`HandKept` name those exceptions, and hold with them. So does `LearnedFromRefusals`: cause.go:12-13 says
that a file's codec was rejected, but the cause is remembered by session, and a client that turns direct
play off in the middle of one may be blamed for a codec it plays. `turned` has the files in which that
happened; without it the property is false. `GatewayIsCurrent` leaves out a push that was overtaken
(WatchNext, below), `ResumesWithMargin` a pass that could not read autobrr's state back.

Read in the code and outside what the modules tell apart, or a matter of taste; noted for whoever
changes these files:

- *baird*: unticking a dead channel that a category covers excludes nothing (`setPicked`), so it comes
  back when it is live again; a page removed and added again during a pass may get the older scrape's
  ids; after a restart the list is "not built yet" until the first whole pass ends, though it is on
  disk.
- *pi-metrics*: a ledger write that failed is retried only at the next change, so a hand edit followed
  by a restart leaves old decisions in the file until then; a film imported between the calls for the
  movies and for the queue is told as missing, and a failing queue call turns downloads into missing;
  a file moved from `incomplete` between the claims and the reading of the directory is told as an
  orphan for one pass; the media collector always prints its HELP lines, so its time of last success
  moves when every service failed.
- *watch-next*: an older push may land last and stay until the next event (`GatewayIsCurrent` excludes
  it by `overtaken`); an episode whose PUT failed is not searched and the action counts as done
  (`NextAreFetched` by `missed`).
- *subtitle-links*: a failed walk keeps the previous snapshot, but a series whose episodes failed is
  left out of a walk that succeeds.
- *tracker-control*: a blip of the network makes a site log in anew, though stats.go:190 says only when
  the stored cookie has stopped working.

`CHECK_DEADLOCK FALSE` is set where the system comes to rest: no press, night or torrent left, or a
file with nothing to add, plays, polls, hooks and requests used up. The deploy modules and the ratio
control never rest, and their runs check deadlock.

### Fairness

- `DeployRepo`: weak fairness of the pass (its steps and its failures together). Cron fires every
  half hour and each command ends or the pass is taken over. Nothing of pushes, faults or kills.
- `DeployLock`: weak fairness of cron, of each run's own steps, of time passing (`GrowOld`) and of
  `git gc` ending. Nothing is assumed of `ChildEnds` and `OrphanEnds`: a build may hang for ever.
- `AudioConvert`: weak fairness of the worker goroutine and of the nightly script; strong fairness of
  the night's end, which is on a clock and can be disabled while a file is converted.
- `Services`: weak fairness of torrent-drop's sweep and of the limits' loop, which never end; of each
  walk of subtitle-links, whose calls have timeouts; and of the goroutine a stale visit starts. Nothing
  of the keeper's ticker: `VisitRefreshes` must not need it.
- `TrackerControl`: weak fairness of the loop's own steps (`Step`), for it never ends and each call
  has a timeout; nothing of what fails, moves, restarts or is turned by hand. `KnobsSettle` assumes
  that the site can be read from some time on, and the code needs it (`PausedWhenFull`).
- `PiMetrics` and `Baird` state no liveness. That a choice reaches the list without a tick is stated as
  an invariant of the idle loop (`IdleListIsCurrent`): whatever runs, when it comes to rest the list is
  the one the choices make.

## Proofs

Every theorem below is checked by TLAPS down to its last leaf. They hold for any sets and bounds that
satisfy the modules' named assumptions, listed at the end.

`DeployRepoProofs`: `TypeCorrect`; `NothingIsForgotten` and `ReportsAreHonest` from `PassInv`, which
says of every point of a pass what is stale, where it will be built, and that what a diff named is
still to be planned (`NothingForgotten` speaks only of the points between passes, so it is far from
inductive); `AttemptsAreBounded` from `CreditInv`, where every pending diff is worth one attempt.

`DeployLockProofs`: `TypeCorrect` with `RunsOK` (a run that is idle has nothing open); and
`DeploysDoNotOverlap` from `LockInv`: whoever is past the claim has the lock's description, no two
runs share one, and foreground children are on the lock's. It assumes `~CanStick`, and must: with
takeovers the property is false (`DeployLockOverlap`). `PushesAreOnAList` holds with stuck deploys and
takeovers, as long as no run is killed from outside (`MaxCrashes = 0`). Its property counts any run that
has still to pull, and one of those may be about to kill itself: a rerun keeps its pid and its age, and
takes itself for the stuck holder when another has the lock and has not written its pid yet. `CarryInv`
leaves that one out (`Carries`), `PidInv` says that the other is then there, and `OfdInv` who has which
description open.

`AudioConvertProofs`: `TypeCorrect`; `NamesAreTheirOwn` and `ImplementsLibrary` from
`DiskInv` (whoever has the flock is making a remux of the newest file, the chain of a file has no
gaps, the newest is under its name but between the renames); `PressesAreRun` from `QueueInv`:
a path is queued once, and the job at hand is in the queue unless a cancel hit it (`overtaken`); it
cannot be had without that exception (`EveryPressIsRun` above), nor without that of a restart that loads
an older queue (`loose`), for a save that fails is not repeated. `CancelledAreOut` from the same.

`TrackerControlProofs`: `ResumesWithMarginHolds` from `MarginInv`, which says of every point between the
look at the disk and the write to autobrr that a paused grabber about to be resumed has its margin, was
not seen paused, or was paused by hand since. The action property alone speaks only of the write,
several steps later. `PublishedHolds` from `PublishInv`: each knob the pass has gone by is as the pass
means it, unless its own call failed or a hand turned it since. `HoldsAreFull` from `HoldInv`: what the
two tag calls have still to do ends in the hold of the disk that this pass found, but for the half whose
call failed; and from `HoldFits`: the loop of `bonusHold` keeps its total within the budget, and what it
passed over did not fit when it was passed, nor later, since the total only grows.

`ServicesProofs`: `SnapshotNeverGoesBack` from `WalkInv`: only who holds `refreshMu` walks, and what it
has read is no older than the snapshot and no newer than the library. `HandIsKept` from `OwnInv`: limits
the service takes for its own were set by it, and at the toggle the turtle is still as it was read,
unless a flip by hand crossed it. `GatewayStaysCurrent` from `PushInv`: every body that left was the log
at its time, told apart by how many entries had been recorded, and the newest is waiting for the lock,
on its way, or there. `TagsStayTrue` from `TagInv`: what a sweep is about to mark is an app's and was
complete at its start, what it or the button is about to tag has been asked about. `EpisodesAreFetched`
from `FetchInv`, which follows the loop of a hook: what it read of an episode is no more than is still
true (both hooks and Sonarr only add), and what it has gone by is monitored, and there or to be
searched, but for the calls that failed. The property counts the margin from the episodes alone, the
hook in places of a sorted run: `RunIs` shows that the run has every episode but the specials, each once
and in order (`OrderExists`, `SortedHasAll` of `SequenceLemmas`), and `AfterIs` that what the margin
covers are its next places. `ZipsHoldWhatCame` has two halves. What the jobs are is a fact about pure
functions: each loop between the library and the jobs drops, sorts or lines up what it was given, so its
result has the places of the list that pass its test, each once (`Chosen`: `FilterChosen`,
`ArrangedChosen`), and the jobs are the tracks asked for, each once (`JobsAre`, carried from an item to
a shelf, from the series to the whole library by `JobsOfAre`, `ItemsJobs`, `JoinedAre`); an item that is
not listed has none (`NoText`). What the batches do with them is `ZipInv`: of the jobs before the batch
at hand, those that came are in the zip, in order; of those of the batch, the bodies that arrived are
those that came, and no later job has been fetched.

`BairdProofs`: `NothingIsDropped` from `KeepInv`: what the list holds and the store no longer gives was
let go of; the store has every channel that no read of the lists has dropped, and so have the state file
and the last good copy, unless their last save failed. `IdleIsCurrent` from `IdleInv`, which follows a
pass: unless a request has left it another to make, what it has learned and what the engine did not give
are all that is picked. `GroupsStayDecided` from `GroupInv`: every group ever known, listed now or not,
is hidden unless its last decision was to show it. `CarriedAlwaysGoIn` and `BestAreKept` from
`StockedInv`, that a channel has each source once and each with an age (`Stock`), and from what one read
does to one channel (`Splits`): the sources it carries, in their order, then the `MaxKept` best of the
rest. `BestAreKept` rests on `RankIs`: the ranking puts a source before another only if it is no worse.

`PiMetricsProofs`, the plan: `TwinsAgreeAlways` by comparing the two programs' loops over the same tracks
(`MainsAgree`, `TwinsDecideAlike`), for any tracks at all; `PlansAreAccepted`, `TracksStay` and
`LanguagesPlay` from `PlanInv`: the release's tracks come last and in their order (`ReleaseLast`), once a
night has converted each language has a track that plays, which no later conversion takes away, and the
page's plan was made for the release (`PlanWants`). Media and
disk: `CalmPassesAreTrue` from `PassInv`, which says of each answer the pass has read that in a calm pass
it is still so, and `UsageAlwaysAddsUp` from `DiskInv`: the folders walked so far have charged each inode
found to one of them. Both need `WorldInv` (the places a film can be in at once). The ledger:
`DecisionsAlwaysFollow` from `Kept`: in memory, in the temporary file and in the file, each entry's
decision is the rule's answer to the codecs beside it, but in a file edited by hand or written by an older
program; and `OnlyRefusalsAreLearned`
from `RefusalInv`: who opened each session (`Owned`, a witness the code keeps nowhere) explains the
requests that are logged and the causes that are remembered of it, and no row or entry teaches what its
client does not refuse, but of a file in which that client changed its request. It assumes nothing of what
clients ask for.

`SequenceLemmas`, which the proofs of `TrackerControl`, `Services`, `Baird` and `PiMetrics` use. The
prover cannot instantiate a theorem that takes an operator, so induction is over a *set*: `SetInduction`
(a set of naturals with 0 and every successor is all of them) follows from the finiteness of intervals,
and the property becomes the set it defines. What a loop computes is written as a recursive function,
`f[n \in 0 .. Len(s)]`, and not as a RECURSIVE operator: `LoopRuns` shows that such a function exists
for any turns, `LoopEnds` that whatever makes the same turns ends alike. From these come the facts about
`Filter` (what it keeps, in which order, how many) and about joining two lists or many (`FilterFrom` and
`JoinedFrom`: where each place of the result comes from). `LastOf` and `OrderExists` show that a finite
set can be put in order, which is what a `CHOOSE` of a sorted run needs to mean anything. Where a
definition counts, the sum is over a set (`UsageAddsUp` counts the inodes of all folders at once), and
finiteness is proved where it is needed.

What the theorems assume: the sorts of model values are disjoint and the bounds are numbers
(`DeployRepoAssumption`, `DeployLockAssumption`, `AudioConvertAssumption`, `SubtitleLinksAssumption`);
in `AudioPlanAssumption` that "ac3" is a target, "und" a language, and no target codec is incompatible;
in `MediaAssumption` that a film is not called like one of the folders and counts as an orphan when it
is one; in `LedgerAssumption` that there are so many clients and that files have tracks; in
`TrackerControlAssumption` that torrents are listed once and have sizes; in `ListsAssumption` that there
are so many sources; in `WatchNextAssumption` that a series has finitely many episodes and no two with
the same season and number (two such would be sorted in no order); in `LibraryAssumption` that a
Jellyfin id is of one item and an index of one track of it, that what titles and numbers sort by are
naturals, and that a batch has a job at least.

Only model-checked: liveness (`HealsItself`, `DeploysGoOn`, `QueueDrains`, `QuietWhileWatching`,
`LimitsLifted`, `EveryTorrentIsTagged`, `VisitRefreshes`, `KnobsSettle`: fairness and ENABLED are out of
the prover's reach). Every safety invariant and every action property that a run of the table checks is a
theorem.

## Not modelled

Inside the modelled parts: the maintenance `main` of apply.sh runs around the passes; log and metric
wording; the momentary flock that a state request of audio-convert's page takes to see whether it is
free (it can make another run's `flock -n` fail for an instant, with the same outcome as a busy lock);
metadata and subtitles in the ffmpeg command; torrent-drop's form and lookups.

In the parts modelled partly: the webhook's signature, branch filter and counters; the maintenance
around a pass; several trackers in one pass of the ratio control; the series' and indexers' groups of
the media pass, of the same shape as the films'; the audio and quality gauges; the single-subtitle
proxy.

Whole parts: the stats and sites of tracker-control (planned); speedtest, whose only state is a
history file; tailscale-metrics and farnsworth, one cached answer each; the qbit-manage hook of
pi-metrics, one report kept and printed; presentation (`page.go`, `retro.go`, `logos.go`), exporters
that only read and print, settings scripts that compare and write, configuration data.

## Plan

What is left, most important first:

1. `TrackerSession`: the stored cookie of a site, its login, and what a blip of the network does.
2. `Deploy`, an abstract deploy (a push is eventually applied or reported), with the composition of
   `DeployLock` and `DeployRepo` shown to implement it.
3. The webhook's counters (an older push of them may land after a newer one) and `Speedtest` (a crash
   in the middle of a line of its history).
4. `indexer-retry`, `oci-hunt`, `bazarr-prune-subs`: what is remembered between runs.
5. Several trackers in one pass of the ratio control.
6. Proofs: type correctness of the components whose invariants do not contain it.
