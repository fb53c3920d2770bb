----------------------------- MODULE DeployRepo -----------------------------
(***************************************************************************)
(* What a sequence of deploy passes does to ONE repository on the Pi:      *)
(* deploy_repo() and push_repo_metrics() of scripts/deploy/apply.sh.  The  *)
(* passes of one repository never overlap here; DeployLock models the lock *)
(* that is meant to guarantee it.                                          *)
(*                                                                         *)
(* A commit is abstracted to what deploy_repo tells apart in its diff: the *)
(* built services and reloaded configs it touches, the image tags it pins, *)
(* whether it touches versions.env or a compose file, and apply.sh itself. *)
(* A command that fails (network, registry, build) counts as a fault.      *)
(***************************************************************************)
EXTENDS Naturals

CONSTANTS
    Built,          \* services whose image is built on this Pi
    Remote,         \* those of Built whose build context is a URL
    Pinned,         \* services whose image CI publishes under a pinned tag
    Reloaded,       \* containers told to re-read a config (Caddy, Grafana, ...)
    BUILD_RETRIES,  \* later passes that retry a failed build
    MaxPushes,      \* bound: pushes upstream
    MaxFaults,      \* bound: commands that fail
    MaxKills        \* bound: passes killed (reboot, a takeover of a stuck pass)

ASSUME DeployRepoAssumption ==
    /\ Remote \subseteq Built
    /\ Built \intersect Pinned = {}
    /\ Built \intersect Reloaded = {}
    /\ Pinned \intersect Reloaded = {}
    /\ BUILD_RETRIES \in Nat
    /\ MaxPushes \in Nat
    /\ MaxFaults \in Nat
    /\ MaxKills \in Nat

VARIABLES
    upstream,   \* what origin/main holds that the checkout does not
    pushes,     \* how many pushes there were
    stale,      \* items that do not yet hold what the checkout says
    missing,    \* pinned services whose tag is not on this Pi
    unapplied,  \* services whose container predates its image
    attempts,   \* the count in .deploy.build-failed.<label>, 0 when absent
    lastStatus, \* the metric deploy_repo_last_status
    pc,         \* where the pass is
    carried,    \* DEPLOY_SELF_BEFORE: what the pass pulled before its re-exec
    diff,       \* git diff before..after
    toPull,     \* to_pull
    toBuild,    \* to_build; every service when build_all
    rc,         \* what deploy_repo returned
    faults,     \* commands that have failed
    kills,      \* passes that were killed
    excused     \* history: stale items the code has dropped for good

world == <<upstream, pushes>>
images == <<stale, missing, unapplied>>
pass == <<carried, diff, toPull, toBuild, rc>>
vars == <<world, images, attempts, lastStatus, pc, pass, faults, kills, excused>>

Service == Built \union Pinned
Item == Built \union Reloaded
Change == [any : BOOLEAN, self : BOOLEAN, cfg : BOOLEAN,
           items : SUBSET Item, pins : SUBSET Pinned]
NoChange == [any |-> FALSE, self |-> FALSE, cfg |-> FALSE,
             items |-> {}, pins |-> {}]

\* The diff over two ranges of commits that follow one another.
Join(c, d) == [any |-> c.any \/ d.any, self |-> c.self \/ d.self,
               cfg |-> c.cfg \/ d.cfg,
               items |-> c.items \union d.items, pins |-> c.pins \union d.pins]

\* A remote build context or an image tag only moves with versions.env.
Commit == {c \in Change : /\ c.any
                          /\ (c.pins # {} \/ c.items \intersect Remote # {}) => c.cfg}

Steps == {"idle", "pull", "restart", "plan", "images", "build", "up",
          "ensure_nothing", "ensure_unchanged", "report"}
Results == {"changed", "error", "unchanged"}

\* deploy_repo_last_status: 0 no change, 1 changed, 2 error.
Status(r) == CASE r = "changed" -> 1 [] r = "error" -> 2 [] r = "unchanged" -> 0

Fault == faults < MaxFaults /\ faults' = faults + 1
FaultIf(b) == IF b THEN Fault ELSE faults' = faults

Init ==
    /\ upstream = NoChange /\ pushes = 0
    /\ stale = {} /\ missing = {} /\ unapplied = {}
    /\ attempts = 0
    /\ lastStatus = 0
    /\ pc = "idle"
    /\ carried = NoChange /\ diff = NoChange
    /\ toPull = {} /\ toBuild = {} /\ rc = "unchanged"
    /\ faults = 0 /\ kills = 0
    /\ excused = {}
-----------------------------------------------------------------------------
\* Someone pushes to main; any number of pushes join into one pull.
Push ==
    /\ pushes < MaxPushes
    /\ \E c \in Commit : upstream' = Join(upstream, c)
    /\ pushes' = pushes + 1
    /\ UNCHANGED <<images, attempts, lastStatus, pc, pass, faults, kills, excused>>

\* Cron or the webhook starts a pass.
Start ==
    /\ pc = "idle"
    /\ pc' = "pull"
    /\ UNCHANGED <<world, images, attempts, lastStatus, pass, faults, kills, excused>>

\* The checkout or its .env is not there.
NotConfigured ==
    /\ pc = "pull"
    /\ Fault
    /\ pc' = "report" /\ rc' = "error"
    /\ UNCHANGED <<world, images, attempts, lastStatus,
                   carried, diff, toPull, toBuild, kills, excused>>

\* git pull succeeds.  A pull that changed apply.sh starts the script over,
\* once, on the new version; the new run pulls again and sees both ranges.
Pull ==
    /\ pc = "pull"
    /\ LET d == Join(carried, upstream)
       IN  IF upstream.self /\ ~carried.any
             THEN carried' = d /\ pc' = "pull" /\ UNCHANGED diff
             ELSE carried' = NoChange /\ pc' = "restart" /\ diff' = d
    /\ upstream' = NoChange
    /\ stale' = stale \union upstream.items
    /\ missing' = missing \union upstream.pins
    /\ unapplied' = unapplied \union upstream.pins
    /\ excused' = excused \ upstream.items
    /\ UNCHANGED <<pushes, attempts, lastStatus, toPull, toBuild, rc, faults, kills>>

\* git pull fails: `up` with its status ignored, and the pass counts as one
\* with nothing to do.  What a re-exec carried stays in the environment.
PullFails ==
    /\ pc = "pull"
    /\ Fault
    /\ \E m \in SUBSET missing, u \in SUBSET unapplied :
          missing' = m /\ unapplied' = u
    /\ rc' = "unchanged" /\ pc' = "report"
    /\ UNCHANGED <<world, stale, attempts, lastStatus, carried, diff, toPull, toBuild, kills, excused>>

\* Tell each container whose config the pull touched.  One that refuses gets
\* a warning and is not asked again until its config changes once more.
Restart ==
    /\ pc = "restart"
    /\ \E refused \in SUBSET (diff.items \intersect Reloaded) :
          LET told == (diff.items \intersect Reloaded) \ refused
          IN  /\ FaultIf(refused # {})
              /\ stale' = stale \ told
              /\ excused' = (excused \ told) \union refused
    /\ pc' = "plan"
    /\ UNCHANGED <<world, missing, unapplied, attempts, lastStatus, pass, kills>>

\* Mutant: the retries of a failed build are not bounded.
RetryForever == attempts > 0

\* A failed build is owed a retry, BUILD_RETRIES times.  The code keeps it in
\* `retry`; the count it is read from does not move while a pass needs it.
Retry == attempts > 0 /\ attempts <= BUILD_RETRIES

\* Mutant: a retry builds what the diff names, as any other pass does.
PlanBuildNoRetry == IF diff.cfg THEN Built
                    ELSE (diff.items \intersect Built) \ Remote

\* image_plan: the services to build on this Pi.  It also names every pinned
\* service, of which only those whose tag is not here yet are pulled.
PlanBuild == IF Retry \/ diff.cfg THEN Built
             ELSE (diff.items \intersect Built) \ Remote

Plan ==
    /\ pc = "plan"
    /\ IF ~diff.any /\ ~Retry
         THEN pc' = "ensure_unchanged" /\ UNCHANGED <<toBuild, toPull>>
         ELSE /\ toBuild' = PlanBuild
              /\ toPull' = missing
              /\ pc' = IF PlanBuild = {} /\ missing = {} THEN "ensure_nothing" ELSE "images"
    /\ UNCHANGED <<world, images, attempts, lastStatus, carried, diff, rc, faults, kills, excused>>

\* compose could not say what it would run: build everything, pull nothing.
PlanUnreadable ==
    /\ pc = "plan"
    /\ diff.any \/ Retry
    /\ Fault
    /\ toBuild' = Service /\ toPull' = {}
    /\ pc' = "images"
    /\ UNCHANGED <<world, images, attempts, lastStatus, carried, diff, rc, kills, excused>>

\* docker compose pull, checked image by image: one that did not come is built.
PullImages ==
    /\ pc = "images"
    /\ \E failed \in SUBSET toPull :
          /\ FaultIf(failed # {})
          /\ missing' = missing \ (toPull \ failed)
          /\ toBuild' = toBuild \union failed
    /\ pc' = "build"
    /\ UNCHANGED <<world, stale, unapplied, attempts, lastStatus,
                   carried, diff, toPull, rc, kills, excused>>

\* Mutant: what a pipeline without PIPESTATUS did, the failure of the build is
\* not seen and the pass goes on to `up`.
BuildFailureUnseen ==
    /\ pc = "build" /\ toBuild # {}
    /\ Fault
    /\ pc' = "up"
    /\ UNCHANGED <<world, images, attempts, lastStatus, pass, kills, excused>>

\* Mutant: nothing is remembered of a build that failed.
BuildFailureForgotten ==
    /\ pc = "build" /\ toBuild # {}
    /\ Fault
    /\ rc' = "error" /\ pc' = "report"
    /\ UNCHANGED <<world, images, attempts, lastStatus,
                   carried, diff, toPull, toBuild, kills, excused>>

\* docker compose build.  An image that comes out new leaves its container
\* behind until `up` recreates it.
BuildImages ==
    /\ pc = "build"
    /\ stale' = stale \ toBuild
    /\ missing' = missing \ toBuild
    /\ unapplied' = unapplied \union (toBuild \intersect (stale \union missing))
    /\ excused' = excused \ toBuild
    /\ pc' = "up"
    /\ UNCHANGED <<world, attempts, lastStatus, pass, faults, kills>>

\* The build fails, some of its images done: counted in the failed file.
BuildFails ==
    /\ pc = "build" /\ toBuild # {}
    /\ Fault
    /\ \E done \in SUBSET toBuild :
          /\ stale' = stale \ done
          /\ missing' = missing \ done
          /\ unapplied' = unapplied \union (done \intersect (stale \union missing))
          /\ excused' = excused \ done
    /\ attempts' = attempts + 1
    /\ rc' = "error" /\ pc' = "report"
    /\ UNCHANGED <<world, lastStatus, carried, diff, toPull, toBuild, kills>>

\* Removing the failed file.  Past BUILD_RETRIES the pass that gets here built
\* only what its own diff named: what the failed build owed is dropped.
ForgetFailure ==
    /\ attempts' = 0
    /\ excused' = IF attempts > BUILD_RETRIES
                    THEN excused \union (stale \intersect Built) ELSE excused

\* docker compose up -d after the images: it recreates every container whose
\* image or config moved, pulling a tag that is not here.
Up ==
    /\ pc = "up"
    /\ unapplied' = {} /\ missing' = {}
    /\ ForgetFailure
    /\ rc' = "changed" /\ pc' = "report"
    /\ UNCHANGED <<world, stale, lastStatus,
                   carried, diff, toPull, toBuild, faults, kills>>

\* `up` stops part of the way.
UpFails ==
    /\ pc = "up"
    /\ Fault
    /\ \E m \in SUBSET missing, u \in SUBSET unapplied :
          missing' = m /\ unapplied' = u
    /\ attempts' = attempts + 1
    /\ rc' = "error" /\ pc' = "report"
    /\ UNCHANGED <<world, stale, lastStatus,
                   carried, diff, toPull, toBuild, kills, excused>>

\* Something changed but no image has to move: ensure_up, and a failed build
\* that was owed is settled.  "changed" only when compose's own files did.
EnsureNothing ==
    /\ pc = "ensure_nothing"
    /\ unapplied' = {} /\ missing' = {}
    /\ ForgetFailure
    /\ rc' = IF diff.cfg /\ ~Retry THEN "changed" ELSE "unchanged"
    /\ pc' = "report"
    /\ UNCHANGED <<world, stale, lastStatus,
                   carried, diff, toPull, toBuild, faults, kills>>

\* Nothing was pulled and no retry is due: ensure_up, the count left alone.
EnsureUnchanged ==
    /\ pc = "ensure_unchanged"
    /\ unapplied' = {} /\ missing' = {}
    /\ rc' = "unchanged" /\ pc' = "report"
    /\ UNCHANGED <<world, stale, attempts, lastStatus,
                   carried, diff, toPull, toBuild, faults, kills, excused>>

EnsureFails ==
    /\ pc \in {"ensure_nothing", "ensure_unchanged"}
    /\ Fault
    /\ \E m \in SUBSET missing, u \in SUBSET unapplied :
          missing' = m /\ unapplied' = u
    /\ rc' = "error" /\ pc' = "report"
    /\ UNCHANGED <<world, stale, attempts, lastStatus,
                   carried, diff, toPull, toBuild, kills, excused>>

\* The process ends, and with it what a re-exec carried.
EndPass ==
    /\ pc' = "idle"
    /\ carried' = NoChange /\ diff' = NoChange
    /\ toPull' = {} /\ toBuild' = {} /\ rc' = "unchanged"

\* Or its trap runs the script over, with the environment it has.
RunOver ==
    /\ pc' = "pull"
    /\ diff' = NoChange /\ UNCHANGED carried
    /\ toPull' = {} /\ toBuild' = {} /\ rc' = "unchanged"

\* push_repo_metrics, whose curl may fail unnoticed.
Report ==
    /\ pc = "report"
    /\ \/ lastStatus' = Status(rc) /\ UNCHANGED faults
       \/ Fault /\ UNCHANGED lastStatus
    /\ \/ EndPass /\ excused' = excused \union (stale \intersect carried.items)
       \/ RunOver /\ UNCHANGED excused
    /\ UNCHANGED <<world, images, attempts, kills>>

\* The pass is killed.  With no failed build counted nothing will build what
\* it had pulled, and a reload it had not done is not done later.
Kill ==
    /\ pc # "idle"
    /\ kills < MaxKills
    /\ kills' = kills + 1
    /\ LET lost == IF attempts = 0 THEN stale ELSE stale \intersect Reloaded
       IN  \/ EndPass /\ excused' = excused \union lost
           \/ RunOver /\ excused' = excused \union (lost \ carried.items)
    /\ UNCHANGED <<world, images, attempts, lastStatus, faults>>

PassStep ==
    \/ Start \/ Pull \/ Restart \/ Plan \/ PullImages \/ BuildImages \/ Up
    \/ EnsureNothing \/ EnsureUnchanged \/ Report
FaultStep ==
    \/ NotConfigured \/ PullFails \/ PlanUnreadable \/ BuildFails \/ UpFails \/ EnsureFails

Next == Push \/ PassStep \/ FaultStep \/ Kill

Spec == Init /\ [][Next]_vars

\* Cron fires every half hour and a pass that hangs is killed by the next, so
\* the pass always moves.  Nothing is assumed of pushes, faults or kills.
FairSpec == Spec /\ WF_vars(PassStep \/ FaultStep)
-----------------------------------------------------------------------------
\* Every variable holds a value of its kind.
TypeOK ==
    /\ upstream \in Change /\ carried \in Change /\ diff \in Change
    /\ pushes \in Nat /\ attempts \in Nat /\ faults \in Nat /\ kills \in Nat
    /\ stale \subseteq Item /\ excused \subseteq Item
    /\ missing \subseteq Pinned /\ unapplied \subseteq Service
    /\ lastStatus \in 0 .. 2
    /\ pc \in Steps
    /\ toPull \subseteq Pinned /\ toBuild \subseteq Service
    /\ rc \in Results

\* Between passes, a built service that does not hold the pulled source has a
\* failed build counted against it, unless its change was dropped at one of
\* the three places the code drops one (a kill, the end of a re-exec whose pulls
\* fail, a debt past its retries); a config not loaded was refused or dropped.
NothingForgotten ==
    pc = "idle" => /\ attempts = 0 => stale \subseteq excused
                   /\ stale \intersect Reloaded \subseteq excused

\* A build that cannot work is tried BUILD_RETRIES more times and then only
\* when a push asks again: the count never outruns the pushes.
AttemptsBounded == attempts <= BUILD_RETRIES + pushes

\* A pass that reports "changed" leaves every container on the image and the
\* config its checkout names, what the code had already dropped excepted.
StatusHonest ==
    pc = "report" /\ rc = "changed" =>
        missing = {} /\ unapplied = {} /\ stale \subseteq excused

\* No more faults than there are retries heal with nobody's help: in the end
\* all that was pushed is running, but for what the code dropped.
Settled == /\ upstream = NoChange /\ stale \subseteq excused
           /\ missing = {} /\ unapplied = {} /\ attempts = 0
HealsItself == <>[](faults <= BUILD_RETRIES => Settled)

\* deploy.md: "later passes rebuild up to five times, and then stop and leave
\* it to the 'Deploy failing' alert" - the alert reads lastStatus = 2.
AlertStands ==
    pc = "idle" /\ attempts > BUILD_RETRIES => lastStatus = 2

\* apply.sh: the re-exec hands over "the pre-pull commit so it still sees what
\* changed": with no kill, a pulled change is built or counted as owed.
PulledIsBuiltOrOwed ==
    pc = "idle" /\ kills = 0 /\ attempts = 0 => stale \intersect Built = {}

\* apply.sh: "A build that failed has to be remembered" - the failed file goes
\* only once nothing built here is behind its source.
FailedFileHonest ==
    [][attempts > 0 /\ attempts' = 0 => stale' \intersect Built = {}]_vars
=============================================================================
