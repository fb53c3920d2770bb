---------------------------- MODULE AudioConvert ----------------------------
(***************************************************************************)
(* Converting files: the page's queue and its worker (services/            *)
(* audio-convert, convert.go), the nightly pass, and what both do to a     *)
(* file under one flock (scripts/sync/audio-compat.py).                    *)
(*                                                                         *)
(* A file's content is <<f, k>>: release f with k tracks-adding remuxes    *)
(* behind it.  The files of the model share a directory, as the episodes   *)
(* of a season do, and so they share the name of the half-written file.    *)
(* The queue is saved whole under the mutex that changes it; a save that   *)
(* fails is only logged, and the next one makes up for it.  The results,   *)
(* saved with it, are only shown.                                          *)
(***************************************************************************)
EXTENDS Naturals

CONSTANTS
    Lib,         \* library paths
    NoFile,      \* nothing under that name
    MaxPresses,  \* bound: presses of Convert
    MaxCancels,  \* bound: presses of Cancel
    MaxFaults,   \* bound: restarts of the page, kills of the nightly pass, failed saves
    MaxNights,   \* bound: nightly passes
    MaxRemuxes   \* bound: remuxes of one file

ASSUME AudioConvertAssumption ==
    /\ MaxPresses \in Nat /\ MaxCancels \in Nat
    /\ MaxFaults \in Nat /\ MaxNights \in Nat /\ MaxRemuxes \in Nat \ {0}
    /\ \A f \in Lib, k \in 0 .. MaxRemuxes : NoFile # <<f, k>>

VARIABLES
    queue,      \* s.queue: jobs in order of id, the one being run still first
    next,       \* the worker's copy of the head
    running,    \* s.running
    saved,      \* the queue in the state file
    wpc,        \* where the worker (and the child it waits for) is
    npc,        \* where the nightly pass is
    nfile,      \* the file the nightly pass is at, if any
    lock,       \* who has the flock on convert.lock
    media,      \* what each library path holds
    aside,      \* what was renamed to .original, .original.2, ...
    tmp,        \* .audio-compat.in-progress of the directory
    wanting,    \* files assess() would still add a track to
    seeding,    \* files with a second hardlink
    cancelled, ran,             \* history: ids of jobs cancelled, and run
    overtaken,                  \* history: a cancel hit the job the worker had at hand
    loose,                      \* history: a restart loaded less than the queue there was
    pressed, cancels, faults, nights   \* how many of each

worker == <<next, running, wpc>>
night == <<npc, nfile>>
disk == <<media, aside, tmp, wanting>>
history == <<cancelled, ran, overtaken, loose>>
counts == <<pressed, cancels, faults, nights>>
vars == <<queue, saved, worker, night, lock, disk, seeding, history, counts>>

Job == [id : 1 .. MaxPresses, lib : Lib, hardlinked : BOOLEAN]
NoJob == [id |-> 0]
Content == Lib \X (0 .. MaxRemuxes)
ChildSteps == {"check", "flock", "assess", "remux", "verified", "swap"}
WorkerSteps == {"peek", "probe", "run", "done", "failed", "busy"} \union ChildSteps
NightSteps == {"off", "flock", "pick", "remux", "verified", "swap"}

Without(q, f) == {j \in q : j.lib # f}
Queued(f) == \E j \in queue : j.lib = f
Present(f) == media[f] # NoFile

Init ==
    /\ queue = {} /\ next = NoJob /\ running = NoJob
    /\ saved = {}
    /\ wpc = "peek" /\ npc = "off" /\ nfile = NoFile
    /\ lock = "free"
    /\ media = [f \in Lib |-> <<f, 0>>]
    /\ aside = [f \in Lib |-> {}]
    /\ tmp = NoFile
    /\ wanting = Lib
    /\ seeding \in SUBSET Lib
    /\ cancelled = {} /\ ran = {} /\ overtaken = FALSE /\ loose = FALSE
    /\ pressed = 0 /\ cancels = 0 /\ faults = 0 /\ nights = 0
-----------------------------------------------------------------------------
\* save: the whole queue, or, when it cannot be written, what was there before.
Save(q) ==
    \/ saved' = q /\ UNCHANGED faults
    \/ faults < MaxFaults /\ UNCHANGED saved /\ faults' = faults + 1

\* Mutant: the running job, whose copy is at the head anyway, is not looked at.
EnqueueTwice(f, h) ==
    /\ pressed < MaxPresses
    /\ Present(f) /\ (f \in seeding => h)
    /\ queue' = queue \union {[id |-> pressed + 1, lib |-> f, hardlinked |-> h]}
    /\ Save(queue')
    /\ pressed' = pressed + 1
    /\ UNCHANGED <<worker, night, lock, disk, seeding, history, cancels, nights>>

\* POST /api/play for a listed file (the list is a snapshot: it may want nothing
\* by now): refused when it is gone, seeding without the confirmation, being run,
\* or queued already.
Enqueue(f, h) ==
    /\ pressed < MaxPresses
    /\ Present(f) /\ (f \in seeding => h)
    /\ ~(running # NoJob /\ running.lib = f)
    /\ ~Queued(f)
    /\ queue' = queue \union {[id |-> pressed + 1, lib |-> f, hardlinked |-> h]}
    /\ Save(queue')
    /\ pressed' = pressed + 1
    /\ UNCHANGED <<worker, night, lock, disk, seeding, history, cancels, nights>>

\* POST /api/cancel, answered with success: whatever is queued under that path.
Dequeue(f) ==
    /\ cancels < MaxCancels
    /\ Queued(f)
    /\ queue' = Without(queue, f)
    /\ Save(queue')
    /\ cancelled' = cancelled \union {j.id : j \in queue \ Without(queue, f)}
    /\ overtaken' = (overtaken \/ (wpc # "peek" /\ next.lib = f))
    /\ cancels' = cancels + 1
    /\ UNCHANGED <<worker, night, lock, disk, seeding, ran, loose, pressed, nights>>
-----------------------------------------------------------------------------
\* The worker copies the head, under the mutex, and leaves it in the queue.
Peek ==
    /\ wpc = "peek"
    /\ next' \in {j \in queue : \A k \in queue : j.id <= k.id}
    /\ wpc' = "probe"
    /\ UNCHANGED <<queue, saved, running, night, lock, disk, seeding, history, counts>>

\* lockHolder: somebody has the flock, so wait and look at the queue again.
Probe ==
    /\ wpc = "probe"
    /\ wpc' = IF lock = "free" THEN "run" ELSE "peek"
    /\ UNCHANGED <<queue, saved, next, running, night, lock, disk, seeding, history, counts>>

\* run: the job is shown as running and audio-compat --file starts.
Run ==
    /\ wpc = "run"
    /\ running' = next
    /\ wpc' = "check"
    /\ UNCHANGED <<queue, saved, next, night, lock, disk, seeding, history, counts>>

\* convert_file: no such file.
Check ==
    /\ wpc = "check"
    /\ wpc' = IF Present(next.lib) THEN "flock" ELSE "failed"
    /\ UNCHANGED <<queue, saved, next, running, night, lock, disk, seeding, history, counts>>

\* Mutant: the probe of the worker is all the locking the page does.
LockUntaken ==
    /\ wpc = "flock"
    /\ wpc' = "assess"
    /\ UNCHANGED <<queue, saved, next, running, night, lock, disk, seeding, history, counts>>

\* convert_lock("app", wait=False): exit code 75 when the night has it.
Lock ==
    /\ wpc = "flock"
    /\ IF lock = "free" THEN lock' = "page" /\ wpc' = "assess"
                        ELSE UNCHANGED lock /\ wpc' = "busy"
    /\ UNCHANGED <<queue, saved, next, running, night, disk, seeding, history, counts>>

\* Mutant: a conversion that is refused does not let the lock go.
AssessKeepsLock ==
    /\ wpc = "assess"
    /\ \/ /\ next.lib \in wanting /\ Present(next.lib)
          /\ next.lib \in seeding => next.hardlinked
          /\ tmp' = NoFile /\ wpc' = "remux"
       \/ wpc' = "failed" /\ UNCHANGED tmp
    /\ UNCHANGED <<queue, saved, next, running, night, lock, media, aside, wanting,
                   seeding, history, counts>>

\* Under the lock: nothing to add, still seeding, or no room (the last one may
\* always happen) end it; otherwise the directory's half-written file goes.
Assess ==
    /\ wpc = "assess"
    /\ \/ /\ next.lib \in wanting /\ Present(next.lib)
          /\ next.lib \in seeding => next.hardlinked
          /\ tmp' = NoFile /\ wpc' = "remux" /\ UNCHANGED lock
       \/ lock' = "free" /\ wpc' = "failed" /\ UNCHANGED tmp
    /\ UNCHANGED <<queue, saved, next, running, night, media, aside, wanting,
                   seeding, history, counts>>

\* A remux of file f, verified, is in the directory.  (The bound keeps k small.)
Remuxed(f) == /\ Present(f) /\ media[f][2] < MaxRemuxes
              /\ tmp' = <<f, media[f][2] + 1>>

\* Mutant: the first free name is always .original.
MoveAsideOver(f) ==
    /\ Present(f)
    /\ aside' = [aside EXCEPT ![f] = {media[f]}]
    /\ media' = [media EXCEPT ![f] = NoFile]

\* path.rename(free_original_name(path))
MoveAside(f) ==
    /\ Present(f)
    /\ aside' = [aside EXCEPT ![f] = @ \union {media[f]}]
    /\ media' = [media EXCEPT ![f] = NoFile]

\* tmp.rename(path)
MoveIn(f) ==
    /\ media' = [media EXCEPT ![f] = tmp]
    /\ tmp' = NoFile

\* ffmpeg and verify: the new file is whole, or it failed and is unlinked.
Remux ==
    /\ wpc = "remux"
    /\ \/ Remuxed(next.lib) /\ wpc' = "verified" /\ UNCHANGED lock
       \/ tmp' = NoFile /\ lock' = "free" /\ wpc' = "failed"
    /\ UNCHANGED <<queue, saved, next, running, night, media, aside, wanting,
                   seeding, history, counts>>

Aside ==
    /\ wpc = "verified"
    /\ MoveAside(next.lib)
    /\ wpc' = "swap"
    /\ UNCHANGED <<queue, saved, next, running, night, lock, tmp, wanting,
                   seeding, history, counts>>

\* The name is taken over and the lock let go.  A stereo AAC track leaves a 5.1
\* main track wanting; the old inode, and its second link, went aside.
TakeOver ==
    /\ wpc = "swap"
    /\ MoveIn(next.lib)
    /\ wanting' \in {wanting, wanting \ {next.lib}}
    /\ seeding' = seeding \ {next.lib}
    /\ lock' = "free" /\ wpc' = "done"
    /\ UNCHANGED <<queue, saved, next, running, night, aside, history, counts>>

\* Mutant: a job is taken off the queue to be run, and put back when busy.
FinishPutsBack ==
    /\ wpc \in {"done", "failed", "busy"}
    /\ running' = NoJob /\ next' = NoJob
    /\ IF wpc = "busy"
         THEN queue' = queue \union {next} /\ UNCHANGED ran
         ELSE queue' = Without(queue, next.lib) /\ ran' = ran \union {next.id}
    /\ Save(queue')
    /\ wpc' = "peek"
    /\ UNCHANGED <<night, lock, disk, seeding, cancelled, overtaken, loose, pressed, cancels, nights>>

\* The worker again: a result removes the path from the queue, busy does not.
Finish ==
    /\ wpc \in {"done", "failed", "busy"}
    /\ running' = NoJob /\ next' = NoJob
    /\ IF wpc = "busy"
         THEN UNCHANGED <<queue, ran>>
         ELSE queue' = Without(queue, next.lib) /\ ran' = ran \union {next.id}
    /\ Save(queue')
    /\ wpc' = "peek"
    /\ UNCHANGED <<night, lock, disk, seeding, cancelled, overtaken, loose, pressed, cancels, nights>>
-----------------------------------------------------------------------------
\* 05:00: wait for the lock, or give up on it after LOCK_WAIT_SECONDS.
NightStart ==
    /\ nights < MaxNights
    /\ npc = "off"
    /\ npc' = "flock"
    /\ nights' = nights + 1
    /\ UNCHANGED <<queue, saved, worker, nfile, lock, disk, seeding, history, pressed, cancels, faults>>

NightLock ==
    /\ npc = "flock"
    /\ \/ lock = "free" /\ lock' = "night" /\ npc' = "pick"
       \/ lock # "free" /\ UNCHANGED lock /\ npc' = "off"
    /\ UNCHANGED <<queue, saved, worker, nfile, disk, seeding, history, counts>>

\* One file after another: those still hardlinked are left for later.
NightPick ==
    /\ npc = "pick"
    /\ \E f \in wanting \ seeding : Present(f) /\ nfile' = f
    /\ tmp' = NoFile
    /\ npc' = "remux"
    /\ UNCHANGED <<queue, saved, worker, lock, media, aside, wanting, seeding, history, counts>>

\* Nothing left, or 07:00.
NightEnd ==
    /\ npc = "pick"
    /\ npc' = "off" /\ lock' = "free"
    /\ UNCHANGED <<queue, saved, worker, nfile, disk, seeding, history, counts>>

NightRemux ==
    /\ npc = "remux"
    /\ \/ Remuxed(nfile) /\ npc' = "verified"
       \/ tmp' = NoFile /\ npc' = "pick"
    /\ nfile' = IF npc' = "pick" THEN NoFile ELSE nfile
    /\ UNCHANGED <<queue, saved, worker, lock, media, aside, wanting, seeding, history, counts>>

NightAside ==
    /\ npc = "verified"
    /\ MoveAside(nfile)
    /\ npc' = "swap"
    /\ UNCHANGED <<queue, saved, worker, nfile, lock, tmp, wanting, seeding, history, counts>>

NightTakeOver ==
    /\ npc = "swap"
    /\ MoveIn(nfile)
    /\ wanting' = wanting \ {nfile}
    /\ npc' = "pick" /\ nfile' = NoFile
    /\ UNCHANGED <<queue, saved, worker, lock, aside, seeding, history, counts>>
-----------------------------------------------------------------------------
\* The container restarts: worker and child are gone, load() reads the queue.
PageRestarts ==
    /\ faults < MaxFaults
    /\ faults' = faults + 1
    /\ wpc' = "peek" /\ next' = NoJob /\ running' = NoJob
    /\ queue' = saved
    /\ loose' = (loose \/ saved # queue)
    /\ lock' = IF lock = "page" THEN "free" ELSE lock
    /\ UNCHANGED <<saved, night, disk, seeding, cancelled, ran, overtaken, pressed, cancels, nights>>

NightDies ==
    /\ faults < MaxFaults
    /\ npc # "off"
    /\ faults' = faults + 1
    /\ npc' = "off" /\ nfile' = NoFile
    /\ lock' = IF lock = "night" THEN "free" ELSE lock
    /\ UNCHANGED <<queue, saved, worker, disk, seeding, history, pressed, cancels, nights>>

WorkerStep ==
    \/ Peek \/ Probe \/ Run \/ Check \/ Lock \/ Assess \/ Remux \/ Aside \/ TakeOver \/ Finish
NightStep ==
    \/ NightLock \/ NightPick \/ NightEnd \/ NightRemux \/ NightAside \/ NightTakeOver

Next ==
    \/ \E f \in Lib : Dequeue(f) \/ \E h \in BOOLEAN : Enqueue(f, h)
    \/ WorkerStep
    \/ NightStart \/ NightStep
    \/ PageRestarts \/ NightDies

Spec == Init /\ [][Next]_vars

\* The worker loops forever, and every ffmpeg run has a timeout; the night run
\* looks at the clock before each file, and ends at 07:00 (it may come back to
\* the pick often, so weak fairness would not say that it ends).
FairSpec == Spec /\ WF_vars(WorkerStep) /\ WF_vars(NightStep) /\ SF_vars(NightEnd)
-----------------------------------------------------------------------------
TypeOK ==
    /\ queue \subseteq Job /\ saved \subseteq Job
    /\ next \in Job \union {NoJob} /\ running \in Job \union {NoJob}
    /\ wpc \in WorkerSteps /\ npc \in NightSteps /\ nfile \in Lib \union {NoFile}
    /\ lock \in {"free", "page", "night"}
    /\ media \in [Lib -> Content \union {NoFile}]
    /\ aside \in [Lib -> SUBSET Content]
    /\ tmp \in Content \union {NoFile}
    /\ wanting \subseteq Lib /\ seeding \subseteq Lib
    /\ pressed \in 0 .. MaxPresses

\* "the night run and the page never convert at once": what takes over a name
\* is a whole remux of the file that had it.
TakesItsOwnName ==
    \A f \in Lib : /\ Present(f) => media[f][1] = f
                   /\ \A c \in aside[f] : c[1] = f

\* What is on disk of a release, under its name or as .original.
Kept(f) == aside[f] \union (IF Present(f) THEN {media[f]} ELSE {})

\* Both conversions implement the promise: what a cut leaves between the two
\* renames is on disk all the same, and a step adds one whole remux or nothing.
Promise == INSTANCE Library WITH kept <- [f \in Lib |-> Kept(f)]
KeepsThePromise == Promise!Spec

\* worker, enqueue, dequeue, load: a press that was accepted is queued until it
\* has been run, unless it was cancelled itself, a cancel hit the job the worker
\* was at (whose result then takes a newer press of that path off the queue), or
\* the last save before a restart had failed.
Accounted == 1 .. pressed \subseteq ran \union cancelled \union {j.id : j \in queue}
QueuedIsRun == ~overtaken /\ ~loose => Accounted

\* dequeue and worker: a press whose cancel succeeded is not queued again, be it
\* the one the worker has its copy of when the night turns out to have the lock.
CancelledStaysOut == ~loose => \A j \in queue : j.id \notin cancelled

\* A queued job is not queued for ever, whatever the night run does.
QueueDrains ==
    \A i \in 1 .. MaxPresses :
        (\E j \in queue : j.id = i) ~> (i \in ran \union cancelled \/ overtaken \/ loose)

\* convert.go: "worker runs the queue one file at a time": no press is dropped.
EveryPressIsRun == Accounted

\* main.go: a cancel that finds nothing says "not in the queue (or already
\* started)", so one that succeeds has not hit a job that had started.
CancelSparesTheStarted == running # NoJob => running.id \notin cancelled

\* docs/audio-convert.md: "A conversion cut short by a restart starts again from
\* the beginning", so a file with a job waiting is there to be converted.
RestartFindsTheFile ==
    wpc = "peek" /\ npc \in {"off", "flock"} =>
        \A j \in queue : Present(j.lib)
=============================================================================
