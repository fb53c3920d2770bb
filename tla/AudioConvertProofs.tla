------------------------- MODULE AudioConvertProofs -------------------------
(***************************************************************************)
(* Proofs about AudioConvert, for any library, any number of presses,      *)
(* cancels, failed saves, restarts, nights and remuxes.                    *)
(*                                                                         *)
(* The promise of Library is not inductive.  Between the two renames the   *)
(* name is free, and what makes the second one safe is that the lock is    *)
(* still held, that the half-written file is of the file being converted,  *)
(* and that what it is one remux ahead of has just gone aside: DiskInv.    *)
(***************************************************************************)
EXTENDS AudioConvert, TLAPS

\* The worker and its child have the job they are at, the night run its file.
AtAJob ==
    /\ wpc # "peek" => next \in Job
    /\ npc \in {"remux", "verified", "swap"} => nfile \in Lib

\* What runs under the flock has it.
LockHeld ==
    /\ wpc \in {"assess", "remux", "verified", "swap"} => lock = "page"
    /\ npc \in {"pick", "remux", "verified", "swap"} => lock = "night"

\* A verified remux is one ahead of the file, and a file moved aside one behind.
Making(step, f) ==
    /\ step = "verified" => Present(f) /\ tmp = <<f, media[f][2] + 1>>
    /\ step = "swap" => /\ ~Present(f)
                        /\ \E k \in Nat : /\ tmp = <<f, k + 1>> /\ <<f, k>> \in aside[f]
                                         /\ \A c \in aside[f] : c[2] <= k

\* What is kept of a file is of that file, from the release on.
Chain(f) ==
    \A c \in Kept(f) : /\ c \in Content /\ c[1] = f
                       /\ \A k \in 0 .. c[2] : <<f, k>> \in Kept(f)

\* What has the name is newer than all that went aside.
Latest(f) == Present(f) => \A c \in aside[f] : c[2] < media[f][2]

DiskInv ==
    /\ LockHeld
    /\ wpc # "peek" => Making(wpc, next.lib)
    /\ Making(npc, nfile)
    /\ \A f \in Lib : Chain(f) /\ Latest(f)
-----------------------------------------------------------------------------
LEMMA InitType == Init => TypeOK /\ AtAJob
BY AudioConvertAssumption
DEF Init, TypeOK, AtAJob, Job, NoJob, Content, WorkerSteps, ChildSteps, NightSteps

\* Every step keeps the types, the worker's and the night's under their locks.
LEMMA TypeStep == TypeOK /\ AtAJob /\ [Next]_vars => TypeOK' /\ AtAJob'
<1> SUFFICES ASSUME TypeOK, AtAJob, [Next]_vars PROVE TypeOK' /\ AtAJob'
    OBVIOUS
<1> USE AudioConvertAssumption DEF TypeOK, AtAJob
<1>1. ASSUME NEW f \in Lib, NEW h \in BOOLEAN, Enqueue(f, h) PROVE TypeOK' /\ AtAJob'
    <2>1. [id |-> pressed + 1, lib |-> f, hardlinked |-> h] \in Job
        BY <1>1 DEF Enqueue, Job
    <2> QED BY <1>1, <2>1 DEF Enqueue, Save, worker, night, disk, history
<1>2. ASSUME NEW f \in Lib, Dequeue(f) PROVE TypeOK' /\ AtAJob'
    BY <1>2 DEF Dequeue, Save, Without, worker, night, disk
<1>3. CASE WorkerStep
    <2>1. CASE Peek BY <2>1 DEF Peek, night, disk, history, counts, WorkerSteps, ChildSteps
    <2>2. CASE Probe BY <2>2 DEF Probe, night, disk, history, counts, WorkerSteps, ChildSteps
    <2>3. CASE Run BY <2>3 DEF Run, night, disk, history, counts, WorkerSteps, ChildSteps
    <2>4. CASE Check BY <2>4 DEF Check, night, disk, history, counts, WorkerSteps, ChildSteps
    <2>5. CASE Lock BY <2>5 DEF Lock, night, disk, history, counts, WorkerSteps, ChildSteps
    <2>6. CASE Assess BY <2>6 DEF Assess, night, disk, history, counts, WorkerSteps, ChildSteps
    <2>7. CASE Remux
        BY <2>7 DEF Remux, Remuxed, Present, Content, Job, night, history, counts, WorkerSteps, ChildSteps
    <2>8. CASE Aside
        BY <2>8 DEF Aside, MoveAside, Present, Job, night, history, counts, WorkerSteps, ChildSteps
    <2>9. CASE TakeOver
        BY <2>9 DEF TakeOver, MoveIn, Job, night, history, counts, WorkerSteps, ChildSteps
    <2>10. CASE Finish
        BY <2>10 DEF Finish, Save, Without, Job, night, disk, counts, WorkerSteps, ChildSteps
    <2> QED BY <1>3, <2>1, <2>2, <2>3, <2>4, <2>5, <2>6, <2>7, <2>8, <2>9, <2>10 DEF WorkerStep
<1>4. CASE NightStart
    BY <1>4 DEF NightStart, worker, disk, history, NightSteps
<1>5. CASE NightStep
    <2>1. CASE NightLock BY <2>1 DEF NightLock, worker, disk, history, counts, NightSteps
    <2>2. CASE NightPick BY <2>2 DEF NightPick, worker, history, counts, NightSteps
    <2>3. CASE NightEnd BY <2>3 DEF NightEnd, worker, disk, history, counts, NightSteps
    <2>4. CASE NightRemux
        BY <2>4 DEF NightRemux, Remuxed, Present, Content, worker, history, counts, NightSteps
    <2>5. CASE NightAside
        BY <2>5 DEF NightAside, MoveAside, Present, worker, history, counts, NightSteps
    <2>6. CASE NightTakeOver
        BY <2>6 DEF NightTakeOver, MoveIn, worker, history, counts, NightSteps
    <2> QED BY <1>5, <2>1, <2>2, <2>3, <2>4, <2>5, <2>6 DEF NightStep
<1>6. CASE PageRestarts
    BY <1>6 DEF PageRestarts, night, disk, history, WorkerSteps
<1>7. CASE NightDies
    BY <1>7 DEF NightDies, worker, disk, history, NightSteps
<1>8. CASE UNCHANGED vars
    BY <1>8 DEF vars, worker, night, disk, history, counts
<1> QED BY <1>1, <1>2, <1>3, <1>4, <1>5, <1>6, <1>7, <1>8 DEF Next

\* The queue, the worker, the nightly pass and the directory stay of their types:
\* a job is always whole, and a file holds a release or a remux of one.
THEOREM TypeCorrect == Spec => [](TypeOK /\ AtAJob)
BY InitType, TypeStep, PTL DEF Spec
-----------------------------------------------------------------------------
LEMMA InitDisk == Init => DiskInv
BY AudioConvertAssumption
DEF Init, DiskInv, LockHeld, Making, Chain, Latest, Kept, Present, Content

\* A step that writes nothing of the disk keeps what is kept.
LEMMA ChainStutters ==
    ASSUME UNCHANGED <<media, aside>>, \A f \in Lib : Chain(f) /\ Latest(f)
    PROVE  (\A f \in Lib : Chain(f) /\ Latest(f))'
BY DEF Chain, Latest, Kept, Present

\* Moving a file aside keeps its chain: the same contents, under another name.
LEMMA MoveAsideKeeps ==
    ASSUME TypeOK, NEW g \in Lib, MoveAside(g), \A f \in Lib : Chain(f) /\ Latest(f)
    PROVE  /\ \A f \in Lib : Kept(f)' = Kept(f)
           /\ (\A f \in Lib : Chain(f) /\ Latest(f))'
           /\ media[g] \in aside'[g] /\ media[g] \in Content /\ media[g][1] = g
           /\ \A c \in aside'[g] : c[2] <= media[g][2]
<1>1. media[g] \in Content /\ media[g][1] = g
    BY DEF MoveAside, Chain, Kept, Present
<1>2. \A f \in Lib : Kept(f)' = Kept(f)
    BY DEF TypeOK, MoveAside, Kept, Present
<1>3. \A f \in Lib : Chain(f)'
    BY <1>2 DEF Chain
<1>4. \A f \in Lib : Latest(f)'
    BY DEF TypeOK, MoveAside, Latest, Present
<1>5. \A c \in aside'[g] : c[2] <= media[g][2]
    BY <1>1 DEF TypeOK, MoveAside, Latest, Present, Content
<1> QED BY <1>1, <1>2, <1>3, <1>4, <1>5 DEF TypeOK, MoveAside

\* A remux that takes over a name continues the chain of what went aside.
LEMMA MoveInKeeps ==
    ASSUME TypeOK, NEW g \in Lib, Making("swap", g), MoveIn(g), UNCHANGED aside,
           \A f \in Lib : Chain(f) /\ Latest(f)
    PROVE  (\A f \in Lib : Chain(f) /\ Latest(f))'
<1> SUFFICES ASSUME NEW f \in Lib PROVE Chain(f)' /\ Latest(f)'
    OBVIOUS
<1>1. PICK k \in Nat : /\ tmp = <<g, k + 1>> /\ <<g, k>> \in aside[g]
                       /\ \A c \in aside[g] : c[2] <= k
    BY DEF Making
<1>2. CASE f # g
    BY <1>2 DEF TypeOK, MoveIn, Chain, Latest, Kept, Present
<1>3. CASE f = g
    <2>1. Kept(g) = aside[g]
        BY DEF Making, Kept
    <2>2. \A j \in 0 .. k : <<g, j>> \in aside[g]
        BY <1>1, <2>1 DEF Chain
    <2>3. media'[g] = tmp /\ aside[g] \subseteq Kept(g)'
        BY DEF TypeOK, MoveIn, Kept
    <2>4. \A c \in Kept(g)' : c \in aside[g] \/ (c = tmp /\ tmp \in Content)
        BY <2>3 DEF TypeOK, Kept, Present
    <2>5. ASSUME NEW c \in Kept(g)' PROVE /\ c \in Content /\ c[1] = g
                                           /\ \A j \in 0 .. c[2] : <<g, j>> \in Kept(g)'
        <3>1. CASE c \in aside[g]
            BY <3>1, <2>1, <2>3 DEF Chain
        <3>2. CASE c = tmp /\ tmp \in Content
            <4>1. \A j \in 0 .. k + 1 : j \in 0 .. k \/ j = k + 1
                OBVIOUS
            <4> QED BY <3>2, <4>1, <1>1, <2>2, <2>3, <2>5
        <3> QED BY <2>4, <2>5, <3>1, <3>2
    <2>6. Latest(g)'
        BY <1>1, <2>3 DEF TypeOK, Latest, Content
    <2> QED BY <1>3, <2>5, <2>6 DEF Chain
<1> QED BY <1>2, <1>3

\* Every step keeps DiskInv: only who holds the lock touches the directory.
LEMMA DiskStep ==
    TypeOK /\ AtAJob /\ DiskInv /\ [Next]_vars => DiskInv'
<1> SUFFICES ASSUME TypeOK, AtAJob, DiskInv, [Next]_vars PROVE DiskInv'
    OBVIOUS
<1> USE DEF DiskInv, AtAJob
<1>1. ASSUME NEW f \in Lib, NEW h \in BOOLEAN, Enqueue(f, h) PROVE DiskInv'
    BY <1>1, ChainStutters DEF Enqueue, worker, night, disk, LockHeld, Making, Present
<1>2. ASSUME NEW f \in Lib, Dequeue(f) PROVE DiskInv'
    BY <1>2, ChainStutters DEF Dequeue, worker, night, disk, LockHeld, Making, Present
<1>3. CASE WorkerStep
    <2>1. CASE Peek
        BY <2>1, ChainStutters DEF Peek, night, disk, LockHeld, Making, Present
    <2>2. CASE Probe
        BY <2>2, ChainStutters DEF Probe, night, disk, LockHeld, Making, Present
    <2>3. CASE Run
        BY <2>3, ChainStutters DEF Run, night, disk, LockHeld, Making, Present
    <2>4. CASE Check
        BY <2>4, ChainStutters DEF Check, night, disk, LockHeld, Making, Present
    <2>5. CASE Lock
        BY <2>5, ChainStutters DEF Lock, night, disk, LockHeld, Making, Present
    <2>6. CASE Assess
        BY <2>6, ChainStutters DEF Assess, night, LockHeld, Making, Present
    <2>7. CASE Remux
        BY <2>7, ChainStutters DEF Remux, Remuxed, night, LockHeld, Making, Present
    <2>8. CASE Aside
        <3>1. next.lib \in Lib /\ MoveAside(next.lib)
            BY <2>8 DEF Aside, Job
        <3>2. lock = "page" /\ npc \notin {"pick", "remux", "verified", "swap"}
            BY <2>8 DEF Aside, LockHeld
        <3>3. LockHeld' /\ Making(npc, nfile)'
            BY <2>8, <3>2 DEF Aside, night, LockHeld, Making
        <3>4. Making(wpc, next.lib)'
            <4>1. tmp = <<next.lib, media[next.lib][2] + 1>>
                BY <2>8 DEF Aside, Making
            <4>2. /\ media[next.lib] \in aside'[next.lib] /\ media[next.lib] \in Content
                  /\ media[next.lib][1] = next.lib
                  /\ \A c \in aside'[next.lib] : c[2] <= media[next.lib][2]
                BY <3>1, MoveAsideKeeps
            <4>3. ~Present(next.lib)'
                BY <2>8, <3>1 DEF Aside, MoveAside, Present, TypeOK
            <4> QED BY <2>8, <4>1, <4>2, <4>3 DEF Aside, Making, Content
        <3> QED BY <3>1, <3>3, <3>4, MoveAsideKeeps
    <2>9. CASE TakeOver
        <3>1. next.lib \in Lib /\ MoveIn(next.lib) /\ Making("swap", next.lib)
            BY <2>9 DEF TakeOver, Job
        <3>2. (\A f \in Lib : Chain(f) /\ Latest(f))'
            BY <2>9, <3>1, MoveInKeeps DEF TakeOver
        <3> QED BY <2>9, <3>2 DEF TakeOver, night, LockHeld, Making
    <2>10. CASE Finish
        BY <2>10, ChainStutters DEF Finish, night, disk, LockHeld, Making, Present
    <2> QED BY <1>3, <2>1, <2>2, <2>3, <2>4, <2>5, <2>6, <2>7, <2>8, <2>9, <2>10 DEF WorkerStep
<1>4. CASE NightStart
    BY <1>4, ChainStutters DEF NightStart, worker, disk, LockHeld, Making, Present
<1>5. CASE NightStep
    <2>1. CASE NightLock
        BY <2>1, ChainStutters DEF NightLock, worker, disk, LockHeld, Making, Present
    <2>2. CASE NightPick
        BY <2>2, ChainStutters DEF NightPick, worker, LockHeld, Making, Present
    <2>3. CASE NightEnd
        BY <2>3, ChainStutters DEF NightEnd, worker, disk, LockHeld, Making, Present
    <2>4. CASE NightRemux
        BY <2>4, ChainStutters DEF NightRemux, Remuxed, worker, LockHeld, Making, Present
    <2>5. CASE NightAside
        <3>1. nfile \in Lib /\ MoveAside(nfile)
            BY <2>5 DEF NightAside, TypeOK
        <3>2. lock = "night" /\ wpc \notin {"assess", "remux", "verified", "swap"}
            BY <2>5 DEF NightAside, LockHeld
        <3>3. LockHeld' /\ (wpc' # "peek" => Making(wpc, next.lib)')
            BY <2>5, <3>2 DEF NightAside, worker, LockHeld, Making
        <3>4. Making(npc, nfile)'
            <4>1. tmp = <<nfile, media[nfile][2] + 1>>
                BY <2>5 DEF NightAside, Making
            <4>2. /\ media[nfile] \in aside'[nfile] /\ media[nfile] \in Content
                  /\ media[nfile][1] = nfile
                  /\ \A c \in aside'[nfile] : c[2] <= media[nfile][2]
                BY <3>1, MoveAsideKeeps
            <4>3. ~Present(nfile)'
                BY <2>5, <3>1 DEF NightAside, MoveAside, Present, TypeOK
            <4> QED BY <2>5, <4>1, <4>2, <4>3 DEF NightAside, Making, Content
        <3> QED BY <3>1, <3>3, <3>4, MoveAsideKeeps
    <2>6. CASE NightTakeOver
        <3>1. nfile \in Lib /\ MoveIn(nfile) /\ Making("swap", nfile)
            BY <2>6 DEF NightTakeOver, TypeOK
        <3>2. (\A f \in Lib : Chain(f) /\ Latest(f))'
            BY <2>6, <3>1, MoveInKeeps DEF NightTakeOver
        <3> QED BY <2>6, <3>2 DEF NightTakeOver, worker, LockHeld, Making
    <2> QED BY <1>5, <2>1, <2>2, <2>3, <2>4, <2>5, <2>6 DEF NightStep
<1>6. CASE PageRestarts
    BY <1>6, ChainStutters DEF PageRestarts, night, disk, LockHeld, Making, Present
<1>7. CASE NightDies
    BY <1>7, ChainStutters DEF NightDies, worker, disk, LockHeld, Making, Present
<1>8. CASE UNCHANGED vars
    BY <1>8, ChainStutters DEF vars, worker, night, disk, LockHeld, Making, Present
<1> QED BY <1>1, <1>2, <1>3, <1>4, <1>5, <1>6, <1>7, <1>8 DEF Next

LEMMA DiskInvariant == Spec => [](TypeOK /\ AtAJob /\ DiskInv)
<1>1. Init => TypeOK /\ AtAJob /\ DiskInv
    BY InitType, InitDisk
<1>2. TypeOK /\ AtAJob /\ DiskInv /\ [Next]_vars => TypeOK' /\ AtAJob' /\ DiskInv'
    BY TypeStep, DiskStep
<1> QED BY <1>1, <1>2, PTL DEF Spec

\* The page and the nightly pass never convert at once, so that the half-written
\* file one of them makes never takes the name of a file of the other.
THEOREM NamesAreTheirOwn == Spec => []TakesItsOwnName
<1>1. DiskInv => TakesItsOwnName
    BY DEF DiskInv, Chain, Kept, TakesItsOwnName
<1> QED BY <1>1, DiskInvariant, PTL

\* A step of either conversion is a step of the promise, or none.
LEMMA PromiseStep ==
    TypeOK /\ AtAJob /\ DiskInv /\ [Next]_vars => [Promise!Next]_([f \in Lib |-> Kept(f)])
<1> DEFINE kept == [f \in Lib |-> Kept(f)]
<1> SUFFICES ASSUME TypeOK, AtAJob, DiskInv, [Next]_vars PROVE Promise!Next \/ UNCHANGED kept
    OBVIOUS
<1>1. ASSUME UNCHANGED <<media, aside>> PROVE UNCHANGED kept
    BY <1>1 DEF Kept, Present
<1>2. ASSUME NEW g \in Lib, MoveAside(g) PROVE UNCHANGED kept
    BY <1>2, MoveAsideKeeps DEF DiskInv
<1>3. ASSUME NEW g \in Lib, MoveIn(g), UNCHANGED aside, Making("swap", g)
      PROVE  Promise!Next \/ UNCHANGED kept
    <2>1. PICK k \in Nat : /\ tmp = <<g, k + 1>> /\ <<g, k>> \in aside[g]
                           /\ \A c \in aside[g] : c[2] <= k
        BY <1>3 DEF Making
    <2>2. Kept(g) = aside[g] /\ media'[g] = tmp /\ \A f \in Lib \ {g} : Kept(f)' = Kept(f)
        BY <1>3 DEF TypeOK, Making, MoveIn, Kept, Present
    <2>3. Kept(g)' = Kept(g) \/ Kept(g)' = Kept(g) \union {tmp}
        BY <1>3, <2>2 DEF Kept
    <2>4. CASE Kept(g)' = Kept(g)
        BY <2>2, <2>4
    <2>5. CASE Kept(g)' = Kept(g) \union {tmp}
        <3>1. kept' = [kept EXCEPT ![g] = @ \union {tmp}]
            BY <2>2, <2>5
        <3>2. Promise!Newest(g, <<g, k>>) /\ tmp = <<g, <<g, k>>[2] + 1>>
            BY <2>1, <2>2 DEF Promise!Newest
        <3>3. Promise!Convert(g)
            BY <3>1, <3>2, <2>1, <2>2 DEF Promise!Convert
        <3> QED BY <3>3 DEF Promise!Next
    <2> QED BY <2>3, <2>4, <2>5
<1> HIDE DEF kept
<1>4. ASSUME NEW f \in Lib, \/ Dequeue(f) \/ \E h \in BOOLEAN : Enqueue(f, h)
      PROVE  UNCHANGED kept
    BY <1>1, <1>4 DEF Dequeue, Enqueue, disk
<1>5. CASE WorkerStep
    <2>1. CASE Peek \/ Probe \/ Run \/ Check \/ Lock \/ Assess \/ Remux \/ Finish
        BY <1>1, <2>1 DEF Peek, Probe, Run, Check, Lock, Assess, Remux, Finish, disk
    <2>2. CASE Aside
        BY <1>2, <2>2 DEF Aside, AtAJob, Job
    <2>3. CASE TakeOver
        <3>1. next.lib \in Lib /\ MoveIn(next.lib) /\ UNCHANGED aside /\ Making("swap", next.lib)
            BY <2>3 DEF TakeOver, AtAJob, Job, DiskInv
        <3> QED BY <3>1, <1>3
    <2> QED BY <1>5, <2>1, <2>2, <2>3 DEF WorkerStep
<1>6. CASE NightStep
    <2>1. CASE NightLock \/ NightPick \/ NightEnd \/ NightRemux
        BY <1>1, <2>1 DEF NightLock, NightPick, NightEnd, NightRemux, disk
    <2>2. CASE NightAside
        BY <1>2, <2>2 DEF NightAside, AtAJob
    <2>3. CASE NightTakeOver
        <3>1. nfile \in Lib /\ MoveIn(nfile) /\ UNCHANGED aside /\ Making("swap", nfile)
            BY <2>3 DEF NightTakeOver, AtAJob, DiskInv
        <3> QED BY <3>1, <1>3
    <2> QED BY <1>6, <2>1, <2>2, <2>3 DEF NightStep
<1>7. CASE NightStart \/ PageRestarts \/ NightDies \/ UNCHANGED vars
    BY <1>1, <1>7 DEF NightStart, PageRestarts, NightDies, vars, disk
<1> QED BY <1>4, <1>5, <1>6, <1>7 DEF Next

\* audio-compat implements Library, whichever of its two ways converts and
\* wherever it is cut: the two renames are one step to who looks at the names.
THEOREM ImplementsLibrary == Spec => KeepsThePromise
<1>1. Init => Promise!Init
    <2>1. 0 \in 0 .. MaxRemuxes
        BY AudioConvertAssumption
    <2>2. \A f \in Lib : <<f, 0>> # NoFile
        BY <2>1, AudioConvertAssumption
    <2> QED BY <2>2 DEF Init, Promise!Init, Kept, Present
<1>2. TypeOK /\ AtAJob /\ DiskInv /\ [Next]_vars => [Promise!Next]_([f \in Lib |-> Kept(f)])
    BY PromiseStep
<1> QED BY <1>1, <1>2, DiskInvariant, PTL DEF Spec, KeepsThePromise, Promise!Spec
-----------------------------------------------------------------------------
\* A path has one job at most, an id too, and an id in the queue is none of those
\* cancelled, as long as every restart has found the queue there was.  And unless
\* a cancel hit it, the job the worker is at stays in the queue until it has run.
Orderly ==
    /\ \A i, j \in queue : i.lib = j.lib \/ i.id = j.id => i = j
    /\ \A j \in queue : j.id \in 1 .. pressed /\ j.id \notin cancelled
    /\ cancelled \subseteq 1 .. pressed
QueueInv ==
    /\ ~loose => Orderly
    /\ ~overtaken /\ wpc # "peek" => next \in queue
    /\ QueuedIsRun

LEMMA InitQueue == Init => QueueInv
BY DEF Init, QueueInv, Orderly, QueuedIsRun, Accounted

LEMMA QueueStep == TypeOK /\ QueueInv /\ [Next]_vars => QueueInv'
<1> SUFFICES ASSUME TypeOK, QueueInv, [Next]_vars PROVE QueueInv'
    OBVIOUS
<1> USE DEF QueueInv, Orderly, QueuedIsRun, Accounted
<1>1. ASSUME NEW f \in Lib, NEW h \in BOOLEAN, Enqueue(f, h) PROVE QueueInv'
    <2> DEFINE new == [id |-> pressed + 1, lib |-> f, hardlinked |-> h]
    <2>1. queue' = queue \union {new} /\ new.lib = f /\ new.id = pressed + 1
        BY <1>1 DEF Enqueue
    <2>2. \A j \in queue : j.lib # f
        BY <1>1 DEF Enqueue, Queued
    <2> HIDE DEF new
    <2>3. /\ pressed' = pressed + 1 /\ ran' = ran /\ cancelled' = cancelled
          /\ overtaken' = overtaken /\ loose' = loose /\ wpc' = wpc /\ next' = next
        BY <1>1 DEF Enqueue, worker, history
    <2>4. QueuedIsRun'
        <3>1. \A i \in 1 .. pressed + 1 : i \in 1 .. pressed \/ i = new.id
            BY <2>1 DEF TypeOK
        <3> QED BY <2>1, <2>3, <3>1
    <2>5. pressed \in Nat
        BY DEF TypeOK
    <2>6. ~loose => Orderly'
        <3> SUFFICES ASSUME ~loose PROVE Orderly'
            OBVIOUS
        <3>1. \A j \in queue : j.id # new.id
            BY <2>1, <2>5
        <3>2. new.id \in 1 .. pressed' /\ new.id \notin cancelled'
            BY <2>1, <2>3, <2>5
        <3>3. 1 .. pressed \subseteq 1 .. pressed'
            BY <2>3, <2>5
        <3> QED BY <2>1, <2>2, <2>3, <3>1, <3>2, <3>3
    <2> QED BY <2>1, <2>3, <2>4, <2>6
<1>2. ASSUME NEW f \in Lib, Dequeue(f) PROVE QueueInv'
    <2>1. /\ queue' = Without(queue, f) /\ ran' = ran /\ pressed' = pressed
          /\ cancelled' = cancelled \union {j.id : j \in queue \ queue'}
          /\ wpc' = wpc /\ next' = next /\ loose' = loose
          /\ ~overtaken' => ~overtaken /\ (wpc = "peek" \/ next.lib # f)
        BY <1>2 DEF Dequeue, worker
    <2>2. \A j \in queue : j.lib # f <=> j \in queue'
        BY <2>1 DEF Without
    <2>3. queue' \subseteq queue
        BY <2>1 DEF Without
    <2>4. QueuedIsRun'
        BY <2>1
    <2>5. ~loose => Orderly'
        BY <2>1, <2>3
    <2> QED BY <2>1, <2>2, <2>3, <2>4, <2>5
<1>3. CASE Peek
    BY <1>3 DEF Peek, history, counts
<1>4. CASE Probe \/ Run \/ Check \/ Lock \/ Assess \/ Remux \/ Aside \/ TakeOver
    <2>1. UNCHANGED <<queue, next, history, counts>> /\ wpc # "peek"
        BY <1>4 DEF Probe, Run, Check, Lock, Assess, Remux, Aside, TakeOver
    <2> QED BY <2>1 DEF history, counts
<1>5. CASE Finish
    <2>1. /\ ~overtaken => next \in queue
          /\ wpc' = "peek" /\ overtaken' = overtaken /\ loose' = loose
          /\ cancelled' = cancelled /\ pressed' = pressed
        BY <1>5 DEF Finish
    <2>2. CASE wpc = "busy"
        BY <1>5, <2>1, <2>2 DEF Finish
    <2>3. CASE wpc # "busy"
        <3>1. queue' = Without(queue, next.lib) /\ ran' = ran \union {next.id}
            BY <1>5, <2>3 DEF Finish
        <3>2. ~overtaken /\ ~loose => \A j \in queue : j \in queue' \/ j = next
            BY <2>1, <3>1 DEF Without
        <3>3. QueuedIsRun'
            BY <1>5, <2>1, <3>1, <3>2
        <3> QED BY <2>1, <3>1, <3>3 DEF Without
    <2> QED BY <2>2, <2>3
<1>6. CASE NightStart \/ NightStep
    BY <1>6 DEF NightStart, NightStep, NightLock, NightPick, NightEnd, NightRemux, NightAside,
                NightTakeOver, worker, history, counts
<1>7. CASE PageRestarts
    <2>1. ~loose' => ~loose /\ queue' = queue
        BY <1>7 DEF PageRestarts
    <2> QED BY <1>7, <2>1 DEF PageRestarts
<1>8. CASE NightDies
    BY <1>8 DEF NightDies, worker, history
<1>9. CASE UNCHANGED vars
    BY <1>9 DEF vars, worker, history, counts
<1> QED BY <1>1, <1>2, <1>3, <1>4, <1>5, <1>6, <1>7, <1>8, <1>9 DEF Next, WorkerStep

LEMMA QueueInvariant == Spec => []QueueInv
<1>1. TypeOK /\ QueueInv /\ [Next]_vars => QueueInv'
    BY QueueStep
<1> QED BY <1>1, InitQueue, TypeCorrect, PTL DEF Spec

\* enqueue, dequeue, worker and load: every press that was accepted is run,
\* cancelled, or still in the queue, through failed saves, restarts and nights
\* that keep the lock, unless a cancel hit the job the worker was at or a restart
\* came before a failed save was made up for.
THEOREM PressesAreRun == Spec => []QueuedIsRun
<1>1. QueueInv => QueuedIsRun
    BY DEF QueueInv
<1> QED BY <1>1, QueueInvariant, PTL

\* dequeue and worker: a press whose cancel succeeded is not queued again, be it
\* the one the worker has at hand when it finds the lock taken, unless a restart
\* came before the failed save of that cancel was made up for.
THEOREM CancelledAreOut == Spec => []CancelledStaysOut
<1>1. QueueInv => CancelledStaysOut
    BY DEF QueueInv, Orderly, CancelledStaysOut
<1> QED BY <1>1, QueueInvariant, PTL
=============================================================================
