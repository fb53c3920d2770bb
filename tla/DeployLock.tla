----------------------------- MODULE DeployLock -----------------------------
(***************************************************************************)
(* Who may deploy: the flock, the pending marker, the takeover of a stuck  *)
(* deploy and the two ways apply.sh starts itself over (scripts/deploy/    *)
(* apply.sh, lines 72-128 and 335-347).                                    *)
(*                                                                         *)
(* A flock belongs to an open file description (ofd), which children       *)
(* inherit: it is released when flock -u runs on it or when the last       *)
(* process that has it open is gone.  What a pass does to a repository is  *)
(* DeployRepo; here a pass is one pull and one foreground child.           *)
(***************************************************************************)
EXTENDS Naturals

CONSTANTS
    Proc,       \* runs of apply.sh that may be alive together
    Ofd,        \* open file descriptions of .deploy.lock
    NoOfd,      \* the descriptor is closed; nobody has the lock
    NoProc,     \* a pid that is nobody's any more
    CanStick,   \* whether a child may hang past STUCK_AFTER
    MaxPushes,  \* bound: pushes
    MaxCrashes  \* bound: runs killed from outside, their child surviving

ASSUME DeployLockAssumption ==
    /\ NoOfd \notin Ofd /\ NoProc \notin Proc
    /\ CanStick \in BOOLEAN
    /\ MaxPushes \in Nat /\ MaxCrashes \in Nat

VARIABLES
    pc,         \* the next line of each run; "idle" when it does not exist
    ofd,        \* the file description behind its descriptor 9
    reruns,     \* DEPLOY_RERUNS
    restarted,  \* runs that come from a self re-exec (DEPLOY_SELF_BEFORE set)
    victim,     \* whom a run that takes over has decided to kill
    lock,       \* the file description that has the flock
    holder,     \* the pid written in .deploy.lock
    marker,     \* .deploy.pending exists
    fg,         \* descriptions a foreground child has open
    bg,         \* descriptions a detached child (git gc --auto) has open
    old,        \* runs older than STUCK_AFTER
    tip, seen,  \* pushes made, and how many of them a pull has brought
    asked,      \* how many were made when the last git pull ran, failed or not
    crashes

perRun == <<pc, ofd, reruns, restarted, victim, old>>
files == <<lock, holder, marker>>
children == <<fg, bg>>
pushed == <<tip, seen, asked>>
vars == <<perRun, files, children, pushed, crashes>>

\* Up to "clear" a signal finds no EXIT trap.
Takeover == {"term", "kill", "sweep", "reopen", "retry"}
BeforeTrap == {"open", "try", "inspect", "mark", "claim", "clear"} \union Takeover
InPass == {"pull", "build"}
InTrap == {"exit", "unlock", "leave"}
Steps == {"idle"} \union BeforeTrap \union InPass \union InTrap

Alive(p) == pc[p] # "idle"
InUse == {ofd[p] : p \in Proc} \union fg \union bg

\* Mutant: children are started with the descriptor closed.
SurvivingRunsOnly(l, o, f, b) == IF l \in {o[p] : p \in Proc} THEN l ELSE NoOfd

\* The lock after a step: gone with the last process that has it open.
Surviving(l, o, f, b) ==
    IF l \in {o[p] : p \in Proc} \union f \union b THEN l ELSE NoOfd

Init ==
    /\ pc = [p \in Proc |-> "idle"]
    /\ ofd = [p \in Proc |-> NoOfd]
    /\ reruns = [p \in Proc |-> 0]
    /\ victim = [p \in Proc |-> NoProc]
    /\ restarted = {} /\ old = {}
    /\ lock = NoOfd /\ holder = NoProc /\ marker = FALSE
    /\ fg = {} /\ bg = {}
    /\ tip = 0 /\ seen = 0 /\ asked = 0
    /\ crashes = 0

\* The runs in D are gone, the others go on at `next`.  A pid that is gone
\* names nobody any more.
Gone(D, next) ==
    /\ pc' = [p \in Proc |-> IF p \in D THEN "idle" ELSE next[p]]
    /\ ofd' = [p \in Proc |-> IF p \in D THEN NoOfd ELSE ofd[p]]
    /\ reruns' = [p \in Proc |-> IF p \in D THEN 0 ELSE reruns[p]]
    /\ victim' = [p \in Proc |-> IF p \in D \/ victim[p] \in D THEN NoProc ELSE victim[p]]
    /\ restarted' = restarted \ D
    /\ old' = old \ D
    /\ holder' = IF holder \in D THEN NoProc ELSE holder

Goto(p, step) == pc' = [pc EXCEPT ![p] = step]
-----------------------------------------------------------------------------
\* A push: GitHub calls the receiver, which starts a run.
Push(p) ==
    /\ tip < MaxPushes
    /\ pc[p] = "idle"
    /\ tip' = tip + 1
    /\ Goto(p, "open")
    /\ UNCHANGED <<ofd, reruns, restarted, victim, old, files, children, seen, asked, crashes>>

\* The half-hourly sweep starts a run.
Cron(p) ==
    /\ pc[p] = "idle"
    /\ Goto(p, "open")
    /\ UNCHANGED <<ofd, reruns, restarted, victim, old, files, children, pushed, crashes>>

\* exec 9>>: a new description, replacing the one a re-exec inherited.
Open(p) ==
    /\ pc[p] \in {"open", "reopen"}
    /\ \E o \in Ofd \ InUse : ofd' = [ofd EXCEPT ![p] = o]
    /\ lock' = Surviving(lock, ofd', fg, bg)
    /\ Goto(p, IF pc[p] = "open" THEN "try" ELSE "retry")
    /\ UNCHANGED <<reruns, restarted, victim, old, holder, marker, children, pushed, crashes>>

\* flock -n 9
Try(p) ==
    /\ pc[p] \in {"try", "retry"}
    /\ IF lock = NoOfd
         THEN lock' = ofd[p] /\ Goto(p, "claim")
         ELSE /\ UNCHANGED lock
              /\ Goto(p, IF pc[p] = "try" THEN "inspect" ELSE "mark")
    /\ UNCHANGED <<ofd, reruns, restarted, victim, old, holder, marker,
                   children, pushed, crashes>>

\* The pid in the lock file is alive and old: close our descriptor, take over.
\* A pid that is nobody's has no age, and is taken for busy.
Inspect(p) ==
    /\ pc[p] = "inspect"
    /\ IF holder \in old
         THEN /\ victim' = [victim EXCEPT ![p] = holder]
              /\ ofd' = [ofd EXCEPT ![p] = NoOfd]
              /\ Goto(p, "term")
         ELSE Goto(p, "mark") /\ UNCHANGED <<victim, ofd>>
    /\ UNCHANGED <<reruns, restarted, old, files, children, pushed, crashes>>

\* Mutant: the run that cannot get in leaves nothing behind.
LeaveNoMark(p) ==
    /\ pc[p] = "mark"
    /\ Gone({p}, pc)
    /\ lock' = Surviving(lock, ofd', fg, bg)
    /\ UNCHANGED <<marker, children, pushed, crashes>>

\* touch .deploy.pending; exit 0, with no trap set yet.
Mark(p) ==
    /\ pc[p] = "mark"
    /\ marker' = TRUE
    /\ Gone({p}, pc)
    /\ lock' = Surviving(lock, ofd', fg, bg)
    /\ UNCHANGED <<children, pushed, crashes>>

\* kill -TERM: bash runs the EXIT trap of a run that has set it and leaves the
\* child alone; a signal inside the trap, or before it is set, ends the run.
Term(p) ==
    /\ pc[p] = "term"
    /\ LET v == victim[p] IN
         \/ /\ v = NoProc
            /\ Goto(p, "kill")
            /\ UNCHANGED <<ofd, reruns, restarted, victim, old, lock, holder>>
         \/ /\ v # NoProc /\ pc[v] \in InPass
            /\ pc' = [pc EXCEPT ![v] = "exit", ![p] = "kill"]
            /\ UNCHANGED <<ofd, reruns, restarted, victim, old, lock, holder>>
         \/ /\ v # NoProc /\ pc[v] \in InTrap
            /\ Goto(p, "kill")
            /\ UNCHANGED <<ofd, reruns, restarted, victim, old, lock, holder>>
         \/ /\ v # NoProc /\ pc[v] \in BeforeTrap \union InTrap
            /\ Gone({v}, [pc EXCEPT ![p] = "kill"])
            /\ lock' = Surviving(lock, ofd', fg, bg)
    /\ UNCHANGED <<marker, children, pushed, crashes>>

\* Five seconds later, kill -KILL on the same pid, whatever it runs by now.
KillVictim(p) ==
    /\ pc[p] = "kill"
    /\ Gone(IF victim[p] = NoProc THEN {} ELSE {victim[p]}, [pc EXCEPT ![p] = "sweep"])
    /\ lock' = Surviving(lock, ofd', fg, bg)
    /\ UNCHANGED <<marker, children, pushed, crashes>>

\* Mutant: kill -P, which finds the children of a run that is already gone no more.
SweepByParent(p) ==
    /\ pc[p] = "sweep"
    /\ Goto(p, "reopen")
    /\ UNCHANGED <<ofd, reruns, restarted, victim, old, files, children, pushed, crashes>>

\* fuser -k -KILL .deploy.lock: every process that has the file open.
Sweep(p) ==
    /\ pc[p] = "sweep"
    /\ Gone({q \in Proc : ofd[q] # NoOfd}, [pc EXCEPT ![p] = "reopen"])
    /\ fg' = {} /\ bg' = {}
    /\ lock' = NoOfd
    /\ UNCHANGED <<marker, pushed, crashes>>

\* The lock is ours: our pid replaces the last holder's.
Claim(p) ==
    /\ pc[p] = "claim"
    /\ holder' = p
    /\ Goto(p, "clear")
    /\ UNCHANGED <<ofd, reruns, restarted, victim, old, lock, marker,
                   children, pushed, crashes>>

\* rm the marker: whatever it asked for is about to be pulled.  The trap is set.
Clear(p) ==
    /\ pc[p] = "clear"
    /\ marker' = FALSE
    /\ Goto(p, "pull")
    /\ UNCHANGED <<ofd, reruns, restarted, victim, old, lock, holder,
                   children, pushed, crashes>>

\* The pass: it pulls all there is, its git may leave a gc behind, and its
\* foreground children run one after the other.
Pull(p) ==
    /\ pc[p] = "pull"
    /\ seen' = tip /\ asked' = tip
    /\ fg' = fg \union {ofd[p]}
    /\ \/ UNCHANGED bg
       \/ seen # tip /\ bg' = bg \union {ofd[p]}
    /\ restarted' = restarted \ {p}
    /\ Goto(p, "build")
    /\ UNCHANGED <<ofd, reruns, victim, old, files, tip, crashes>>

\* git pull fails and brings nothing: the pass is the containers it had.  A
\* DEPLOY_SELF_BEFORE stays exported.
PullFails(p) ==
    /\ pc[p] = "pull"
    /\ asked' = tip
    /\ fg' = fg \union {ofd[p]}
    /\ \/ UNCHANGED bg
       \/ seen # tip /\ bg' = bg \union {ofd[p]}
    /\ Goto(p, "build")
    /\ UNCHANGED <<ofd, reruns, restarted, victim, old, files, tip, seen, crashes>>

\* The pull brought a new apply.sh: the run starts over on it, once, with the
\* descriptor it has.
SelfExec(p) ==
    /\ pc[p] = "pull"
    /\ p \notin restarted
    /\ seen # tip
    /\ seen' = tip /\ asked' = tip
    /\ \/ UNCHANGED bg
       \/ bg' = bg \union {ofd[p]}
    /\ restarted' = restarted \union {p}
    /\ Goto(p, "open")
    /\ UNCHANGED <<ofd, reruns, victim, old, files, fg, tip, crashes>>

\* The last foreground child of the pass is done.
ChildEnds(p) ==
    /\ pc[p] = "build"
    /\ fg' = fg \ {ofd[p]}
    /\ Goto(p, "exit")
    /\ UNCHANGED <<ofd, reruns, restarted, victim, old, files, bg, pushed, crashes>>

\* A child nobody waits for ends: one whose run was killed, or a detached one.
OrphanEnds(o) ==
    /\ o \in fg
    /\ \A p \in Proc : ~(pc[p] = "build" /\ ofd[p] = o)
    /\ fg' = fg \ {o}
    /\ lock' = Surviving(lock, ofd, fg', bg)
    /\ UNCHANGED <<perRun, holder, marker, bg, pushed, crashes>>

DetachedEnds(o) ==
    /\ o \in bg
    /\ bg' = bg \ {o}
    /\ lock' = Surviving(lock, ofd, fg, bg')
    /\ UNCHANGED <<perRun, holder, marker, fg, pushed, crashes>>

\* Mutant: a marker is always worth one more pass.
ExitRerunsForever(p) ==
    /\ pc[p] = "exit"
    /\ IF marker
         THEN marker' = FALSE /\ Goto(p, "unlock")
         ELSE UNCHANGED marker /\ Goto(p, "leave")
    /\ UNCHANGED <<ofd, reruns, restarted, victim, old, lock, holder,
                   children, pushed, crashes>>

\* rerun_if_pending, as the EXIT trap: the marker is taken and the run starts
\* over, or there is none (or no rerun left) and the run is about to be gone.
Exit(p) ==
    /\ pc[p] = "exit"
    /\ IF marker /\ reruns[p] < 2
         THEN marker' = FALSE /\ Goto(p, "unlock")
         ELSE UNCHANGED marker /\ Goto(p, "leave")
    /\ UNCHANGED <<ofd, reruns, restarted, victim, old, lock, holder,
                   children, pushed, crashes>>

\* flock -u 9; exec 9>&-; DEPLOY_RERUNS=$((RERUNS + 1)) exec "$0"
Unlock(p) ==
    /\ pc[p] = "unlock"
    /\ lock' = IF lock = ofd[p] THEN NoOfd ELSE lock
    /\ ofd' = [ofd EXCEPT ![p] = NoOfd]
    /\ reruns' = [reruns EXCEPT ![p] = @ + 1]
    /\ Goto(p, "open")
    /\ UNCHANGED <<restarted, victim, old, holder, marker, children, pushed, crashes>>

Leave(p) ==
    /\ pc[p] = "leave"
    /\ Gone({p}, pc)
    /\ lock' = Surviving(lock, ofd', fg, bg)
    /\ UNCHANGED <<marker, children, pushed, crashes>>

\* STUCK_AFTER goes by with the child still running.
GrowOld(p) ==
    /\ CanStick
    /\ pc[p] = "build" /\ p \notin old
    /\ old' = old \union {p}
    /\ UNCHANGED <<pc, ofd, reruns, restarted, victim, files, children, pushed, crashes>>

\* The run is killed from outside (out of memory), its child survives it.
Crash(p) ==
    /\ crashes < MaxCrashes
    /\ Alive(p)
    /\ crashes' = crashes + 1
    /\ Gone({p}, pc)
    /\ lock' = Surviving(lock, ofd', fg, bg)
    /\ UNCHANGED <<marker, children, pushed>>

\* The steps a run takes by itself; ChildEnds is up to the child.
Step(p) ==
    \/ Open(p) \/ Try(p) \/ Inspect(p) \/ Mark(p)
    \/ Term(p) \/ KillVictim(p) \/ Sweep(p)
    \/ Claim(p) \/ Clear(p) \/ Pull(p) \/ PullFails(p) \/ SelfExec(p)
    \/ Exit(p) \/ Unlock(p) \/ Leave(p)

Next ==
    \/ \E p \in Proc : Push(p) \/ Cron(p) \/ Step(p) \/ ChildEnds(p) \/ GrowOld(p) \/ Crash(p)
    \/ \E o \in Ofd : OrphanEnds(o) \/ DetachedEnds(o)

Spec == Init /\ [][Next]_vars

\* Runs move, cron comes back, time goes by, git gc ends.  A build may hang, and
\* so may the orphan of one: nothing is assumed of ChildEnds and OrphanEnds.
FairSpec ==
    /\ Spec
    /\ WF_vars(\E p \in Proc : Cron(p))
    /\ \A p \in Proc : WF_vars(Step(p)) /\ WF_vars(GrowOld(p))
    /\ \A o \in Ofd : WF_vars(DetachedEnds(o))
-----------------------------------------------------------------------------
\* Every variable holds a value of its kind.
TypeOK ==
    /\ pc \in [Proc -> Steps]
    /\ ofd \in [Proc -> Ofd \union {NoOfd}]
    /\ reruns \in [Proc -> 0 .. 2]
    /\ victim \in [Proc -> Proc \union {NoProc}]
    /\ restarted \subseteq Proc /\ old \subseteq Proc
    /\ lock \in Ofd \union {NoOfd}
    /\ holder \in Proc \union {NoProc}
    /\ marker \in BOOLEAN
    /\ fg \subseteq Ofd /\ bg \subseteq Ofd
    /\ tip \in Nat /\ seen \in Nat /\ asked \in Nat /\ crashes \in Nat

\* "never let two deploys overlap": a run in its pass is the only one, and no
\* foreground child but its own is running.
MutualExclusion ==
    \A p \in Proc : pc[p] \in InPass =>
        /\ fg \subseteq {ofd[p]}
        /\ \A q \in Proc \ {p} : pc[q] \notin InPass

\* A push made since the last git pull, whether that one worked or failed, is on
\* somebody's list: the marker, or a run that has still to pull, to mark or to
\* take the deploy over.  (One a failed pull left behind waits for the next run.)
PushIsOnAList ==
    asked < tip => marker \/ \E p \in Proc : pc[p] \in BeforeTrap \union {"pull", "unlock"}

\* A stuck deploy does not end deploying: passes keep coming.
DeploysGoOn == []<>(\E p \in Proc : pc[p] = "pull")

\* "the holder takes one more pass on the way out": with reruns to spare, no
\* push waits for the next cron sweep once every run is over.
NoPushLeftForCron == (\A p \in Proc : pc[p] = "idle") => seen = tip

\* "The lock stays held across the exec": nobody else has it meanwhile.
LockKeptAcrossExec ==
    \A p \in restarted : \A q \in Proc \ {p} : lock # NoOfd => lock # ofd[q]

\* "A holder running for more than 45 minutes is treated as stuck and killed":
\* one that has not is left alone by the runs that take over.
OnlyTheStuckAreKilled ==
    [][\A p \in Proc : pc[p] \in InPass /\ pc'[p] = "idle" => p \in old]_vars
=============================================================================
