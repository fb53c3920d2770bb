-------------------------- MODULE DeployLockProofs --------------------------
(***************************************************************************)
(* Proofs about DeployLock, for any number of runs: type correctness, and  *)
(* what the lock and the marker give as long as no deploy is taken over    *)
(* (~CanStick), self re-exec, reruns and detached children included.       *)
(***************************************************************************)
EXTENDS DeployLock, TLAPS

\* The reruns are only counted up by a run that has one to spare, and a run past
\* its `exec 9>>` has the lock file open.
Entered == {"try", "retry", "inspect", "claim", "clear"} \union InPass \union InTrap
RunsOK ==
    \A p \in Proc : /\ pc[p] = "unlock" => reruns[p] < 2
                    /\ pc[p] \in Entered => ofd[p] # NoOfd

LEMMA SurvivingType ==
    ASSUME NEW l \in Ofd \union {NoOfd}, NEW o, NEW f, NEW b
    PROVE  Surviving(l, o, f, b) \in Ofd \union {NoOfd}
BY DEF Surviving

LEMMA GoneType ==
    ASSUME TypeOK, NEW D, NEW next \in [Proc -> Steps], Gone(D, next)
    PROVE  /\ pc' \in [Proc -> Steps]
           /\ ofd' \in [Proc -> Ofd \union {NoOfd}]
           /\ reruns' \in [Proc -> 0 .. 2]
           /\ victim' \in [Proc -> Proc \union {NoProc}]
           /\ restarted' \subseteq Proc /\ old' \subseteq Proc
           /\ holder' \in Proc \union {NoProc}
BY DEF TypeOK, Gone, Steps

THEOREM TypeCorrect == Spec => [](TypeOK /\ RunsOK)
<1>1. Init => TypeOK /\ RunsOK
  <2> SUFFICES ASSUME Init PROVE TypeOK /\ RunsOK
    OBVIOUS
  <2>1. marker \in BOOLEAN
    BY DEF Init
  <2> QED
    BY <2>1, DeployLockAssumption DEF Init, TypeOK, RunsOK, Entered, InPass, InTrap, Steps
<1>2. TypeOK /\ RunsOK /\ [Next]_vars => (TypeOK /\ RunsOK)'
  <2> SUFFICES ASSUME TypeOK, RunsOK, [Next]_vars PROVE TypeOK' /\ RunsOK'
    OBVIOUS
  <2>t. pc \in [Proc -> Steps]
    BY DEF TypeOK
  <2> USE DEF TypeOK, RunsOK, Entered, InPass, InTrap
  <2>1. ASSUME NEW p \in Proc, Push(p) PROVE TypeOK' /\ RunsOK'
    <3>1. tip' \in Nat /\ marker' \in BOOLEAN
      BY <2>1 DEF Push, files
    <3> QED
      BY <2>1, <3>1 DEF Push, Goto, files, children, Steps, BeforeTrap
  <2>2. ASSUME NEW p \in Proc, Cron(p) PROVE TypeOK' /\ RunsOK'
    BY <2>2 DEF Cron, Goto, files, children, pushed, Steps, BeforeTrap
  <2>3. ASSUME NEW p \in Proc, Open(p) PROVE TypeOK' /\ RunsOK'
    <3>1. PICK o \in Ofd : ofd' = [ofd EXCEPT ![p] = o]
      BY <2>3 DEF Open
    <3>2. lock' \in Ofd \union {NoOfd}
      BY <2>3, SurvivingType DEF Open
    <3>3. pc' \in [Proc -> Steps]
      BY <2>3 DEF Open, Goto, Steps, BeforeTrap, Takeover
    <3>4. marker' \in BOOLEAN
      BY <2>3 DEF Open
    <3>5. RunsOK'
      BY <2>3, <3>1, DeployLockAssumption DEF Open, Goto
    <3> QED
      BY <2>3, <3>1, <3>2, <3>3, <3>4, <3>5 DEF Open, children, pushed
  <2>4. ASSUME NEW p \in Proc, Try(p) PROVE TypeOK' /\ RunsOK'
    BY <2>4 DEF Try, Goto, children, pushed, Steps, BeforeTrap
  <2>5. ASSUME NEW p \in Proc, Inspect(p) PROVE TypeOK' /\ RunsOK'
    BY <2>5 DEF Inspect, Goto, files, children, pushed, Steps, BeforeTrap, Takeover
  <2>6. ASSUME NEW p \in Proc, Mark(p) PROVE TypeOK' /\ RunsOK'
    BY <2>6, <2>t, GoneType, SurvivingType DEF Mark, Gone, children, pushed
  <2>7. ASSUME NEW p \in Proc, Term(p) PROVE TypeOK' /\ RunsOK'
    BY <2>7, <2>t, GoneType, SurvivingType
       DEF Term, Goto, Gone, children, pushed, Steps, BeforeTrap, Takeover, InTrap, InPass
  <2>8. ASSUME NEW p \in Proc, KillVictim(p) PROVE TypeOK' /\ RunsOK'
    BY <2>8, <2>t, GoneType, SurvivingType
       DEF KillVictim, Gone, children, pushed, Steps, BeforeTrap, Takeover
  <2>9. ASSUME NEW p \in Proc, Sweep(p) PROVE TypeOK' /\ RunsOK'
    BY <2>9, <2>t, GoneType DEF Sweep, Gone, pushed, Steps, BeforeTrap, Takeover
  <2>10. ASSUME NEW p \in Proc, Claim(p) PROVE TypeOK' /\ RunsOK'
    BY <2>10 DEF Claim, Goto, children, pushed, Steps, BeforeTrap
  <2>11. ASSUME NEW p \in Proc, Clear(p) PROVE TypeOK' /\ RunsOK'
    BY <2>11 DEF Clear, Goto, children, pushed, Steps, InPass
  <2>12. ASSUME NEW p \in Proc, Pull(p) PROVE TypeOK' /\ RunsOK'
    BY <2>12 DEF Pull, Goto, files, Steps, InPass
  <2>13. ASSUME NEW p \in Proc, SelfExec(p) PROVE TypeOK' /\ RunsOK'
    BY <2>13 DEF SelfExec, Goto, files, Steps, BeforeTrap
  <2>23. ASSUME NEW p \in Proc, PullFails(p) PROVE TypeOK' /\ RunsOK'
    BY <2>23 DEF PullFails, Goto, files, Steps, InPass
  <2>14. ASSUME NEW p \in Proc, ChildEnds(p) PROVE TypeOK' /\ RunsOK'
    BY <2>14 DEF ChildEnds, Goto, files, pushed, Steps, InTrap
  <2>15. ASSUME NEW p \in Proc, Exit(p) PROVE TypeOK' /\ RunsOK'
    BY <2>15 DEF Exit, Goto, children, pushed, Steps, InTrap
  <2>16. ASSUME NEW p \in Proc, Unlock(p) PROVE TypeOK' /\ RunsOK'
    <3>1. reruns[p] + 1 \in 0 .. 2
      BY <2>16 DEF Unlock
    <3>2. reruns' \in [Proc -> 0 .. 2]
      BY <2>16, <3>1 DEF Unlock
    <3>3. pc' \in [Proc -> Steps] /\ pc'[p] = "open" /\ \A q \in Proc \ {p} : pc'[q] = pc[q]
      BY <2>16 DEF Unlock, Goto, Steps, BeforeTrap
    <3>4. RunsOK'
      BY <2>16, <3>2, <3>3 DEF Unlock
    <3>5. marker' \in BOOLEAN
      BY <2>16 DEF Unlock
    <3> QED
      BY <2>16, <3>2, <3>3, <3>4, <3>5 DEF Unlock, Goto, children, pushed, Steps, BeforeTrap
  <2>17. ASSUME NEW p \in Proc, Leave(p) PROVE TypeOK' /\ RunsOK'
    BY <2>17, <2>t, GoneType, SurvivingType DEF Leave, Gone, children, pushed
  <2>18. ASSUME NEW p \in Proc, GrowOld(p) PROVE TypeOK' /\ RunsOK'
    BY <2>18 DEF GrowOld, files, children, pushed
  <2>19. ASSUME NEW p \in Proc, Crash(p) PROVE TypeOK' /\ RunsOK'
    <3>1. crashes' \in Nat /\ marker' \in BOOLEAN
      BY <2>19 DEF Crash
    <3>2. lock' \in Ofd \union {NoOfd}
      BY <2>19, SurvivingType DEF Crash
    <3>3. RunsOK'
      BY <2>19 DEF Crash, Gone
    <3> QED
      BY <2>19, <2>t, <3>1, <3>2, <3>3, GoneType DEF Crash, children, pushed
  <2>20. ASSUME NEW o \in Ofd, OrphanEnds(o) PROVE TypeOK' /\ RunsOK'
    BY <2>20, SurvivingType DEF OrphanEnds, perRun, pushed
  <2>21. ASSUME NEW o \in Ofd, DetachedEnds(o) PROVE TypeOK' /\ RunsOK'
    BY <2>21, SurvivingType DEF DetachedEnds, perRun, pushed
  <2>22. CASE UNCHANGED vars
    BY <2>22 DEF vars, perRun, files, children, pushed
  <2> QED
    BY <2>1, <2>2, <2>3, <2>4, <2>5, <2>6, <2>7, <2>8, <2>9, <2>10, <2>11, <2>12, <2>13,
       <2>14, <2>15, <2>16, <2>17, <2>18, <2>19, <2>20, <2>21, <2>22, <2>23 DEF Next, Step
<1> QED
  BY <1>1, <1>2, PTL DEF Spec
-----------------------------------------------------------------------------
\* Between flock and its release a run has the lock on its own description, and
\* the only child in the foreground is one that holds the lock with it.
Holding == {"claim", "clear"} \union InPass \union InTrap
LockInv ==
    /\ old = {}
    /\ \A p \in Proc : pc[p] \notin Takeover
    /\ \A p \in Proc : pc[p] \in Holding => lock = ofd[p]
    /\ fg \subseteq {lock}
    /\ \A p \in Proc : pc[p] \in Holding \ {"build"} => fg = {}
    /\ \A p \in Proc : \A q \in Proc : p # q /\ ofd[p] = ofd[q] => ofd[p] = NoOfd

LEMMA InitLockInv == Init => LockInv
BY DeployLockAssumption DEF Init, LockInv, Holding, InPass, InTrap, Takeover

LEMMA LockInvStep ==
    ASSUME ~CanStick, TypeOK, RunsOK, LockInv, [Next]_vars
    PROVE  LockInv'
<1> USE DeployLockAssumption
<1>t. /\ pc \in [Proc -> Steps] /\ ofd \in [Proc -> Ofd \union {NoOfd}]
      /\ fg \subseteq Ofd /\ bg \subseteq Ofd /\ lock \in Ofd \union {NoOfd}
  BY DEF TypeOK
<1>r. \A p \in Proc : pc[p] \in Holding \union {"try"} => ofd[p] # NoOfd
  BY DEF RunsOK, Entered, Holding
<1> USE <1>t, <1>r DEF LockInv, Holding, InPass, InTrap, Takeover, InUse
<1>1. ASSUME NEW p \in Proc, Push(p) PROVE LockInv'
  BY <1>1 DEF Push, Goto, files, children, pushed
<1>2. ASSUME NEW p \in Proc, Cron(p) PROVE LockInv'
  BY <1>2 DEF Cron, Goto, files, children, pushed
<1>3. ASSUME NEW p \in Proc, Open(p) PROVE LockInv'
  BY <1>3 DEF Open, Goto, files, children, pushed, Surviving
<1>4. ASSUME NEW p \in Proc, Try(p) PROVE LockInv'
  BY <1>4 DEF Try, Goto, files, children, pushed
<1>5. ASSUME NEW p \in Proc, Inspect(p) PROVE LockInv'
  BY <1>5 DEF Inspect, Goto, files, children, pushed
<1>6. ASSUME NEW p \in Proc, Mark(p) PROVE LockInv'
  BY <1>6 DEF Mark, Goto, files, children, pushed, Gone, Surviving
<1>7. ASSUME NEW p \in Proc, Term(p) PROVE LockInv'
  BY <1>7 DEF Term, Goto, files, children, pushed
<1>8. ASSUME NEW p \in Proc, KillVictim(p) PROVE LockInv'
  BY <1>8 DEF KillVictim, Goto, files, children, pushed
<1>9. ASSUME NEW p \in Proc, Sweep(p) PROVE LockInv'
  BY <1>9 DEF Sweep, Goto, files, children, pushed
<1>10. ASSUME NEW p \in Proc, Claim(p) PROVE LockInv'
  BY <1>10 DEF Claim, Goto, files, children, pushed
<1>11. ASSUME NEW p \in Proc, Clear(p) PROVE LockInv'
  BY <1>11 DEF Clear, Goto, files, children, pushed
<1>12. ASSUME NEW p \in Proc, Pull(p) PROVE LockInv'
  BY <1>12 DEF Pull, Goto, files, children, pushed
<1>13. ASSUME NEW p \in Proc, SelfExec(p) PROVE LockInv'
  BY <1>13 DEF SelfExec, Goto, files, children, pushed
<1>23. ASSUME NEW p \in Proc, PullFails(p) PROVE LockInv'
  BY <1>23 DEF PullFails, Goto, files, children, pushed
<1>14. ASSUME NEW p \in Proc, ChildEnds(p) PROVE LockInv'
  BY <1>14 DEF ChildEnds, Goto, files, children, pushed
<1>15. ASSUME NEW p \in Proc, Exit(p) PROVE LockInv'
  BY <1>15 DEF Exit, Goto, files, children, pushed
<1>16. ASSUME NEW p \in Proc, Unlock(p) PROVE LockInv'
  BY <1>16 DEF Unlock, Goto, files, children, pushed
<1>17. ASSUME NEW p \in Proc, Leave(p) PROVE LockInv'
  BY <1>17 DEF Leave, Goto, files, children, pushed, Gone, Surviving
<1>18. ASSUME NEW p \in Proc, GrowOld(p) PROVE LockInv'
  BY <1>18 DEF GrowOld, Goto, files, children, pushed
<1>19. ASSUME NEW p \in Proc, Crash(p) PROVE LockInv'
  BY <1>19 DEF Crash, Goto, files, children, pushed, Gone, Surviving
<1>20. ASSUME NEW o \in Ofd, OrphanEnds(o) PROVE LockInv'
  BY <1>20 DEF OrphanEnds, perRun, pushed, Surviving
<1>21. ASSUME NEW o \in Ofd, DetachedEnds(o) PROVE LockInv'
  BY <1>21 DEF DetachedEnds, perRun, pushed, Surviving
<1>22. CASE UNCHANGED vars
  BY <1>22 DEF vars, perRun, files, children, pushed
<1> QED
  BY <1>1, <1>2, <1>3, <1>4, <1>5, <1>6, <1>7, <1>8, <1>9, <1>10, <1>11,
     <1>12, <1>13, <1>14, <1>15, <1>16, <1>17, <1>18, <1>19, <1>20, <1>21, <1>22, <1>23 DEF Next, Step

\* As long as no deploy gets old enough to be taken over, no two of them overlap:
\* not through a rerun, a self re-exec, a detached gc or a run killed from outside.
THEOREM DeploysDoNotOverlap ==
    ASSUME ~CanStick
    PROVE  Spec => []MutualExclusion
<1>1. LockInv /\ RunsOK => MutualExclusion
  BY DEF LockInv, RunsOK, Entered, Holding, MutualExclusion, InPass, InTrap
<1>2. TypeOK /\ RunsOK /\ LockInv /\ [Next]_vars => LockInv'
  BY LockInvStep
<1> QED
  BY <1>1, <1>2, InitLockInv, TypeCorrect, PTL DEF Spec
-----------------------------------------------------------------------------
(***************************************************************************)
(* Where a push is, stuck deploys and takeovers included, as long as no    *)
(* run is killed from outside.  PushIsOnAList counts any run that has      *)
(* still to pull; one of them may be about to kill itself, since a rerun   *)
(* keeps its pid and its age: it reads its own pid in the lock file when   *)
(* another has the lock and has not written its pid yet.  Carries leaves   *)
(* that one out, and PidInv says that the other is then there.             *)
(***************************************************************************)
Carries(p) ==
    /\ pc[p] \in BeforeTrap \union {"pull", "unlock"}
    /\ victim[p] # p
    /\ pc[p] \in {"open", "try"} /\ holder = p => lock = NoOfd
    /\ pc[p] = "inspect" => holder # p

OfdInv ==
    /\ \A p \in Proc : pc[p] \in Takeover \ {"retry"} => ofd[p] = NoOfd
    /\ \A p \in Proc : \A q \in Proc : p # q /\ ofd[p] = ofd[q] => ofd[p] = NoOfd
    /\ \A p \in Proc : pc[p] \in {"try", "retry", "claim"} => ofd[p] \notin fg \union bg
    /\ \A p \in Proc : pc[p] = "claim" => lock = ofd[p]

PidInv ==
    /\ \A p \in Proc : holder = p => Alive(p)
    /\ \A p \in Proc : victim[p] = p => pc[p] = "term"
    /\ \A p \in Proc : holder = p /\ pc[p] \in {"clear"} \union InPass \union InTrap =>
          lock \in {NoOfd, ofd[p]} \/ \E q \in Proc : pc[q] = "claim"

CarryInv == asked < tip => marker \/ \E p \in Proc : Carries(p)

LEMMA InitCarry == Init => OfdInv /\ PidInv /\ CarryInv
BY DeployLockAssumption
   DEF Init, OfdInv, PidInv, CarryInv, Takeover, InPass, InTrap, Alive

LEMMA OfdStep ==
    ASSUME MaxCrashes = 0, TypeOK, RunsOK, OfdInv, [Next]_vars
    PROVE  OfdInv'
<1> USE DeployLockAssumption
<1>t. /\ pc \in [Proc -> Steps] /\ ofd \in [Proc -> Ofd \union {NoOfd}]
      /\ fg \subseteq Ofd /\ bg \subseteq Ofd /\ lock \in Ofd \union {NoOfd}
      /\ victim \in [Proc -> Proc \union {NoProc}]
  BY DEF TypeOK
<1>r. \A p \in Proc : pc[p] \in Entered => ofd[p] # NoOfd
  BY DEF RunsOK
<1> USE <1>t, <1>r DEF OfdInv, InPass, InTrap, Takeover, InUse, Entered
<1>1. ASSUME NEW p \in Proc, Push(p) PROVE OfdInv'
  BY <1>1 DEF Push, Goto, files, children, pushed
<1>2. ASSUME NEW p \in Proc, Cron(p) PROVE OfdInv'
  BY <1>2 DEF Cron, Goto, files, children, pushed
<1>3. ASSUME NEW p \in Proc, Open(p) PROVE OfdInv'
  BY <1>3 DEF Open, Goto, files, children, pushed, Surviving
<1>4. ASSUME NEW p \in Proc, Try(p) PROVE OfdInv'
  BY <1>4 DEF Try, Goto, files, children, pushed
<1>5. ASSUME NEW p \in Proc, Inspect(p) PROVE OfdInv'
  BY <1>5 DEF Inspect, Goto, files, children, pushed
<1>6. ASSUME NEW p \in Proc, Mark(p) PROVE OfdInv'
  BY <1>6 DEF Mark, Goto, files, children, pushed, Gone, Surviving
<1>7. ASSUME NEW p \in Proc, Term(p) PROVE OfdInv'
  BY <1>7 DEF Term, Goto, files, children, pushed, Gone, Surviving
<1>8. ASSUME NEW p \in Proc, KillVictim(p) PROVE OfdInv'
  BY <1>8 DEF KillVictim, Goto, files, children, pushed, Gone, Surviving
<1>9. ASSUME NEW p \in Proc, Sweep(p) PROVE OfdInv'
  BY <1>9 DEF Sweep, Goto, files, children, pushed, Gone
<1>10. ASSUME NEW p \in Proc, Claim(p) PROVE OfdInv'
  BY <1>10 DEF Claim, Goto, files, children, pushed
<1>11. ASSUME NEW p \in Proc, Clear(p) PROVE OfdInv'
  BY <1>11 DEF Clear, Goto, files, children, pushed
<1>12. ASSUME NEW p \in Proc, Pull(p) PROVE OfdInv'
  BY <1>12 DEF Pull, Goto, files, children, pushed
<1>13. ASSUME NEW p \in Proc, SelfExec(p) PROVE OfdInv'
  BY <1>13 DEF SelfExec, Goto, files, children, pushed
<1>23. ASSUME NEW p \in Proc, PullFails(p) PROVE OfdInv'
  BY <1>23 DEF PullFails, Goto, files, children, pushed
<1>14. ASSUME NEW p \in Proc, ChildEnds(p) PROVE OfdInv'
  BY <1>14 DEF ChildEnds, Goto, files, children, pushed
<1>15. ASSUME NEW p \in Proc, Exit(p) PROVE OfdInv'
  BY <1>15 DEF Exit, Goto, files, children, pushed
<1>16. ASSUME NEW p \in Proc, Unlock(p) PROVE OfdInv'
  BY <1>16 DEF Unlock, Goto, files, children, pushed
<1>17. ASSUME NEW p \in Proc, Leave(p) PROVE OfdInv'
  BY <1>17 DEF Leave, Goto, files, children, pushed, Gone, Surviving
<1>18. ASSUME NEW p \in Proc, GrowOld(p) PROVE OfdInv'
  BY <1>18 DEF GrowOld, Goto, files, children, pushed
<1>19. ASSUME NEW p \in Proc PROVE ~Crash(p)
  BY DEF Crash, TypeOK
<1>20. ASSUME NEW o \in Ofd, OrphanEnds(o) PROVE OfdInv'
  BY <1>20 DEF OrphanEnds, perRun, pushed, Surviving
<1>21. ASSUME NEW o \in Ofd, DetachedEnds(o) PROVE OfdInv'
  BY <1>21 DEF DetachedEnds, perRun, pushed, Surviving
<1>22. CASE UNCHANGED vars
  BY <1>22 DEF vars, perRun, files, children, pushed
<1> QED
  BY <1>1, <1>2, <1>3, <1>4, <1>5, <1>6, <1>7, <1>8, <1>9, <1>10, <1>11, <1>12, <1>13, <1>14, <1>15, <1>16, <1>17, <1>18, <1>19, <1>20, <1>21, <1>22, <1>23 DEF Next, Step

LEMMA PidStep ==
    ASSUME MaxCrashes = 0, TypeOK, RunsOK, OfdInv, PidInv, [Next]_vars
    PROVE  PidInv'
<1> USE DeployLockAssumption
<1>t. /\ pc \in [Proc -> Steps] /\ ofd \in [Proc -> Ofd \union {NoOfd}]
      /\ fg \subseteq Ofd /\ bg \subseteq Ofd /\ lock \in Ofd \union {NoOfd}
      /\ victim \in [Proc -> Proc \union {NoProc}] /\ holder \in Proc \union {NoProc}
  BY DEF TypeOK
<1>r. \A p \in Proc : pc[p] \in Entered => ofd[p] # NoOfd
  BY DEF RunsOK
<1> USE <1>t, <1>r DEF OfdInv, PidInv, Alive, InPass, InTrap, Takeover, Entered
<1>1. ASSUME NEW p \in Proc, Push(p) PROVE PidInv'
  BY <1>1 DEF Push, Goto, files, children, pushed
<1>2. ASSUME NEW p \in Proc, Cron(p) PROVE PidInv'
  BY <1>2 DEF Cron, Goto, files, children, pushed
<1>3. ASSUME NEW p \in Proc, Open(p) PROVE PidInv'
  BY <1>3 DEF Open, Goto, files, children, pushed, Surviving
<1>4. ASSUME NEW p \in Proc, Try(p) PROVE PidInv'
  BY <1>4 DEF Try, Goto, files, children, pushed
<1>5. ASSUME NEW p \in Proc, Inspect(p) PROVE PidInv'
  BY <1>5 DEF Inspect, Goto, files, children, pushed
<1>6. ASSUME NEW p \in Proc, Mark(p) PROVE PidInv'
  BY <1>6 DEF Mark, Goto, files, children, pushed, Gone, Surviving
<1>7. ASSUME NEW p \in Proc, Term(p) PROVE PidInv'
  BY <1>7 DEF Term, Goto, files, children, pushed, Gone, Surviving
<1>8. ASSUME NEW p \in Proc, KillVictim(p) PROVE PidInv'
  BY <1>8 DEF KillVictim, Goto, files, children, pushed, Gone, Surviving
<1>9. ASSUME NEW p \in Proc, Sweep(p) PROVE PidInv'
  BY <1>9 DEF Sweep, Goto, files, children, pushed, Gone
<1>10. ASSUME NEW p \in Proc, Claim(p) PROVE PidInv'
  BY <1>10 DEF Claim, Goto, files, children, pushed
<1>11. ASSUME NEW p \in Proc, Clear(p) PROVE PidInv'
  BY <1>11 DEF Clear, Goto, files, children, pushed
<1>12. ASSUME NEW p \in Proc, Pull(p) PROVE PidInv'
  BY <1>12 DEF Pull, Goto, files, children, pushed
<1>13. ASSUME NEW p \in Proc, SelfExec(p) PROVE PidInv'
  BY <1>13 DEF SelfExec, Goto, files, children, pushed
<1>23. ASSUME NEW p \in Proc, PullFails(p) PROVE PidInv'
  BY <1>23 DEF PullFails, Goto, files, children, pushed
<1>14. ASSUME NEW p \in Proc, ChildEnds(p) PROVE PidInv'
  BY <1>14 DEF ChildEnds, Goto, files, children, pushed
<1>15. ASSUME NEW p \in Proc, Exit(p) PROVE PidInv'
  BY <1>15 DEF Exit, Goto, files, children, pushed
<1>16. ASSUME NEW p \in Proc, Unlock(p) PROVE PidInv'
  BY <1>16 DEF Unlock, Goto, files, children, pushed
<1>17. ASSUME NEW p \in Proc, Leave(p) PROVE PidInv'
  BY <1>17 DEF Leave, Goto, files, children, pushed, Gone, Surviving
<1>18. ASSUME NEW p \in Proc, GrowOld(p) PROVE PidInv'
  BY <1>18 DEF GrowOld, Goto, files, children, pushed
<1>19. ASSUME NEW p \in Proc PROVE ~Crash(p)
  BY DEF Crash, TypeOK
<1>20. ASSUME NEW o \in Ofd, OrphanEnds(o) PROVE PidInv'
  BY <1>20 DEF OrphanEnds, perRun, pushed, Surviving
<1>21. ASSUME NEW o \in Ofd, DetachedEnds(o) PROVE PidInv'
  BY <1>21 DEF DetachedEnds, perRun, pushed, Surviving
<1>22. CASE UNCHANGED vars
  BY <1>22 DEF vars, perRun, files, children, pushed
<1> QED
  BY <1>1, <1>2, <1>3, <1>4, <1>5, <1>6, <1>7, <1>8, <1>9, <1>10, <1>11, <1>12, <1>13, <1>14, <1>15, <1>16, <1>17, <1>18, <1>19, <1>20, <1>21, <1>22, <1>23 DEF Next, Step

LEMMA CarryStep ==
    ASSUME MaxCrashes = 0, TypeOK, RunsOK, OfdInv, PidInv, CarryInv, [Next]_vars
    PROVE  CarryInv'
<1> USE DeployLockAssumption
<1>t. /\ pc \in [Proc -> Steps] /\ ofd \in [Proc -> Ofd \union {NoOfd}]
      /\ victim \in [Proc -> Proc \union {NoProc}] /\ holder \in Proc \union {NoProc}
      /\ tip \in Nat /\ asked \in Nat
  BY DEF TypeOK
<1> USE <1>t DEF OfdInv, PidInv, CarryInv, Carries, Alive, InPass, InTrap, BeforeTrap, Takeover
<1>1. ASSUME NEW p \in Proc, Push(p) PROVE CarryInv'
  BY <1>1 DEF Push, Goto, files, children, pushed
<1>2. ASSUME NEW p \in Proc, Cron(p) PROVE CarryInv'
  BY <1>2 DEF Cron, Goto, files, children, pushed
<1>3. ASSUME NEW p \in Proc, Open(p) PROVE CarryInv'
  BY <1>3 DEF Open, Goto, files, children, pushed, Surviving
<1>4. ASSUME NEW p \in Proc, Try(p) PROVE CarryInv'
  BY <1>4 DEF Try, Goto, files, children, pushed
<1>5. ASSUME NEW p \in Proc, Inspect(p) PROVE CarryInv'
  BY <1>5 DEF Inspect, Goto, files, children, pushed
<1>6. ASSUME NEW p \in Proc, Mark(p) PROVE CarryInv'
  BY <1>6 DEF Mark, Goto, files, children, pushed, Gone, Surviving
<1>7. ASSUME NEW p \in Proc, Term(p) PROVE CarryInv'
  BY <1>7 DEF Term, Goto, files, children, pushed, Gone, Surviving
<1>8. ASSUME NEW p \in Proc, KillVictim(p) PROVE CarryInv'
  BY <1>8 DEF KillVictim, Goto, files, children, pushed, Gone, Surviving
<1>9. ASSUME NEW p \in Proc, Sweep(p) PROVE CarryInv'
  BY <1>9 DEF Sweep, Goto, files, children, pushed, Gone
<1>10. ASSUME NEW p \in Proc, Claim(p) PROVE CarryInv'
  BY <1>10 DEF Claim, Goto, files, children, pushed
<1>11. ASSUME NEW p \in Proc, Clear(p) PROVE CarryInv'
  BY <1>11 DEF Clear, Goto, files, children, pushed
<1>12. ASSUME NEW p \in Proc, Pull(p) PROVE CarryInv'
  BY <1>12 DEF Pull, Goto, files, children, pushed
<1>13. ASSUME NEW p \in Proc, SelfExec(p) PROVE CarryInv'
  BY <1>13 DEF SelfExec, Goto, files, children, pushed
<1>23. ASSUME NEW p \in Proc, PullFails(p) PROVE CarryInv'
  BY <1>23 DEF PullFails, Goto, files, children, pushed
<1>14. ASSUME NEW p \in Proc, ChildEnds(p) PROVE CarryInv'
  BY <1>14 DEF ChildEnds, Goto, files, children, pushed
<1>15. ASSUME NEW p \in Proc, Exit(p) PROVE CarryInv'
  BY <1>15 DEF Exit, Goto, files, children, pushed
<1>16. ASSUME NEW p \in Proc, Unlock(p) PROVE CarryInv'
  BY <1>16 DEF Unlock, Goto, files, children, pushed
<1>17. ASSUME NEW p \in Proc, Leave(p) PROVE CarryInv'
  BY <1>17 DEF Leave, Goto, files, children, pushed, Gone, Surviving
<1>18. ASSUME NEW p \in Proc, GrowOld(p) PROVE CarryInv'
  BY <1>18 DEF GrowOld, Goto, files, children, pushed
<1>19. ASSUME NEW p \in Proc PROVE ~Crash(p)
  BY DEF Crash, TypeOK
<1>20. ASSUME NEW o \in Ofd, OrphanEnds(o) PROVE CarryInv'
  BY <1>20 DEF OrphanEnds, perRun, pushed, Surviving
<1>21. ASSUME NEW o \in Ofd, DetachedEnds(o) PROVE CarryInv'
  BY <1>21 DEF DetachedEnds, perRun, pushed, Surviving
<1>22. CASE UNCHANGED vars
  BY <1>22 DEF vars, perRun, files, children, pushed
<1> QED
  BY <1>1, <1>2, <1>3, <1>4, <1>5, <1>6, <1>7, <1>8, <1>9, <1>10, <1>11, <1>12, <1>13, <1>14, <1>15, <1>16, <1>17, <1>18, <1>19, <1>20, <1>21, <1>22, <1>23 DEF Next, Step

\* For any number of runs, pushes and stuck deploys, as long as no run is killed
\* from outside: a push made since the last git pull, failed or not, is in the
\* marker, or with a run that has still to pull, to mark or to take over.
THEOREM PushesAreOnAList ==
    ASSUME MaxCrashes = 0
    PROVE  Spec => []PushIsOnAList
<1>1. CarryInv => PushIsOnAList
  BY DEF CarryInv, PushIsOnAList, Carries
<1>2. TypeOK /\ RunsOK /\ OfdInv /\ PidInv /\ CarryInv /\ [Next]_vars
        => OfdInv' /\ PidInv' /\ CarryInv'
  BY OfdStep, PidStep, CarryStep
<1> QED
  BY <1>1, <1>2, InitCarry, TypeCorrect, PTL DEF Spec
=============================================================================
