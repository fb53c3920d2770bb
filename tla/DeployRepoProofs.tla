-------------------------- MODULE DeployRepoProofs --------------------------
(***************************************************************************)
(* Proofs about DeployRepo for every set of services and every bound.      *)
(* PassInv is the inductive strengthening: it says, step by step of the    *)
(* pass, who still answers for an item that is behind its source.          *)
(***************************************************************************)
EXTENDS DeployRepo, TLAPS

\* What push_repo_metrics and the change records rest on.
LEMMA JoinType ==
    ASSUME NEW c \in Change, NEW d \in Change
    PROVE  Join(c, d) \in Change
BY DEF Change, Join

LEMMA NoChangeType == NoChange \in Change
BY DEF Change, NoChange

\* An empty range of commits touches nothing, and a remote build context moves
\* only together with compose's own files.
WellFormed(c) ==
    /\ ~c.any => c.items = {}
    /\ c.items \intersect Remote # {} => c.cfg

LEMMA JoinWellFormed ==
    ASSUME NEW c \in Change, NEW d \in Change, WellFormed(c), WellFormed(d)
    PROVE  WellFormed(Join(c, d))
BY DEF Change, Join, WellFormed

\* The items this pass has pulled and not yet dealt with.
Pending ==
    CASE pc \in {"pull", "report"} -> carried.items
      [] pc \in {"restart", "plan"} -> diff.items
      [] pc \in {"images", "build"} -> toBuild
      [] OTHER -> {}

\* The builds a failure of which would still be counted at this step.
MayForget == pc \in {"images", "build", "up", "ensure_nothing"} /\ attempts <= BUILD_RETRIES

BuiltAnswered == (attempts = 0 \/ MayForget) =>
                     stale \intersect Built \subseteq excused \union Pending
ReloadAnswered == stale \intersect Reloaded \subseteq
                      excused \union IF pc \in {"pull", "restart", "report"} THEN Pending ELSE {}
Carry == pc \notin {"pull", "report"} \/ rc = "changed" => carried = NoChange
Fresh == pc # "report" => rc = "unchanged"

PassInv ==
    /\ TypeOK
    /\ WellFormed(upstream) /\ WellFormed(carried) /\ WellFormed(diff)
    /\ Carry /\ Fresh
    /\ BuiltAnswered
    /\ ReloadAnswered
    /\ StatusHonest
-----------------------------------------------------------------------------
THEOREM TypeCorrect == Spec => []TypeOK
<1> USE DeployRepoAssumption
<1>1. Init => TypeOK
  BY NoChangeType DEF Init, TypeOK, Steps, Results, Item, Service
<1>2. TypeOK /\ [Next]_vars => TypeOK'
  <2> SUFFICES ASSUME TypeOK, [Next]_vars PROVE TypeOK'
    OBVIOUS
  <2> USE NoChangeType, JoinType DEF TypeOK, Steps, Results, Service, Item, Fault, FaultIf
  <2>1. CASE Push
    BY <2>1 DEF Push, Commit, images, pass
  <2>2. CASE Start
    BY <2>2 DEF Start, world, images, pass
  <2>3. CASE Pull
    <3>1. upstream.items \subseteq Item /\ upstream.pins \subseteq Pinned
      BY DEF Change
    <3> QED
      BY <2>3, <3>1 DEF Pull
  <2>4. CASE Restart
    BY <2>4 DEF Restart, world, pass
  <2>5. CASE Plan
    BY <2>5 DEF Plan, PlanBuild, Retry, world, images
  <2>6. CASE PullImages
    BY <2>6 DEF PullImages, world
  <2>7. CASE BuildImages
    BY <2>7 DEF BuildImages, world, pass
  <2>8. CASE Up
    BY <2>8 DEF Up, ForgetFailure, world
  <2>9. CASE EnsureNothing
    BY <2>9 DEF EnsureNothing, ForgetFailure, world
  <2>10. CASE EnsureUnchanged
    BY <2>10 DEF EnsureUnchanged, world
  <2>11. CASE Report
    BY <2>11 DEF Report, EndPass, RunOver, Status, world, images
  <2>12. CASE NotConfigured
    BY <2>12 DEF NotConfigured, world, images
  <2>13. CASE PullFails
    BY <2>13 DEF PullFails, world
  <2>14. CASE PlanUnreadable
    BY <2>14 DEF PlanUnreadable, world, images
  <2>15. CASE BuildFails
    BY <2>15 DEF BuildFails, world
  <2>16. CASE UpFails
    BY <2>16 DEF UpFails, world
  <2>17. CASE EnsureFails
    BY <2>17 DEF EnsureFails, world
  <2>18. CASE Kill
    BY <2>18 DEF Kill, EndPass, RunOver, world, images
  <2>19. CASE UNCHANGED vars
    BY <2>19 DEF vars, world, images, pass
  <2> QED
    BY <2>1, <2>2, <2>3, <2>4, <2>5, <2>6, <2>7, <2>8, <2>9, <2>10, <2>11, <2>12,
       <2>13, <2>14, <2>15, <2>16, <2>17, <2>18, <2>19 DEF Next, PassStep, FaultStep
<1> QED
  BY <1>1, <1>2, PTL DEF Spec
-----------------------------------------------------------------------------
LEMMA InitPassInv == Init => PassInv
BY NoChangeType, DeployRepoAssumption
   DEF Init, PassInv, TypeOK, Steps, Results, Item, Service, WellFormed, NoChange,
       Carry, Fresh, BuiltAnswered, ReloadAnswered, StatusHonest, MayForget, Pending

\* A pass leaves something to build only for an item whose debt is on record.
LEMMA PassInvStep == PassInv /\ TypeOK' /\ [Next]_vars => PassInv'
<1> SUFFICES ASSUME PassInv, TypeOK', [Next]_vars PROVE PassInv'
  OBVIOUS
<1> USE DeployRepoAssumption
<1> USE DEF PassInv, BuiltAnswered, ReloadAnswered, StatusHonest, MayForget, Pending,
            Carry, Fresh
<1> USE DEF Fault, FaultIf
<1>t. /\ stale \subseteq Item /\ excused \subseteq Item /\ attempts \in Nat
      /\ missing \subseteq Pinned /\ toBuild \subseteq Service /\ toPull \subseteq Pinned
      /\ stale' \subseteq Item /\ excused' \subseteq Item /\ attempts' \in Nat
      /\ toBuild' \subseteq Service /\ pc \in Steps /\ rc \in Results
      /\ upstream \in Change /\ carried \in Change /\ diff \in Change
  BY DEF TypeOK
<1>n. WellFormed(NoChange) /\ NoChange.items = {} /\ ~NoChange.any
  BY DEF WellFormed, NoChange
<1> USE <1>n
<1>1. CASE Push
  <2>1. PICK c \in Commit : upstream' = Join(upstream, c)
    BY <1>1 DEF Push
  <2>2. c \in Change /\ WellFormed(c)
    BY <2>1 DEF Commit, WellFormed
  <2>3. WellFormed(upstream')
    BY <2>1, <2>2, JoinWellFormed, <1>t
  <2> QED
    BY <1>1, <2>3 DEF Push, images, pass
<1>2. CASE Start
  BY <1>2 DEF Start, world, images, pass
<1>3. CASE Pull
  <2>1. WellFormed(Join(carried, upstream))
    BY JoinWellFormed, <1>t
  <2>2. Join(carried, upstream).items = carried.items \union upstream.items
    BY DEF Join
  <2>3. WellFormed(upstream') /\ WellFormed(carried') /\ WellFormed(diff') /\ Carry' /\ Fresh'
    BY <1>3, <2>1 DEF Pull
  <2>4. BuiltAnswered' /\ ReloadAnswered' /\ StatusHonest'
    BY <1>3, <2>2 DEF Pull
  <2> QED
    BY <2>3, <2>4
<1>4. CASE Restart
  BY <1>4, <1>t DEF Restart, world, pass, Item
<1>5. CASE Plan
  <2>1. WellFormed(upstream') /\ WellFormed(carried') /\ WellFormed(diff') /\ Carry' /\ Fresh'
    BY <1>5 DEF Plan, world
  <2>2. diff.items \intersect Built \subseteq PlanBuild
    BY DEF PlanBuild, WellFormed
  <2>3. Retry => PlanBuild = Built
    BY DEF PlanBuild
  <2>4. BuiltAnswered'
    BY <1>5, <2>2, <2>3, <1>t DEF Plan, images, Retry, WellFormed
  <2> QED
    BY <1>5, <2>1, <2>4 DEF Plan, images
<1>6. CASE PullImages
  BY <1>6 DEF PullImages, world
<1>7. CASE BuildImages
  BY <1>7, <1>t DEF BuildImages, world, pass, Service
<1>8. CASE Up
  BY <1>8, <1>t DEF Up, ForgetFailure, world, Item
<1>9. CASE EnsureNothing
  BY <1>9, <1>t DEF EnsureNothing, ForgetFailure, world, Item
<1>10. CASE EnsureUnchanged
  BY <1>10 DEF EnsureUnchanged, world
<1>11. CASE Report
  BY <1>11, <1>t DEF Report, EndPass, RunOver, world, images
<1>12. CASE NotConfigured
  BY <1>12 DEF NotConfigured, world, images
<1>13. CASE PullFails
  BY <1>13 DEF PullFails, world
<1>14. CASE PlanUnreadable
  BY <1>14, <1>t DEF PlanUnreadable, world, images, Service
<1>15. CASE BuildFails
  BY <1>15, <1>t DEF BuildFails, world, Service
<1>16. CASE UpFails
  BY <1>16, <1>t DEF UpFails, world
<1>17. CASE EnsureFails
  BY <1>17, <1>t DEF EnsureFails, world
<1>18. CASE Kill
  BY <1>18, <1>t DEF Kill, EndPass, RunOver, world, images
<1>19. CASE UNCHANGED vars
  BY <1>19 DEF vars, world, images, pass
<1> QED
  BY <1>1, <1>2, <1>3, <1>4, <1>5, <1>6, <1>7, <1>8, <1>9, <1>10, <1>11, <1>12,
     <1>13, <1>14, <1>15, <1>16, <1>17, <1>18, <1>19 DEF Next, PassStep, FaultStep

LEMMA PassInvariant == Spec => []PassInv
<1>1. Init => PassInv
  BY InitPassInv
<1>2. PassInv /\ TypeOK' /\ [Next]_vars => PassInv'
  BY PassInvStep
<1> QED
  BY <1>1, <1>2, TypeCorrect, PTL DEF Spec

\* Whatever the services, the bounds and the faults: between passes an item
\* behind its source is on the books, or was dropped where the code drops one.
THEOREM NothingIsForgotten == Spec => []NothingForgotten
<1>1. PassInv => NothingForgotten
  BY DEF PassInv, BuiltAnswered, ReloadAnswered, NothingForgotten, Pending, MayForget,
         TypeOK, Item
<1> QED
  BY <1>1, PassInvariant, PTL

\* A pass reported as "changed" has brought every container up to date.
THEOREM ReportsAreHonest == Spec => []StatusHonest
<1>1. PassInv => StatusHonest
  BY DEF PassInv
<1> QED
  BY <1>1, PassInvariant, PTL
-----------------------------------------------------------------------------
\* A push not yet turned into a build: waiting upstream, or held by this pass.
Waiting == IF upstream.any THEN 1 ELSE 0
Held == IF pc \in {"pull", "report"} THEN IF carried.any THEN 1 ELSE 0
        ELSE IF pc # "idle" /\ diff.any THEN 1 ELSE 0

\* Each failure past the retries is paid for by a push; a failure at all takes
\* one push that is neither waiting nor held.
CreditInv ==
    /\ Waiting + Held <= pushes
    /\ attempts + Waiting + Held <= BUILD_RETRIES + pushes
    /\ attempts > 0 => 1 + Waiting + Held <= pushes
    /\ pc \in {"images", "build", "up"} => diff.any \/ Retry

LEMMA InitCredit == Init => CreditInv
BY DeployRepoAssumption DEF Init, CreditInv, Waiting, Held, NoChange

LEMMA CreditStep == CreditInv /\ TypeOK /\ PassInv /\ [Next]_vars => CreditInv'
<1> SUFFICES ASSUME CreditInv, TypeOK, PassInv, [Next]_vars PROVE CreditInv'
  OBVIOUS
<1> USE DeployRepoAssumption DEF CreditInv, Waiting, Held, Retry
<1>t. /\ attempts \in Nat /\ pushes \in Nat /\ pc \in Steps
      /\ upstream \in Change /\ carried \in Change /\ diff \in Change
      /\ upstream.any \in BOOLEAN /\ carried.any \in BOOLEAN /\ diff.any \in BOOLEAN
      /\ ~NoChange.any /\ (pc \notin {"pull", "report"} \/ rc = "changed" => carried = NoChange)
  BY DEF TypeOK, Change, NoChange, PassInv, Carry
<1> USE <1>t
<1>1. CASE Push
  BY <1>1 DEF Push, Join, images, pass
<1>2. CASE Start
  BY <1>2 DEF Start, world, images, pass
<1>3. CASE Pull
  BY <1>3 DEF Pull, Join
<1>4. CASE Restart
  BY <1>4 DEF Restart, world, pass
<1>5. CASE Plan
  BY <1>5 DEF Plan, world, images
<1>6. CASE PullImages
  BY <1>6 DEF PullImages, world
<1>7. CASE BuildImages
  BY <1>7 DEF BuildImages, world, pass
<1>8. CASE Up
  BY <1>8 DEF Up, ForgetFailure, world
<1>9. CASE EnsureNothing
  BY <1>9 DEF EnsureNothing, ForgetFailure, world
<1>10. CASE EnsureUnchanged
  BY <1>10 DEF EnsureUnchanged, world
<1>11. CASE Report
  BY <1>11 DEF Report, EndPass, RunOver, world, images
<1>12. CASE NotConfigured
  BY <1>12 DEF NotConfigured, world, images
<1>13. CASE PullFails
  BY <1>13 DEF PullFails, world
<1>14. CASE PlanUnreadable
  BY <1>14 DEF PlanUnreadable, world, images
<1>15. CASE BuildFails
  BY <1>15 DEF BuildFails, world
<1>16. CASE UpFails
  BY <1>16 DEF UpFails, world
<1>17. CASE EnsureFails
  BY <1>17 DEF EnsureFails, world
<1>18. CASE Kill
  BY <1>18 DEF Kill, EndPass, RunOver, world, images
<1>19. CASE UNCHANGED vars
  BY <1>19 DEF vars, world, images, pass
<1> QED
  BY <1>1, <1>2, <1>3, <1>4, <1>5, <1>6, <1>7, <1>8, <1>9, <1>10, <1>11, <1>12,
     <1>13, <1>14, <1>15, <1>16, <1>17, <1>18, <1>19 DEF Next, PassStep, FaultStep

\* However long it runs, the script burns at most BUILD_RETRIES failing builds
\* beyond those that pushes asked for.
THEOREM AttemptsAreBounded == Spec => []AttemptsBounded
<1>1. CreditInv /\ TypeOK => AttemptsBounded
  BY DeployRepoAssumption DEF CreditInv, TypeOK, AttemptsBounded, Waiting, Held
<1> QED
  BY <1>1, InitCredit, CreditStep, TypeCorrect, PassInvariant, PTL DEF Spec
=============================================================================
