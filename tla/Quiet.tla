------------------------------- MODULE Quiet -------------------------------
(***************************************************************************)
(* Quiet while watching (services/tracker-control/quiet.go): qBittorrent   *)
(* is put on its alternative limits, the turtle of its web UI, while       *)
(* something plays on Jellyfin, and taken off them two minutes after.  The *)
(* service remembers in memory that the limits are its own, and can only   *)
(* toggle them; a person has the same switch.                              *)
(***************************************************************************)
EXTENDS Naturals

CONSTANTS
    Linger,       \* quietLinger, in looks: four of thirty seconds
    MaxPlays,     \* bound: times something starts or stops playing
    MaxHand,      \* bound: times a person flips the turtle
    MaxRestarts,  \* bound: restarts of the service
    MaxLost,      \* bound: toggles applied whose answer is lost
    MaxFailures   \* bound: calls that fail

VARIABLES
    playing,   \* something plays on Jellyfin
    turtle,    \* qBittorrent is on its alternative limits
    quietOn,   \* the limits are on because of playback, in memory
    age,       \* looks since the last one that saw something play
    pc,        \* where quietStep is
    want, on,  \* its two readings
    setBy,     \* history: who turned the turtle on last
    crossed,   \* history: a person flipped the turtle over the service's own
               \* limits, or between its reading and its toggle
    plays, hands, restarts, lost, failures

mind == <<quietOn, age, pc, want, on>>
counts == <<plays, hands, restarts, lost, failures>>
history == <<setBy, crossed>>
vars == <<playing, turtle, mind, history, counts>>

Init ==
    /\ playing \in BOOLEAN /\ turtle \in BOOLEAN
    /\ quietOn = FALSE /\ age = Linger
    /\ pc = "look" /\ want = FALSE /\ on = FALSE
    /\ setBy = "hand" /\ crossed = FALSE
    /\ plays = 0 /\ hands = 0 /\ restarts = 0 /\ lost = 0 /\ failures = 0

Older(n) == IF n < Linger THEN n + 1 ELSE n
-----------------------------------------------------------------------------
Plays ==
    /\ plays < MaxPlays
    /\ plays' = plays + 1
    /\ playing' = ~playing
    /\ UNCHANGED <<turtle, mind, history, hands, restarts, lost, failures>>

\* A person flips the turtle in qBittorrent's web UI.
Hand ==
    /\ hands < MaxHand
    /\ hands' = hands + 1
    /\ turtle' = ~turtle
    /\ setBy' = IF turtle THEN setBy ELSE "hand"
    /\ crossed' = (crossed \/ quietOn \/ pc = "toggle")
    /\ UNCHANGED <<playing, mind, plays, restarts, lost, failures>>
-----------------------------------------------------------------------------
\* Every thirty seconds: jellyfinPlaying, and whether it was a short while ago.
Look ==
    /\ pc = "look"
    /\ age' = IF playing THEN 0 ELSE Older(age)
    /\ want' = (age' < Linger)
    /\ pc' = "mode"
    /\ UNCHANGED <<playing, turtle, quietOn, on, setBy, crossed, counts>>

\* Jellyfin or qBittorrent cannot be asked: nothing is done, and time goes by.
Unread ==
    /\ failures < MaxFailures
    /\ pc \in {"look", "mode"}
    /\ failures' = failures + 1
    /\ age' = IF pc = "look" THEN Older(age) ELSE age
    /\ pc' = "look"
    /\ UNCHANGED <<playing, turtle, quietOn, want, on, history,
                   plays, hands, restarts, lost>>

\* Mutant: a turtle that is on when it should not be is lifted, whoever set it.
ModeLiftsAll ==
    /\ pc = "mode"
    /\ on' = turtle
    /\ pc' = IF want # turtle THEN "toggle" ELSE "look"
    /\ quietOn' = (quietOn /\ (want \/ turtle))
    /\ UNCHANGED <<playing, turtle, age, want, history, counts>>

\* Mutant: limits of its own are kept until somebody lifts them.
ModeNeverLifts ==
    /\ pc = "mode"
    /\ on' = turtle
    /\ pc' = IF want /\ ~turtle THEN "toggle" ELSE "look"
    /\ quietOn' = (quietOn /\ (want \/ turtle))
    /\ UNCHANGED <<playing, turtle, age, want, history, counts>>

\* Mutant: limits of its own, which somebody may have lifted, are not put back.
ModeOnlyOnce ==
    /\ pc = "mode"
    /\ on' = turtle
    /\ pc' = IF (want /\ ~turtle /\ ~quietOn) \/ (~want /\ turtle /\ quietOn)
               THEN "toggle" ELSE "look"
    /\ quietOn' = (quietOn /\ (want \/ turtle))
    /\ UNCHANGED <<playing, turtle, age, want, history, counts>>

\* qbitAltLimits, and the switch on it: put them on, lift its own, or note that
\* they are off.
Mode ==
    /\ pc = "mode"
    /\ on' = turtle
    /\ pc' = IF (want /\ ~turtle) \/ (~want /\ turtle /\ quietOn) THEN "toggle" ELSE "look"
    /\ quietOn' = (quietOn /\ (want \/ turtle))
    /\ UNCHANGED <<playing, turtle, age, want, history, counts>>

\* The toggle reaches qBittorrent, which flips whatever is there now.
Flip ==
    /\ turtle' = ~turtle
    /\ setBy' = IF turtle THEN setBy ELSE "quiet"

Toggle ==
    /\ pc = "toggle"
    /\ Flip
    /\ quietOn' = want
    /\ pc' = "look"
    /\ UNCHANGED <<playing, age, want, on, crossed, counts>>

\* Applied, with the answer lost.
ToggleUnanswered ==
    /\ lost < MaxLost
    /\ pc = "toggle"
    /\ Flip
    /\ lost' = lost + 1
    /\ pc' = "look"
    /\ UNCHANGED <<playing, quietOn, age, want, on, crossed,
                   plays, hands, restarts, failures>>

\* Not applied.
ToggleFails ==
    /\ failures < MaxFailures
    /\ pc = "toggle"
    /\ failures' = failures + 1
    /\ pc' = "look"
    /\ UNCHANGED <<playing, turtle, quietOn, age, want, on, history,
                   plays, hands, restarts, lost>>

\* The container restarts; quietWhileWatching starts with nothing seen playing.
Restart ==
    /\ restarts < MaxRestarts
    /\ restarts' = restarts + 1
    /\ quietOn' = FALSE /\ age' = Linger /\ pc' = "look"
    /\ want' = FALSE /\ on' = FALSE
    /\ UNCHANGED <<playing, turtle, history, plays, hands, lost, failures>>

Step == Look \/ Mode \/ Toggle

Next == Plays \/ Hand \/ Step \/ Unread \/ ToggleUnanswered \/ ToggleFails \/ Restart

Spec == Init /\ [][Next]_vars

\* quietWhileWatching steps every thirty seconds, for ever.
FairSpec == Spec /\ WF_vars(Step)
-----------------------------------------------------------------------------
\* "It only lifts limits it set": a turtle turned on by hand is not turned off
\* by the service, unless a person crossed it: whatever restarts, fails, or is
\* answered too late.
HandKept ==
    [][turtle /\ setBy = "hand" /\ ~crossed /\ hands' = hands => turtle']_vars

\* While something goes on playing the limits end up on, whatever a person, a
\* lost answer or a restart did before.
QuietWhileWatching == <>[]playing => <>[]turtle

\* "Nothing has played for 2 minutes: it turns them off again": the limits the
\* service set do not outlive the playing.  A restart, a lost answer or a crossed
\* toggle makes it take them for a person's.
LimitsLifted ==
    <>[]~playing => <>[](turtle /\ setBy = "quiet" => crossed \/ restarts + lost > 0)
=============================================================================
