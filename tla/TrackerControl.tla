--------------------------- MODULE TrackerControl ---------------------------
(***************************************************************************)
(* The ratio control of services/tracker-control (control.go, the loop of  *)
(* main.go): every half hour it reads the account, and moves four things   *)
(* other services keep from the tier the headroom falls in.  The grabber   *)
(* of autobrr is also paused while the disk is full, with a margin before  *)
(* it resumes; finished torrents are held by a tag, within a budget that   *)
(* shrinks with the disk.  Nothing is remembered between passes: what is   *)
(* in place is read back, and any call may fail.                           *)
(* One tracker with tiers.  A service's compare and write is one step: the *)
(* write puts down the same value whatever happened since the comparison.  *)
(***************************************************************************)
EXTENDS Integers, SequencesExt, FiniteSetsExt

CONSTANTS
    Tiers,         \* sequence of [below, grabs, freeleech], config/trackers/rules.json
    NoCeiling,     \* "headroom_gb_below": null
    None,          \* nothing read
    Headrooms,     \* values the account's headroom takes
    Spaces,        \* values the free space takes, in units of 50 GB
    Floor,         \* min_free_gb
    Earning,       \* the finished torrents, best earner first
    Size,          \* size of each
    HoldFloor,     \* bonus_hold.free_gb_floor
    HoldMax,       \* bonus_hold.max_hold_gb
    MaxMoves,      \* bound: changes of the headroom, the disk or the site
    MaxHands,      \* bound: knobs a person turns
    MaxRestarts,   \* bound: restarts of the service
    MaxFaults      \* bound: calls that fail or whose answer is lost

ASSUME TrackerControlAssumption ==
    /\ Spaces \subseteq Nat /\ 0 \in Spaces /\ Headrooms \subseteq Nat
    /\ Floor \in Nat /\ HoldFloor \in Nat /\ HoldMax \in Nat
    /\ Earning \in Seq(ToSet(Earning)) /\ Size \in [ToSet(Earning) -> Nat]
    /\ \A i, j \in DOMAIN Earning : Earning[i] = Earning[j] => i = j
    /\ MaxMoves \in Nat /\ MaxHands \in Nat /\ MaxRestarts \in Nat /\ MaxFaults \in Nat

VARIABLES
    headroom, space, readable,  \* the account, the disk, and whether the site answers
    filter,      \* autobrr's filter: switched on, and grabs a day
    knob,        \* freeleech only in Prowlarr and Radarr, indexer on in Sonarr
    held,        \* torrents with the tag keep-bonus
    pc,
    heard,       \* the tier of this pass's reading
    add, drop,   \* tags this pass is about to change
    room,        \* this pass's verdict on the disk
    published,   \* what the metrics say of the tier since the last pass
    seen,        \* history: free space this pass's verdict went by
    found,       \* history: free space there was when the hold was reckoned
    aside,       \* history: what failed in this pass, and what a person turned
    moves, hands, restarts, faults

world == <<headroom, space, readable>>
knobs == <<filter, knob, held>>
pass == <<heard, add, drop, room, published, seen, found>>
counts == <<moves, hands, restarts, faults>>
vars == <<world, knobs, pc, pass, aside, counts>>

Torrent == ToSet(Earning)
Margin == 1     \* the 50 GB a paused grabber waits for on top of the floor
Knob == {"prowlarr", "radarr", "sonarr"}

Init ==
    /\ headroom \in Headrooms /\ space \in Spaces /\ readable = TRUE
    /\ filter = [on |-> TRUE, rate |-> 0] /\ knob = [k \in Knob |-> FALSE] /\ held = {}
    /\ pc = "read" /\ heard = None /\ add = {} /\ drop = {} /\ room = TRUE
    /\ published = None /\ seen = 0 /\ found = 0 /\ aside = {}
    /\ moves = 0 /\ hands = 0 /\ restarts = 0 /\ faults = 0
-----------------------------------------------------------------------------
\* tierFor: the first tier whose ceiling the headroom is under.
TierFor(h) ==
    LET fits == {i \in DOMAIN Tiers : Tiers[i].below = NoCeiling \/ h < Tiers[i].below}
    IN  IF fits = {} THEN None ELSE Tiers[Min(fits)]

\* Mutant: the hold is of the whole budget, however full the disk is.
BudgetWhole(free) == HoldMax

\* Below its floor the hold's budget shrinks by exactly what is missing.
Budget(free) ==
    LET missing == Max({HoldFloor - free, 0}) IN Max({HoldMax - missing, 0})

\* What the torrents of S weigh, by going over them all.
Total(S) ==
    LET weight[i \in 0 .. Len(Earning)] ==
            IF i = 0 THEN 0
            ELSE weight[i - 1] + IF Earning[i] \in S THEN Size[Earning[i]] ELSE 0
    IN  weight[Len(Earning)]

\* The best earners that fit, passing over the ones that do not.
Hold(budget) ==
    LET wanted[i \in 0 .. Len(Earning)] ==
            IF i = 0 THEN [those |-> {}, total |-> 0]
            ELSE LET before == wanted[i - 1]
                     total == before.total + Size[Earning[i]]
                 IN  IF total <= budget
                       THEN [those |-> before.those \cup {Earning[i]}, total |-> total]
                       ELSE before
    IN  wanted[Len(Earning)].those

\* A call fails, which keeps the pass from what its marks say.
Fault(marks) ==
    /\ faults < MaxFaults
    /\ faults' = faults + 1
    /\ aside' = aside \cup marks
    /\ UNCHANGED <<moves, hands, restarts>>

NoFault == UNCHANGED <<aside, counts>>
-----------------------------------------------------------------------------
\* The account, the disk and the site move by themselves.
Move ==
    /\ moves < MaxMoves
    /\ moves' = moves + 1
    /\ \/ headroom' \in Headrooms /\ UNCHANGED <<space, readable>>
       \/ space' \in Spaces /\ UNCHANGED <<headroom, readable>>
       \/ readable' = ~readable /\ UNCHANGED <<headroom, space>>
    /\ UNCHANGED <<knobs, pc, pass, aside, hands, restarts, faults>>

\* A person turns a knob, in the page of the service that has it.
Hand ==
    /\ hands < MaxHands
    /\ hands' = hands + 1
    /\ \/ /\ \/ filter' = [filter EXCEPT !.on = ~@]
             \/ filter' = [filter EXCEPT !.rate = 0]
          /\ aside' = aside \cup {"rate"}
                            \cup IF pc \in Knob \cup {"rate"} THEN {"crossed"} ELSE {}
          /\ UNCHANGED <<knob, held>>
       \/ \E k \in Knob : /\ knob' = [knob EXCEPT ![k] = ~@]
                         /\ aside' = aside \cup {k}
                         /\ UNCHANGED <<filter, held>>
       \/ \E t \in Torrent : /\ held' = held \ {t}
                            /\ aside' = aside \cup {"add"}
                            /\ UNCHANGED <<filter, knob>>
    /\ UNCHANGED <<world, pc, pass, moves, restarts, faults>>
-----------------------------------------------------------------------------
\* read: the account's page, and the tier its headroom falls in.  (A pass whose
\* rules cannot be loaded does nothing at all.)
Read ==
    /\ pc = "read"
    /\ heard' = IF readable THEN TierFor(headroom) ELSE None
    /\ aside' = {}
    /\ pc' = "list"
    /\ UNCHANGED <<world, knobs, add, drop, room, published, seen, found, counts>>

ReadFails ==
    /\ pc = "read"
    /\ faults < MaxFaults
    /\ faults' = faults + 1
    /\ heard' = None /\ aside' = {}
    /\ pc' = "list"
    /\ UNCHANGED <<world, knobs, add, drop, room, published, seen, found, moves, hands, restarts>>

\* qbitTorrents and the reckoning of bonusHold: which tags change, with this
\* much space.
Reckon(free) ==
    /\ add' = Hold(Budget(free)) \ held
    /\ drop' = held \ Hold(Budget(free))
    /\ found' = space

List ==
    /\ pc = "list"
    /\ Reckon(space)
    /\ pc' = "add"
    /\ NoFault
    /\ UNCHANGED <<world, knobs, heard, room, published, seen>>

\* qBittorrent cannot be asked, and no tag changes; or the disk cannot, and
\* there is no room for any.
ListFails ==
    /\ pc = "list"
    /\ \/ add' = {} /\ drop' = {} /\ UNCHANGED found /\ Fault({"unlisted"})
       \/ Reckon(0) /\ Fault({"add"})
    /\ pc' = "add"
    /\ UNCHANGED <<world, knobs, heard, room, published, seen>>

\* A tracker that could not be read ends the pass here, with nothing published.
AfterTag ==
    /\ pc' = IF pc = "add" THEN "drop" ELSE IF heard = None THEN "sleep" ELSE "look"
    /\ published' = IF pc' = "sleep" THEN None ELSE published

\* addTags and removeTags, one call each, and none for an empty list.
Tagged == IF pc = "add" THEN held \cup add ELSE held \ drop

Tag ==
    /\ pc \in {"add", "drop"}
    /\ held' = Tagged
    /\ AfterTag
    /\ NoFault
    /\ UNCHANGED <<world, filter, knob, heard, add, drop, room, seen, found>>

TagFails ==
    /\ pc \in {"add", "drop"}
    /\ (IF pc = "add" THEN add ELSE drop) # {}
    /\ held' \in {held, Tagged}
    /\ AfterTag
    /\ Fault({pc})
    /\ UNCHANGED <<world, filter, knob, heard, add, drop, room, seen, found>>
-----------------------------------------------------------------------------
\* Mutant: it resumes at the floor.
VerdictAtFloor(free, paused) ==
    /\ seen' = free
    /\ room' = (free >= Floor)

\* Mutant: what is paused is no reason to look again.
VerdictForGood(free, paused) ==
    /\ seen' = free
    /\ room' = (free >= Floor /\ ~paused)

\* Hysteresis: a paused grabber waits for the margin too.
Verdict(free, paused) ==
    /\ seen' = free
    /\ room' = (free >= Floor + IF paused THEN Margin ELSE 0)

Look ==
    /\ pc = "look"
    /\ Verdict(space, ~filter.on)
    /\ pc' = "prowlarr"
    /\ NoFault
    /\ UNCHANGED <<world, knobs, heard, add, drop, published, found>>

\* autobrr cannot be asked, and the grabber counts as running; or the disk
\* cannot, and reads as full.
LookFails ==
    /\ pc = "look"
    /\ \/ Verdict(space, FALSE) /\ Fault({"unread"})
       \/ Verdict(0, ~filter.on) /\ Fault({})
    /\ pc' = "prowlarr"
    /\ UNCHANGED <<world, knobs, heard, add, drop, published, found>>

After(k) == CASE k = "prowlarr" -> "radarr" [] k = "radarr" -> "sonarr" [] OTHER -> "rate"

\* Sonarr keeps the indexer at every tier: Prowlarr does the filtering.
Want(k) == k = "sonarr" \/ heard.freeleech

\* setProwlarrFreeleech, setRequiredFlags, setIndexerEnabled.
Turn ==
    /\ pc \in Knob
    /\ knob' = [knob EXCEPT ![pc] = Want(pc)]
    /\ pc' = After(pc)
    /\ NoFault
    /\ UNCHANGED <<world, filter, held, pass>>

\* The call is not applied, or is and its answer is lost.
TurnFails ==
    /\ pc \in Knob
    /\ knob' \in {knob, [knob EXCEPT ![pc] = Want(pc)]}
    /\ pc' = After(pc)
    /\ Fault({pc})
    /\ UNCHANGED <<world, filter, held, pass>>

\* Mutant: only the rate is compared with what is in place.
RatedByRate ==
    IF heard.grabs > 0 /\ filter.rate # heard.grabs
    THEN [on |-> room, rate |-> heard.grabs] ELSE filter

\* setGrabRate, which a tier without grabs does not reach.
Rated == IF heard.grabs > 0 THEN [on |-> room, rate |-> heard.grabs] ELSE filter

Publish ==
    /\ pc' = "sleep"
    /\ published' = [paused |-> ~room, grabs |-> IF room THEN heard.grabs ELSE 0,
                     freeleech |-> heard.freeleech]

Rate ==
    /\ pc = "rate"
    /\ filter' = Rated
    /\ Publish
    /\ NoFault
    /\ UNCHANGED <<world, knob, held, heard, add, drop, room, seen, found>>

RateFails ==
    /\ pc = "rate"
    /\ filter' \in {filter, Rated}
    /\ Publish
    /\ Fault({"rate"})
    /\ UNCHANGED <<world, knob, held, heard, add, drop, room, seen, found>>

\* The pass's own variables are gone with it.
Forget ==
    /\ pc' = "read"
    /\ heard' = None /\ add' = {} /\ drop' = {} /\ room' = TRUE /\ seen' = 0 /\ found' = 0

\* Half an hour later.
Wake ==
    /\ pc = "sleep"
    /\ Forget
    /\ NoFault
    /\ UNCHANGED <<world, knobs, published>>

\* The container restarts, wherever it was.
Restart ==
    /\ restarts < MaxRestarts
    /\ restarts' = restarts + 1
    /\ Forget /\ published' = None
    /\ UNCHANGED <<world, knobs, aside, moves, hands, faults>>

Step == Read \/ List \/ Tag \/ Look \/ Turn \/ Rate \/ Wake

Next == \/ Move \/ Hand \/ Restart
        \/ Step
        \/ ReadFails \/ ListFails \/ TagFails \/ LookFails \/ TurnFails \/ RateFails

Spec == Init /\ [][Next]_vars

\* loop runs for ever, and every call it makes ends within the client's timeout.
FairSpec == Spec /\ WF_vars(Step)
-----------------------------------------------------------------------------
\* "Below min_free_gb the grabber is paused, with 50 GB of hysteresis": the
\* service resumes a paused grabber only when the pass found the margin on top
\* of the floor, unless it could not read that it was paused, or a person
\* paused it after the pass had looked.
ResumesWithMargin ==
    [][~filter.on /\ filter'.on /\ hands' = hands
       => seen >= Floor + Margin \/ aside \cap {"unread", "crossed"} # {}]_vars

\* What the pass publishes of the tier is what each service is set to whose own
\* call did not fail and that nobody turned meanwhile, whatever else failed on the
\* way.  (A tier without grabs leaves autobrr as it is, whatever is published.)
PublishedIsTrue ==
    pc = "sleep" /\ published # None =>
        /\ \A k \in Knob \ aside : knob[k] = (k = "sonarr" \/ published.freeleech)
        /\ heard.grabs > 0 /\ "rate" \notin aside =>
             /\ published.paused <=> ~filter.on
             /\ published.grabs = IF filter.on THEN filter.rate ELSE 0

\* "bonus_hold": the hold weighs HoldMax at most, and below HoldFloor as much
\* less as the disk is short of it.
Allowed(weight, free) ==
    \/ weight = 0
    \/ weight <= HoldMax /\ weight + HoldFloor <= HoldMax + free

\* Once the tag calls are over what is held is allowed by the disk the pass found,
\* unless the call that drops failed; and no torrent left out would have been
\* allowed too, unless the call that adds failed, the disk could not be read or a
\* person took a tag off.  A failed call leaves the other half as promised.
HoldIsFull ==
    pc \notin {"read", "list", "add", "drop"} /\ "unlisted" \notin aside =>
        /\ "drop" \notin aside => Allowed(Total(held), found)
        /\ "add" \notin aside =>
             \A t \in Torrent \ held : ~Allowed(Total(held) + Size[t], found)

\* Every knob where the tier and the disk say; between the floor and the margin
\* the grabber stays as it was.
Settled ==
    LET tier == TierFor(headroom)
    IN  /\ knob = [k \in Knob |-> k = "sonarr" \/ tier.freeleech]
        /\ filter.rate = tier.grabs
        /\ (filter.on => space >= Floor) /\ (space >= Floor + Margin => filter.on)
        /\ held = Hold(Budget(space))

\* Whatever failed, moved or was turned by hand, the knobs end up where the tier
\* says once the site can be read.
KnobsSettle == <>[]readable => <>[]Settled

\* docs/private-trackers.md: "Below min_free_gb (400 GB) the grabber is paused
\* whatever the ratio says".
PausedWhenFull == <>[](space < Floor) => <>[](~filter.on)
=============================================================================
