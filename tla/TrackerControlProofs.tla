------------------------ MODULE TrackerControlProofs ------------------------
(***************************************************************************)
(* For every table of tiers, floor, number of torrents and of failures:    *)
(* the hysteresis of the grabber (what a pass remembers of the disk covers *)
(* every step between its look at the grabber and its write), the knobs a  *)
(* pass publishes, and the hold of the torrents that earn the bonus.       *)
(***************************************************************************)
EXTENDS TrackerControl, SequenceLemmas, TLAPS

Steered == pc \in Knob \cup {"rate"}

\* While the knobs are being turned, a paused grabber the pass would resume has
\* the margin, or was not seen paused.
MarginInv ==
    /\ room \in BOOLEAN /\ hands \in Nat
    /\ Steered /\ ~filter.on /\ room =>
           seen >= Floor + Margin \/ aside \cap {"unread", "crossed"} # {}

\* A paused grabber gets room only with the margin.
LEMMA VerdictWaits ==
    ASSUME NEW free, Verdict(free, ~filter.on)
    PROVE  /\ room' \in BOOLEAN
           /\ ~filter.on /\ room' => seen' >= Floor + Margin
<1>1. seen' = free /\ room' = (free >= Floor + IF ~filter.on THEN Margin ELSE 0)
  BY DEF Verdict
<1>2. room' \in BOOLEAN
  BY <1>1
<1>3. ASSUME ~filter.on, room' PROVE seen' >= Floor + Margin
  <2>1. (IF ~filter.on THEN Margin ELSE 0) = Margin
    BY <1>3
  <2> QED
    BY <1>1, <1>3, <2>1
<1> QED
  BY <1>2, <1>3

LEMMA InitMargin == Init => MarginInv
  BY DEF Init, MarginInv, Steered, Knob

LEMMA NextMargin == MarginInv /\ [Next]_vars => MarginInv'
<1> SUFFICES ASSUME MarginInv, [Next]_vars PROVE MarginInv'
  OBVIOUS
<1> USE DEF MarginInv, Steered, Knob, counts, knobs, pass, NoFault, Fault
<1>1. CASE Move
  BY <1>1 DEF Move
<1>2. CASE Hand
  <2>1. Steered /\ filter' # filter => "crossed" \in aside'
    BY <1>2 DEF Hand
  <2>2. aside \subseteq aside'
    BY <1>2 DEF Hand
  <2> QED
    BY <1>2, <2>1, <2>2 DEF Hand
<1>3. CASE Restart
  BY <1>3 DEF Restart, Forget
<1>4. CASE Read \/ ReadFails
  BY <1>4 DEF Read, ReadFails
<1>5. CASE List \/ ListFails
  BY <1>5 DEF List, ListFails
<1>6. CASE Tag \/ TagFails
  BY <1>6 DEF Tag, TagFails, AfterTag
<1>7. CASE Look
  BY <1>7, VerdictWaits DEF Look
<1>8. CASE LookFails
  <2>1. CASE aside' = aside \cup {"unread"} /\ Verdict(space, FALSE)
    BY <1>8, <2>1 DEF LookFails, Verdict
  <2>2. CASE aside' = aside \cup {} /\ Verdict(0, ~filter.on)
    BY <1>8, <2>2, VerdictWaits DEF LookFails
  <2> QED
    BY <1>8, <2>1, <2>2 DEF LookFails
<1>9. CASE Turn \/ TurnFails
  BY <1>9 DEF Turn, TurnFails, After
<1>10. CASE Rate \/ RateFails
  BY <1>10 DEF Rate, RateFails, Publish
<1>11. CASE Wake
  BY <1>11 DEF Wake, Forget
<1>12. CASE UNCHANGED vars
  BY <1>12 DEF vars
<1> QED
  BY <1>1, <1>2, <1>3, <1>4, <1>5, <1>6, <1>7, <1>8, <1>9, <1>10, <1>11, <1>12 DEF Next, Step

\* Only autobrr's own page and the rate of a pass touch the filter.
LEMMA NextResumes ==
    MarginInv /\ [Next]_vars =>
        (~filter.on /\ filter'.on /\ hands' = hands
         => seen >= Floor + Margin \/ aside \cap {"unread", "crossed"} # {})
<1> SUFFICES ASSUME MarginInv, [Next]_vars, ~filter.on, filter'.on, hands' = hands
             PROVE  seen >= Floor + Margin \/ aside \cap {"unread", "crossed"} # {}
  OBVIOUS
<1>1. CASE Rate \/ RateFails
  <2>1. filter' \in {filter, Rated} /\ pc = "rate"
    BY <1>1 DEF Rate, RateFails
  <2>2. filter' = [on |-> room, rate |-> heard.grabs]
    BY <2>1 DEF Rated
  <2>3. room
    BY <2>2
  <2> QED
    BY <2>1, <2>3 DEF MarginInv, Steered
<1>2. ~(Rate \/ RateFails) => filter' = filter \/ hands' # hands
  <2>1. CASE Hand
    BY <2>1 DEF Hand, MarginInv
  <2> QED
    BY <2>1 DEF Next, Step, Move, Restart, Read, ReadFails, List, ListFails, Tag, TagFails,
                Look, LookFails, Turn, TurnFails, Wake, vars, knobs
<1> QED
  BY <1>1, <1>2

\* A paused grabber is resumed only with the margin on top of the floor, or by a
\* pass that did not see it paused: control.go's hysteresis, whatever fails,
\* restarts, moves or is turned by hand.
THEOREM ResumesWithMarginHolds == Spec => ResumesWithMargin
<1>1. Spec => []MarginInv
  BY InitMargin, NextMargin, PTL DEF Spec
<1> QED
  BY <1>1, NextResumes, PTL DEF Spec, ResumesWithMargin
-----------------------------------------------------------------------------
(***************************************************************************)
(* What the metrics say.  PublishedIsTrue is about the end of a pass; the  *)
(* knobs it speaks of were turned one call after another on the way there. *)
(***************************************************************************)
Turned(k) == k \notin aside => knob[k] = Want(k)

TurnedInv ==
    /\ pc \in {"radarr", "sonarr", "rate"} => Turned("prowlarr")
    /\ pc \in {"sonarr", "rate"} => Turned("radarr")
    /\ pc = "rate" => Turned("sonarr")

PublishInv ==
    /\ DOMAIN knob = Knob
    /\ TurnedInv
    /\ PublishedIsTrue

LEMMA InitPublish == Init => PublishInv
  BY DEF Init, PublishInv, PublishedIsTrue, TurnedInv, Knob

\* A step outside the turning of the knobs.
LEMMA ElsewhereHolds ==
    ASSUME PublishInv, UNCHANGED knob, pc' \notin Knob \cup {"rate"} \/ pc' = "prowlarr",
           pc' = "sleep" => published' = None
    PROVE  PublishInv'
  BY DEF PublishInv, PublishedIsTrue, TurnedInv, Knob

\* A call on the knob whose turn it is: done, or failed and marked.
LEMMA TurnHolds ==
    ASSUME PublishInv, pc \in Knob, pc' = After(pc), UNCHANGED heard,
           \/ knob' = [knob EXCEPT ![pc] = Want(pc)] /\ aside \subseteq aside'
           \/ knob' = knob /\ aside' = aside \cup {pc}
    PROVE  PublishInv'
<1>1. pc' # "sleep" /\ DOMAIN knob' = Knob
  BY DEF PublishInv, After, Knob
<1>2. \A k \in Knob : Want(k)' = Want(k)
  BY DEF Want
<1>3. \A k \in Knob : Turned(k) /\ k # pc => Turned(k)'
  BY <1>2 DEF Turned, PublishInv
<1>4. TurnedInv'
  <2>1. CASE pc = "prowlarr"
    <3>1. Turned("prowlarr")'
      BY <1>2, <2>1 DEF Turned, PublishInv, Knob
    <3> QED
      BY <2>1, <3>1 DEF TurnedInv, After
  <2>2. CASE pc = "radarr"
    <3>1. Turned("radarr")'
      BY <1>2, <2>2 DEF Turned, PublishInv, Knob
    <3>2. Turned("prowlarr")'
      BY <1>3, <2>2 DEF PublishInv, TurnedInv, Knob
    <3> QED
      BY <2>2, <3>1, <3>2 DEF TurnedInv, After
  <2>3. CASE pc = "sonarr"
    <3>1. Turned("sonarr")'
      BY <1>2, <2>3 DEF Turned, PublishInv, Knob
    <3>2. Turned("prowlarr")' /\ Turned("radarr")'
      BY <1>3, <2>3 DEF PublishInv, TurnedInv, Knob
    <3> QED
      BY <3>1, <3>2 DEF TurnedInv
  <2> QED
    BY <2>1, <2>2, <2>3 DEF Knob
<1> QED
  BY <1>1, <1>4 DEF PublishInv, PublishedIsTrue

LEMMA NextPublish == PublishInv /\ [Next]_vars => PublishInv'
<1> SUFFICES ASSUME PublishInv, [Next]_vars PROVE PublishInv'
  OBVIOUS
<1> USE DEF counts, knobs, pass, NoFault, Fault
<1>1. CASE Move
  BY <1>1 DEF Move, PublishInv, PublishedIsTrue, TurnedInv, Turned, Want
<1>2. CASE Hand
  <2>1. /\ aside \subseteq aside' /\ UNCHANGED <<pc, heard, published>>
        /\ filter' = filter \/ "rate" \in aside'
    BY <1>2 DEF Hand
  <2>2. DOMAIN knob' = Knob /\ \A k \in Knob : knob'[k] = knob[k] \/ k \in aside'
    <3>1. CASE UNCHANGED knob
      BY <3>1 DEF PublishInv
    <3>2. ASSUME NEW k \in Knob, knob' = [knob EXCEPT ![k] = ~@], aside' = aside \cup {k}
          PROVE  DOMAIN knob' = Knob /\ \A m \in Knob : knob'[m] = knob[m] \/ m \in aside'
      BY <3>2 DEF PublishInv
    <3> QED
      BY <1>2, <3>1, <3>2 DEF Hand
  <2>3. \A k \in Knob : Turned(k) => Turned(k)'
    BY <2>1, <2>2 DEF Turned, Want
  <2>4. TurnedInv'
    BY <2>1, <2>3 DEF PublishInv, TurnedInv, Knob
  <2>5. PublishedIsTrue'
    BY <2>1, <2>2 DEF PublishInv, PublishedIsTrue
  <2> QED
    BY <2>2, <2>4, <2>5 DEF PublishInv
<1>3. CASE Restart \/ Wake
  BY <1>3, ElsewhereHolds DEF Restart, Wake, Forget, Knob
<1>4. CASE Read \/ ReadFails
  BY <1>4, ElsewhereHolds DEF Read, ReadFails, Knob
<1>5. CASE List \/ ListFails
  BY <1>5, ElsewhereHolds DEF List, ListFails, Knob
<1>6. CASE Tag \/ TagFails
  BY <1>6, ElsewhereHolds DEF Tag, TagFails, AfterTag, Knob
<1>7. CASE Look \/ LookFails
  BY <1>7, ElsewhereHolds DEF Look, LookFails, Knob
<1>8. CASE Turn
  BY <1>8, TurnHolds DEF Turn
<1>9. CASE TurnFails
  <2>1. /\ pc \in Knob /\ pc' = After(pc) /\ UNCHANGED heard /\ aside' = aside \cup {pc}
        /\ knob' \in {knob, [knob EXCEPT ![pc] = Want(pc)]}
    BY <1>9 DEF TurnFails
  <2> QED
    BY <2>1, TurnHolds
<1>10. CASE Rate \/ RateFails
  <2>1. /\ pc = "rate" /\ pc' = "sleep" /\ UNCHANGED <<knob, heard>> /\ aside \subseteq aside'
        /\ filter' = Rated \/ "rate" \in aside'
        /\ published' = [paused |-> ~room, grabs |-> IF room THEN heard.grabs ELSE 0,
                         freeleech |-> heard.freeleech]
    BY <1>10 DEF Rate, RateFails, Publish
  <2>2. ASSUME NEW k \in Knob \ aside'
        PROVE  knob'[k] = (k = "sonarr" \/ published'.freeleech)
    <3>1. knob[k] = Want(k)
      BY <2>1, <2>2 DEF PublishInv, TurnedInv, Turned, Knob
    <3> QED
      BY <2>1, <3>1 DEF Want
  <2>3. ASSUME heard'.grabs > 0, "rate" \notin aside'
        PROVE  /\ published'.paused <=> ~filter'.on
               /\ published'.grabs = IF filter'.on THEN filter'.rate ELSE 0
    <3>1. filter' = Rated /\ heard.grabs > 0
      BY <2>1, <2>3
    <3>2. filter' = [on |-> room, rate |-> heard.grabs]
      BY <3>1 DEF Rated
    <3> HIDE DEF Rated
    <3> QED
      BY <2>1, <3>2
  <2>4. PublishedIsTrue'
    BY <2>1, <2>2, <2>3 DEF PublishedIsTrue
  <2> QED
    BY <2>1, <2>4 DEF PublishInv, TurnedInv
<1>11. CASE UNCHANGED vars
  BY <1>11 DEF vars, PublishInv, PublishedIsTrue, TurnedInv, Turned, Want
<1> QED
  BY <1>1, <1>2, <1>3, <1>4, <1>5, <1>6, <1>7, <1>8, <1>9, <1>10, <1>11 DEF Next, Step

\* For any tiers, moves and failing calls: what a pass published is what it left
\* each service set to whose own call went well and that nobody turned meanwhile.
THEOREM PublishedHolds == Spec => []PublishedIsTrue
<1>1. PublishInv => PublishedIsTrue
  BY DEF PublishInv
<1> QED
  BY <1>1, InitPublish, NextPublish, PTL DEF Spec
-----------------------------------------------------------------------------
(***************************************************************************)
(* The hold.  The loop of bonusHold goes over the torrents with a running  *)
(* total; Total weighs any set by a loop of its own.  HoldIsFull follows   *)
(* once the two totals are shown to run side by side.                      *)
(***************************************************************************)
\* The values of the loop of Hold: what is wanted after k torrents.
Wants(g, budget) ==
    /\ g \in [0 .. Len(Earning) -> [those : SUBSET Torrent, total : Nat]]
    /\ g[0] = [those |-> {}, total |-> 0]
    /\ \A k \in 1 .. Len(Earning) :
          g[k] = IF g[k - 1].total + Size[Earning[k]] <= budget
                   THEN [those |-> g[k - 1].those \cup {Earning[k]},
                         total |-> g[k - 1].total + Size[Earning[k]]]
                   ELSE g[k - 1]

\* The values of the loop of Total.
Weighs(g, S) ==
    /\ g \in [0 .. Len(Earning) -> Nat]
    /\ g[0] = 0
    /\ \A k \in 1 .. Len(Earning) :
          g[k] = g[k - 1] + IF Earning[k] \in S THEN Size[Earning[k]] ELSE 0

\* A torrent of the list, and its size.
LEMMA Listed ==
    /\ Len(Earning) \in Nat
    /\ \A k \in 1 .. Len(Earning) : Earning[k] \in Torrent /\ Size[Earning[k]] \in Nat
    /\ \A t \in Torrent : \E k \in 1 .. Len(Earning) : t = Earning[k]
    /\ \A i, j \in 1 .. Len(Earning) : Earning[i] = Earning[j] => i = j
  BY TrackerControlAssumption DEF Torrent, ToSet

\* Hold runs its loop.
LEMMA HoldRuns ==
    ASSUME NEW budget \in Nat
    PROVE  \E g : Wants(g, budget) /\ Hold(budget) = g[Len(Earning)].those
<1> DEFINE n == Len(Earning)
<1> DEFINE V == [those : SUBSET Torrent, total : Nat]
<1> DEFINE first == [those |-> {}, total |-> 0]
<1> DEFINE Next1(v, k) ==
        IF v.total + Size[Earning[k]] <= budget
          THEN [those |-> v.those \cup {Earning[k]}, total |-> v.total + Size[Earning[k]]]
          ELSE v
<1> DEFINE turn == [k \in 1 .. n |-> [v \in V |-> Next1(v, k)]]
<1> DEFINE Is(g) == g = [i \in 0 .. n |-> IF i = 0 THEN first ELSE Next1(g[i - 1], i)]
<1>1. n \in Nat BY Listed
<1>2. turn \in [1 .. n -> [V -> V]]
  <2>1. ASSUME NEW k \in 1 .. n, NEW v \in V PROVE Next1(v, k) \in V
    <3>1. Earning[k] \in Torrent /\ Size[Earning[k]] \in Nat BY Listed
    <3>2. v.those \in SUBSET Torrent /\ v.total \in Nat BY DEF V
    <3> QED BY <3>1, <3>2
  <2> HIDE DEF V, Next1
  <2> QED BY <2>1
<1>3. first \in V OBVIOUS
<1>4. PICK g : LoopValues(g, n, V, first, turn)
  <2> HIDE DEF n, V, first, turn
  <2> QED BY <1>1, <1>2, <1>3, LoopRuns
<1>5. /\ g \in [0 .. n -> V] /\ g[0] = first
      /\ \A k \in 1 .. n : g[k] = Next1(g[k - 1], k)
  <2>1. /\ g \in [0 .. n -> V] /\ g[0] = first
        /\ \A k \in 1 .. n : g[k] = turn[k][g[k - 1]]
    BY <1>4 DEF LoopValues
  <2>2. ASSUME NEW k \in 1 .. n PROVE turn[k][g[k - 1]] = Next1(g[k - 1], k)
    <3>1. g[k - 1] \in V
      <4>1. k - 1 \in 0 .. n BY <1>1
      <4> HIDE DEF n, V
      <4> QED BY <2>1, <4>1
    <3> HIDE DEF V, Next1
    <3> QED BY <3>1
  <2> HIDE DEF turn, Next1, V, first
  <2> QED BY <2>1, <2>2
<1>6. Is(g)
  <2> HIDE DEF Next1, first, V
  <2>1. ASSUME NEW i \in 0 .. n
        PROVE  g[i] = IF i = 0 THEN first ELSE Next1(g[i - 1], i)
    <3>1. i = 0 \/ i \in 1 .. n BY <1>1
    <3> QED BY <1>5, <3>1
  <2>2. DOMAIN g = 0 .. n BY <1>5
  <2> QED BY <1>5, <2>1, <2>2
<1> DEFINE f == CHOOSE h : Is(h)
<1>7. Is(f)
  <2> HIDE DEF Is
  <2> QED BY <1>6
<1>8. Hold(budget) = f[n].those BY Zenon DEF Hold
<1> HIDE DEF f
<1>9. f[n] = g[n]
  <2>1. f[0] = first
    <3> HIDE DEF first, Next1
    <3> QED BY <1>1, <1>7
  <2>2. \A k \in 1 .. n : f[k] = Next1(f[k - 1], k)
    <3>1. \A k \in 1 .. n : k \in 0 .. n /\ k # 0 BY <1>1
    <3> HIDE DEF n, Next1, first
    <3> QED BY <1>7, <3>1
  <2>3. \A k \in 1 .. n : f[k - 1] \in V => f[k] = turn[k][f[k - 1]]
    <3> HIDE DEF n, V, first, Next1
    <3> QED BY <2>2
  <2> HIDE DEF n, V, first, turn, Is, Next1
  <2>4. LoopTurns(f, n, V, first, turn) BY <2>1, <2>3 DEF LoopTurns
  <2> QED BY <1>1, <1>4, <2>4, LoopEnds
<1>10. Wants(g, budget)
  BY <1>5 DEF Wants
<1> QED BY <1>8, <1>9, <1>10

\* Total runs its loop.
LEMMA TotalRuns ==
    ASSUME NEW S
    PROVE  \E g : Weighs(g, S) /\ Total(S) = g[Len(Earning)]
<1> DEFINE n == Len(Earning)
<1> DEFINE Next1(v, k) == v + IF Earning[k] \in S THEN Size[Earning[k]] ELSE 0
<1> DEFINE turn == [k \in 1 .. n |-> [v \in Nat |-> Next1(v, k)]]
<1> DEFINE Is(g) == g = [i \in 0 .. n |-> IF i = 0 THEN 0 ELSE Next1(g[i - 1], i)]
<1>1. n \in Nat BY Listed
<1>2. turn \in [1 .. n -> [Nat -> Nat]]
  <2>1. ASSUME NEW k \in 1 .. n, NEW v \in Nat PROVE Next1(v, k) \in Nat
    <3>1. Size[Earning[k]] \in Nat BY Listed
    <3> QED BY <3>1
  <2> HIDE DEF Next1
  <2> QED BY <2>1
<1>3. 0 \in Nat OBVIOUS
<1>4. PICK g : LoopValues(g, n, Nat, 0, turn)
  <2> HIDE DEF n, turn
  <2> QED BY <1>1, <1>2, <1>3, LoopRuns
<1>5. /\ g \in [0 .. n -> Nat] /\ g[0] = 0
      /\ \A k \in 1 .. n : g[k] = Next1(g[k - 1], k)
  <2>1. /\ g \in [0 .. n -> Nat] /\ g[0] = 0
        /\ \A k \in 1 .. n : g[k] = turn[k][g[k - 1]]
    BY <1>4 DEF LoopValues
  <2>2. ASSUME NEW k \in 1 .. n PROVE turn[k][g[k - 1]] = Next1(g[k - 1], k)
    <3>1. g[k - 1] \in Nat
      <4>1. k - 1 \in 0 .. n BY <1>1
      <4> HIDE DEF n
      <4> QED BY <2>1, <4>1
    <3> HIDE DEF Next1
    <3> QED BY <3>1
  <2> HIDE DEF turn, Next1
  <2> QED BY <2>1, <2>2
<1>6. Is(g)
  <2> HIDE DEF Next1
  <2>1. ASSUME NEW i \in 0 .. n
        PROVE  g[i] = IF i = 0 THEN 0 ELSE Next1(g[i - 1], i)
    <3>1. i = 0 \/ i \in 1 .. n BY <1>1
    <3> QED BY <1>5, <3>1
  <2>2. DOMAIN g = 0 .. n BY <1>5
  <2> QED BY <1>5, <2>1, <2>2
<1> DEFINE f == CHOOSE h : Is(h)
<1>7. Is(f)
  <2> HIDE DEF Is
  <2> QED BY <1>6
<1>8. Total(S) = f[n] BY Zenon DEF Total
<1> HIDE DEF f
<1>9. f[n] = g[n]
  <2>1. f[0] = 0
    <3> HIDE DEF Next1
    <3> QED BY <1>1, <1>7
  <2>2. ASSUME NEW k \in 1 .. n, f[k - 1] \in Nat PROVE f[k] = turn[k][f[k - 1]]
    <3>1. k \in 0 .. n /\ k # 0 BY <1>1
    <3> HIDE DEF Next1
    <3>2. f[k] = Next1(f[k - 1], k) BY <1>7, <3>1
    <3> QED BY <2>2, <3>2
  <2> HIDE DEF n, turn
  <2>3. \A k \in 1 .. n : f[k - 1] \in Nat => f[k] = turn[k][f[k - 1]] BY <2>2
  <2>4. LoopTurns(f, n, Nat, 0, turn) BY <2>1, <2>3 DEF LoopTurns
  <2> QED BY <1>1, <1>4, <2>4, LoopEnds
<1>10. Weighs(g, S)
  BY <1>5 DEF Weighs
<1> QED BY <1>8, <1>9, <1>10

\* What is held weighs no more than the budget, and what is left out would have
\* weighed more with it: the running total is the weight, for each torrent is
\* gone over once.
LEMMA HoldFits ==
    ASSUME NEW budget \in Nat
    PROVE  /\ Hold(budget) \subseteq Torrent
           /\ Total(Hold(budget)) <= budget
           /\ \A t \in Torrent \ Hold(budget) : Total(Hold(budget)) + Size[t] > budget
<1> DEFINE n == Len(Earning)
<1>1. PICK g : Wants(g, budget) /\ Hold(budget) = g[n].those BY HoldRuns
<1>2. PICK H : H = g[n].those OBVIOUS
<1>3. PICK w : Weighs(w, H) /\ Total(H) = w[n] BY TotalRuns
<1>4. n \in Nat BY Listed
\* The loop only adds the torrent at hand.
<1> DEFINE At(k) == /\ g[k].total <= budget
                    /\ \A j \in 1 .. n : Earning[j] \in g[k].those => j <= k
<1>5. \A k \in 0 .. n : At(k)
  <2> DEFINE S == {k \in Nat : k <= n => At(k)}
  <2>1. 0 \in S BY <1>1, <1>4 DEF Wants
  <2>2. ASSUME NEW k \in Nat, k \in S PROVE k + 1 \in S
    <3> SUFFICES ASSUME k + 1 <= n PROVE At(k + 1)
      OBVIOUS
    <3>1. k + 1 \in 1 .. n /\ k \in 0 .. n /\ (k + 1) - 1 = k BY <1>4
    <3>2. At(k) BY <2>2, <3>1
    <3>3. g[k] \in [those : SUBSET Torrent, total : Nat] BY <1>1, <3>1 DEF Wants
    <3>4. CASE g[k].total + Size[Earning[k + 1]] <= budget
      <4>1. g[k + 1] = [those |-> g[k].those \cup {Earning[k + 1]},
                        total |-> g[k].total + Size[Earning[k + 1]]]
        BY <1>1, <3>1, <3>4 DEF Wants
      <4>2. \A j \in 1 .. n : Earning[j] = Earning[k + 1] => j = k + 1 BY <3>1, Listed
      <4>3. \A j \in 1 .. n : Earning[j] \in g[k + 1].those => j <= k + 1
        <5> SUFFICES ASSUME NEW j \in 1 .. n, Earning[j] \in g[k].those \cup {Earning[k + 1]}
                     PROVE  j <= k + 1
          BY <4>1
        <5>1. j <= k \/ j = k + 1 BY <3>2, <4>2
        <5> QED BY <1>4, <5>1
      <4> QED BY <3>4, <4>1, <4>3
    <3>5. CASE ~(g[k].total + Size[Earning[k + 1]] <= budget)
      <4>1. g[k + 1] = g[k] BY <1>1, <3>1, <3>5 DEF Wants
      <4>2. \A j \in 1 .. n : j <= k => j <= k + 1 BY <1>4
      <4> QED BY <3>2, <4>1, <4>2
    <3> QED BY <3>4, <3>5
  <2> HIDE DEF S
  <2>3. Nat \subseteq S BY <2>1, <2>2, SetInduction
  <2>4. \A k \in 0 .. n : k \in Nat /\ k <= n BY <1>4
  <2> QED BY <2>3, <2>4 DEF S
\* From a turn to the end, what is wanted and its total only grow.
<1>6. \A j \in 0 .. n : \A k \in j .. n :
          g[j].those \subseteq g[k].those /\ g[j].total <= g[k].total
  <2> SUFFICES ASSUME NEW j \in 0 .. n
               PROVE  \A k \in j .. n : g[j].those \subseteq g[k].those /\ g[j].total <= g[k].total
    OBVIOUS
  <2> DEFINE Up(k) == g[j].those \subseteq g[k].those /\ g[j].total <= g[k].total
  <2> DEFINE S == {k \in Nat : j <= k /\ k <= n => Up(k)}
  <2>0. \A k \in 0 .. n : g[k] \in [those : SUBSET Torrent, total : Nat] BY <1>1 DEF Wants
  <2>1. 0 \in S
    <3>1. j <= 0 => j = 0 BY <1>4
    <3>2. Up(j) BY <2>0
    <3> HIDE DEF Up
    <3> QED BY <3>1, <3>2
  <2>2. ASSUME NEW k \in Nat, k \in S PROVE k + 1 \in S
    <3> SUFFICES ASSUME j <= k + 1, k + 1 <= n PROVE Up(k + 1)
      OBVIOUS
    <3>1. k + 1 \in 1 .. n /\ k \in 0 .. n /\ (k + 1) - 1 = k /\ k + 1 \in 0 .. n BY <1>4
    <3>2. CASE j = k + 1 BY <2>0, <3>1, <3>2
    <3>3. CASE j # k + 1
      <4>1. Up(k) BY <1>4, <2>2, <3>1, <3>3
      <4>2. g[k] \in [those : SUBSET Torrent, total : Nat]
            /\ g[k + 1] \in [those : SUBSET Torrent, total : Nat]
            /\ g[j].total \in Nat BY <2>0, <3>1
      <4>3. Size[Earning[k + 1]] \in Nat BY <3>1, Listed
      <4>4. g[k].those \subseteq g[k + 1].those /\ g[k].total <= g[k + 1].total
        <5>1. CASE g[k].total + Size[Earning[k + 1]] <= budget
          <6>1. g[k + 1] = [those |-> g[k].those \cup {Earning[k + 1]},
                            total |-> g[k].total + Size[Earning[k + 1]]]
            BY <1>1, <3>1, <5>1 DEF Wants
          <6> QED BY <4>2, <4>3, <6>1
        <5>2. CASE ~(g[k].total + Size[Earning[k + 1]] <= budget)
          <6>1. g[k + 1] = g[k] BY <1>1, <3>1, <5>2 DEF Wants
          <6> QED BY <4>2, <6>1
        <5> QED BY <5>1, <5>2
      <4>5. g[j].total <= g[k + 1].total BY <4>1, <4>2, <4>4
      <4> QED BY <4>1, <4>4, <4>5
    <3> QED BY <3>2, <3>3
  <2> HIDE DEF S
  <2>3. Nat \subseteq S BY <2>1, <2>2, SetInduction
  <2>4. \A k \in j .. n : k \in Nat /\ j <= k /\ k <= n BY <1>4
  <2> QED BY <2>3, <2>4 DEF S
\* So a torrent is held exactly when it fitted at its turn.
<1>7. ASSUME NEW k \in 1 .. n
      PROVE  /\ Earning[k] \in H <=> g[k - 1].total + Size[Earning[k]] <= budget
             /\ k - 1 \in 0 .. n /\ k \in 0 .. n
             /\ g[k - 1].total \in Nat /\ g[n].total \in Nat /\ g[k - 1].total <= g[n].total
  <2>1. k - 1 \in 0 .. n /\ k \in 0 .. n /\ n \in k .. n /\ n \in k - 1 .. n /\ n \in 0 .. n
    BY <1>4
  <2>2. CASE g[k - 1].total + Size[Earning[k]] <= budget
    <3>1. Earning[k] \in g[k].those
      <4>1. g[k] = [those |-> g[k - 1].those \cup {Earning[k]},
                    total |-> g[k - 1].total + Size[Earning[k]]]
        BY <1>1, <2>2 DEF Wants
      <4> QED BY <4>1
    <3> QED BY <1>1, <1>2, <1>6, <2>1, <2>2, <3>1 DEF Wants
  <2>3. CASE ~(g[k - 1].total + Size[Earning[k]] <= budget)
    <3>1. g[k] = g[k - 1] BY <1>1, <2>3 DEF Wants
    <3>2. Earning[k] \notin g[k].those
      <4>1. Earning[k] \in g[k - 1].those => k <= k - 1 BY <1>5, <2>1
      <4> QED BY <1>4, <3>1, <4>1
    <3>3. Earning[k] \notin H
      <4> DEFINE S == {m \in Nat : k <= m /\ m <= n => Earning[k] \notin g[m].those}
      <4>1. 0 \in S BY <1>4
      <4>2. ASSUME NEW m \in Nat, m \in S PROVE m + 1 \in S
        <5> SUFFICES ASSUME k <= m + 1, m + 1 <= n PROVE Earning[k] \notin g[m + 1].those
          OBVIOUS
        <5>1. CASE k = m + 1 BY <3>2, <5>1
        <5>2. CASE k # m + 1
          <6>1. k <= m /\ m <= n /\ m + 1 \in 1 .. n /\ (m + 1) - 1 = m BY <1>4, <5>2
          <6>2. Earning[k] \notin g[m].those BY <4>2, <6>1
          <6>3. Earning[k] # Earning[m + 1] BY <5>2, <6>1, Listed
          <6>4. g[m + 1].those \subseteq g[m].those \cup {Earning[m + 1]}
            <7>1. \/ g[m + 1] = g[m]
                  \/ g[m + 1] = [those |-> g[m].those \cup {Earning[m + 1]},
                                 total |-> g[m].total + Size[Earning[m + 1]]]
              BY <1>1, <6>1 DEF Wants
            <7> QED BY <7>1
          <6> QED BY <6>2, <6>3, <6>4
        <5> QED BY <5>1, <5>2
      <4> HIDE DEF S
      <4>3. Nat \subseteq S BY <4>1, <4>2, SetInduction
      <4>4. n \in Nat /\ k <= n /\ n <= n BY <1>4
      <4> QED BY <1>2, <4>3, <4>4 DEF S
    <3> QED BY <1>1, <1>6, <2>1, <2>3, <3>3 DEF Wants
  <2> QED BY <2>2, <2>3
\* And its weight is the running total.
<1>8. w[n] = g[n].total
  <2> DEFINE S == {k \in Nat : k <= n => w[k] = g[k].total}
  <2>1. 0 \in S BY <1>1, <1>3 DEF Wants, Weighs
  <2>2. ASSUME NEW k \in Nat, k \in S PROVE k + 1 \in S
    <3> SUFFICES ASSUME k + 1 <= n PROVE w[k + 1] = g[k + 1].total
      OBVIOUS
    <3>1. k + 1 \in 1 .. n /\ (k + 1) - 1 = k /\ k <= n BY <1>4
    <3>2. w[k] = g[k].total BY <2>2, <3>1
    <3>3. Earning[k + 1] \in H <=> g[k].total + Size[Earning[k + 1]] <= budget
      BY <1>7, <3>1
    <3>4. w[k + 1] = w[k] + IF Earning[k + 1] \in H THEN Size[Earning[k + 1]] ELSE 0
      BY <1>3, <3>1 DEF Weighs
    <3>5. g[k].total \in Nat BY <1>7, <3>1
    <3>6. CASE Earning[k + 1] \in H
      <4>1. g[k + 1] = [those |-> g[k].those \cup {Earning[k + 1]},
                        total |-> g[k].total + Size[Earning[k + 1]]]
        BY <1>1, <3>1, <3>3, <3>6 DEF Wants
      <4> QED BY <3>2, <3>4, <3>6, <4>1
    <3>7. CASE Earning[k + 1] \notin H
      <4>1. g[k + 1] = g[k] BY <1>1, <3>1, <3>3, <3>7 DEF Wants
      <4> QED BY <3>2, <3>4, <3>5, <3>7, <4>1
    <3> QED BY <3>6, <3>7
  <2> HIDE DEF S
  <2>3. Nat \subseteq S BY <2>1, <2>2, SetInduction
  <2> QED BY <1>4, <2>3 DEF S
<1>9. H \subseteq Torrent /\ g[n].total <= budget
  <2>1. n \in 0 .. n BY <1>4
  <2> QED BY <1>1, <1>2, <1>5, <2>1 DEF Wants
<1>10. ASSUME NEW t \in Torrent \ H PROVE Total(H) + Size[t] > budget
  <2>1. PICK k \in 1 .. n : t = Earning[k] BY Listed
  <2>2. ~(g[k - 1].total + Size[t] <= budget) /\ g[k - 1].total <= g[n].total
        /\ g[k - 1].total \in Nat /\ g[n].total \in Nat BY <1>7, <2>1
  <2>3. Size[t] \in Nat BY <2>1, Listed
  <2> QED BY <1>3, <1>8, <2>2, <2>3
<1> QED BY <1>1, <1>2, <1>3, <1>8, <1>9, <1>10

\* A larger set weighs no less.
LEMMA TotalGrows ==
    ASSUME NEW S, NEW U, S \subseteq U
    PROVE  Total(S) \in Nat /\ Total(U) \in Nat /\ Total(S) <= Total(U)
<1> DEFINE n == Len(Earning)
<1>1. PICK v : Weighs(v, S) /\ Total(S) = v[n] BY TotalRuns
<1>2. PICK w : Weighs(w, U) /\ Total(U) = w[n] BY TotalRuns
<1>3. n \in Nat BY Listed
<1> DEFINE Below == {k \in Nat : k <= n => v[k] <= w[k]}
<1>4. 0 \in Below BY <1>1, <1>2 DEF Weighs
<1>5. ASSUME NEW k \in Nat, k \in Below PROVE k + 1 \in Below
  <2> SUFFICES ASSUME k + 1 <= n PROVE v[k + 1] <= w[k + 1]
    OBVIOUS
  <2>1. k + 1 \in 1 .. n /\ k \in 0 .. n /\ (k + 1) - 1 = k BY <1>3
  <2>2. v[k] <= w[k] /\ v[k] \in Nat /\ w[k] \in Nat BY <1>1, <1>2, <1>5, <2>1 DEF Weighs
  <2>3. Size[Earning[k + 1]] \in Nat BY <2>1, Listed
  <2>4. /\ v[k + 1] = v[k] + IF Earning[k + 1] \in S THEN Size[Earning[k + 1]] ELSE 0
        /\ w[k + 1] = w[k] + IF Earning[k + 1] \in U THEN Size[Earning[k + 1]] ELSE 0
    BY <1>1, <1>2, <2>1 DEF Weighs
  <2> QED BY <2>2, <2>3, <2>4
<1> HIDE DEF Below
<1>6. Nat \subseteq Below BY <1>4, <1>5, SetInduction
<1>7. n \in Below /\ n <= n BY <1>3, <1>6
<1>8. v[n] <= w[n] BY <1>7 DEF Below
<1>9. v[n] \in Nat /\ w[n] \in Nat
  <2>1. n \in 0 .. n BY <1>3
  <2> QED BY <1>1, <1>2, <2>1 DEF Weighs
<1> QED BY <1>1, <1>2, <1>8, <1>9

\* The larger of a number and 0.
LEMMA MaxZero ==
    ASSUME NEW x \in Int
    PROVE  Max({x, 0}) \in Nat /\ Max({x, 0}) = IF x > 0 THEN x ELSE 0
<1>1. \E y \in {x, 0} : \A z \in {x, 0} : y >= z OBVIOUS
<1>2. Max({x, 0}) \in {x, 0} /\ \A z \in {x, 0} : Max({x, 0}) >= z
  BY <1>1 DEF Max
<1> QED BY <1>2

\* The budget is a number, what is allowed is what it covers, and more disk
\* allows no less.
LEMMA BudgetAllows ==
    ASSUME NEW free \in Nat
    PROVE  /\ Budget(free) \in Nat
           /\ \A w \in Nat : w <= Budget(free) <=> Allowed(w, free)
<1>1. PICK missing : missing = Max({HoldFloor - free, 0}) OBVIOUS
<1>2. missing \in Nat /\ missing = IF HoldFloor - free > 0 THEN HoldFloor - free ELSE 0
  BY <1>1, MaxZero, TrackerControlAssumption
<1>3. Budget(free) = Max({HoldMax - missing, 0}) BY <1>1 DEF Budget
<1>4. /\ Budget(free) \in Nat
      /\ Budget(free) = IF HoldMax - missing > 0 THEN HoldMax - missing ELSE 0
  <2>1. HoldMax - missing \in Int BY <1>2, TrackerControlAssumption
  <2> QED BY <1>3, <2>1, MaxZero
<1> QED BY <1>2, <1>4, TrackerControlAssumption DEF Allowed

LEMMA AllowedGrows ==
    ASSUME NEW w \in Nat, NEW low \in Nat, NEW free \in Nat, low <= free, Allowed(w, low)
    PROVE  Allowed(w, free)
  BY TrackerControlAssumption DEF Allowed

\* On the way to the end of the tag calls: what stays or comes is of the hold of
\* a disk no larger than the one found, and all of that hold, of the disk found
\* itself, comes or stays, each half unless its own call failed.
Reckoned(free) ==
    /\ free <= found
    /\ pc = "add" => add \subseteq Hold(Budget(free))
    /\ pc \in {"add", "drop"} => held \ drop \subseteq Hold(Budget(free))
    /\ pc \notin {"read", "list", "add", "drop"} /\ "drop" \notin aside =>
         held \subseteq Hold(Budget(free))
    /\ "add" \notin aside =>
         /\ free = found
         /\ pc = "add" => Hold(Budget(free)) \subseteq held \cup add
         /\ pc \in {"add", "drop"} => drop \cap Hold(Budget(free)) = {}
         /\ pc \notin {"read", "list", "add"} => Hold(Budget(free)) \subseteq held

HoldInv ==
    /\ space \in Nat /\ found \in Nat
    /\ pc \notin {"read", "list"} /\ "unlisted" \notin aside => \E free \in Nat : Reckoned(free)

LEMMA InitHold == Init => HoldInv
  BY TrackerControlAssumption DEF Init, HoldInv

\* A step after the tag calls, or between them, that leaves the tags alone.
LEMMA TagsStay ==
    ASSUME HoldInv, UNCHANGED <<space, held, found, add, drop>>, aside \subseteq aside',
           pc' = pc \/ {pc, pc'} \cap {"read", "list", "add", "drop"} = {}
    PROVE  HoldInv'
<1> SUFFICES ASSUME (pc \notin {"read", "list"} /\ "unlisted" \notin aside)'
             PROVE  (\E free \in Nat : Reckoned(free))'
  BY DEF HoldInv
<1>1. pc \notin {"read", "list"} /\ "unlisted" \notin aside
  OBVIOUS
<1>2. PICK free \in Nat : Reckoned(free)
  BY <1>1 DEF HoldInv
<1>3. Reckoned(free)'
  BY <1>2 DEF Reckoned
<1> QED BY <1>3

\* A pass that has not reckoned yet.
LEMMA NotYet ==
    ASSUME HoldInv, pc' \in {"read", "list"}, space' \in Nat, found' \in Nat
    PROVE  HoldInv'
  BY DEF HoldInv

\* A reckoning, with the disk as it is or as full.
LEMMA ReckonHolds ==
    ASSUME NEW free \in Nat, Reckon(free), space \in Nat, free <= space, pc' = "add",
           UNCHANGED <<space, held>>, free = space \/ "add" \in aside'
    PROVE  HoldInv'
<1>1. Reckoned(free)'
  BY DEF Reckon, Reckoned
<1> QED BY <1>1 DEF Reckon, HoldInv

\* A tag call: applied, or not and marked.
LEMMA TagHolds ==
    ASSUME HoldInv, pc \in {"add", "drop"}, AfterTag, UNCHANGED <<space, found, add, drop>>,
           \/ held' = Tagged /\ aside \subseteq aside'
           \/ held' = held /\ aside' = aside \cup {pc}
    PROVE  HoldInv'
<1>1. /\ pc = "add" => pc' = "drop"
      /\ pc = "drop" => pc' \in {"sleep", "look"}
  BY DEF AfterTag
<1> SUFFICES ASSUME "unlisted" \notin aside'
             PROVE  (\E free \in Nat : Reckoned(free))'
  BY DEF HoldInv
<1>2. "unlisted" \notin aside
  OBVIOUS
<1>3. PICK free \in Nat : Reckoned(free)
  BY <1>2 DEF HoldInv
<1>4. CASE pc = "add"
  <2>1. Reckoned(free)'
    BY <1>1, <1>3, <1>4 DEF Reckoned, Tagged
  <2> QED BY <2>1
<1>5. CASE pc = "drop"
  <2>1. Reckoned(free)'
    BY <1>1, <1>3, <1>5 DEF Reckoned, Tagged
  <2> QED BY <2>1
<1> QED BY <1>4, <1>5

LEMMA NextHold == HoldInv /\ [Next]_vars => HoldInv'
<1> SUFFICES ASSUME HoldInv, [Next]_vars PROVE HoldInv'
  OBVIOUS
<1> USE DEF counts, knobs, pass, world
<1>0. space \in Nat /\ found \in Nat BY DEF HoldInv
<1>1. CASE Move
  <2>1. space' \in Nat BY <1>0, <1>1, TrackerControlAssumption DEF Move
  <2> QED BY <1>1, <2>1 DEF Move, HoldInv, Reckoned
<1>2. CASE Hand
  <2>1. /\ UNCHANGED <<space, found, add, drop, pc>> /\ aside \subseteq aside'
        /\ held' \subseteq held /\ (held' = held \/ "add" \in aside')
    BY <1>2 DEF Hand
  <2> SUFFICES ASSUME (pc \notin {"read", "list"} /\ "unlisted" \notin aside)'
               PROVE  (\E free \in Nat : Reckoned(free))'
    BY <1>0, <2>1 DEF HoldInv
  <2>2. PICK free \in Nat : Reckoned(free)
    BY <2>1 DEF HoldInv
  <2>3. Reckoned(free)'
    BY <2>1, <2>2 DEF Reckoned
  <2> QED BY <2>3
<1>3. CASE Restart \/ Wake
  BY <1>0, <1>3, NotYet DEF Restart, Wake, Forget
<1>4. CASE Read \/ ReadFails
  BY <1>0, <1>4, NotYet DEF Read, ReadFails
<1>5. CASE List
  BY <1>0, <1>5, ReckonHolds DEF List
<1>6. CASE ListFails
  <2>1. CASE Fault({"unlisted"}) /\ UNCHANGED found
    BY <1>0, <1>6, <2>1 DEF ListFails, Fault, HoldInv
  <2>2. CASE Reckon(0) /\ Fault({"add"})
    BY <1>0, <1>6, <2>2, ReckonHolds DEF ListFails, Fault
  <2> QED BY <1>6, <2>1, <2>2 DEF ListFails
<1>7. CASE Tag
  BY <1>7, TagHolds DEF Tag, NoFault
<1>8. CASE TagFails
  BY <1>8, TagHolds DEF TagFails, Fault
<1>9. CASE Look \/ LookFails
  <2>1. /\ pc = "look" /\ pc' = "prowlarr" /\ aside \subseteq aside'
        /\ UNCHANGED <<space, held, found, add, drop>>
    BY <1>9 DEF Look, LookFails, NoFault, Fault
  <2> QED BY <2>1, TagsStay
<1>10. CASE Turn \/ TurnFails
  <2>1. /\ pc \in Knob /\ pc' = After(pc) /\ aside \subseteq aside'
        /\ UNCHANGED <<space, held, found, add, drop>>
    BY <1>10 DEF Turn, TurnFails, NoFault, Fault
  <2>2. {pc, pc'} \cap {"read", "list", "add", "drop"} = {}
    BY <2>1 DEF After, Knob
  <2> QED BY <2>1, <2>2, TagsStay
<1>11. CASE Rate \/ RateFails
  <2>1. /\ pc = "rate" /\ pc' = "sleep" /\ aside \subseteq aside'
        /\ UNCHANGED <<space, held, found, add, drop>>
    BY <1>11 DEF Rate, RateFails, Publish, NoFault, Fault
  <2> QED BY <2>1, TagsStay
<1>12. CASE UNCHANGED vars
  BY <1>12, TagsStay DEF vars
<1> QED
  BY <1>1, <1>2, <1>3, <1>4, <1>5, <1>6, <1>7, <1>8, <1>9, <1>10, <1>11, <1>12 DEF Next, Step

\* For any torrents, sizes, budget and disk: once the tag calls are over, what
\* carries the tag is allowed by the disk the pass found unless the call that
\* drops failed, and nothing left out is unless the call that adds failed, the
\* disk could not be read or a person took a tag off.
THEOREM HoldsAreFull == Spec => []HoldIsFull
<1>1. HoldInv => HoldIsFull
  <2> SUFFICES ASSUME HoldInv, pc \notin {"read", "list", "add", "drop"},
                      "unlisted" \notin aside
               PROVE  /\ "drop" \notin aside => Allowed(Total(held), found)
                      /\ "add" \notin aside =>
                           \A t \in Torrent \ held : ~Allowed(Total(held) + Size[t], found)
    BY DEF HoldIsFull
  <2>1. PICK free \in Nat : Reckoned(free) BY DEF HoldInv
  <2>2. Budget(free) \in Nat /\ found \in Nat BY BudgetAllows DEF HoldInv
  <2>3. PICK H : H = Hold(Budget(free)) OBVIOUS
  <2>4. /\ Total(H) <= Budget(free)
        /\ \A t \in Torrent \ H : Total(H) + Size[t] > Budget(free)
    BY <2>2, <2>3, HoldFits
  <2>5. ASSUME "drop" \notin aside PROVE Allowed(Total(held), found)
    <3>1. held \subseteq H BY <2>1, <2>3, <2>5 DEF Reckoned
    <3>2. Total(held) \in Nat /\ Total(H) \in Nat /\ Total(held) <= Total(H)
      BY <3>1, TotalGrows
    <3>3. Total(held) <= Budget(free) BY <2>2, <2>4, <3>2
    <3>4. Allowed(Total(held), free) BY <3>2, <3>3, BudgetAllows
    <3>5. free <= found BY <2>1 DEF Reckoned
    <3> QED BY <2>2, <3>2, <3>4, <3>5, AllowedGrows
  <2>6. ASSUME "add" \notin aside, NEW t \in Torrent \ held
        PROVE  ~Allowed(Total(held) + Size[t], found)
    <3>1. H \subseteq held /\ free = found BY <2>1, <2>3, <2>6 DEF Reckoned
    <3>2. Total(held) \in Nat /\ Total(H) \in Nat /\ Total(H) <= Total(held)
      BY <3>1, TotalGrows
    <3>3. Size[t] \in Nat BY TrackerControlAssumption DEF Torrent
    <3>4. ~(Total(held) + Size[t] <= Budget(free)) BY <2>2, <2>4, <3>1, <3>2, <3>3
    <3>5. Total(held) + Size[t] \in Nat BY <3>2, <3>3
    <3> QED BY <3>1, <3>4, <3>5, BudgetAllows
  <2> QED BY <2>5, <2>6
<1> QED
  BY <1>1, InitHold, NextHold, PTL DEF Spec
=============================================================================
