--------------------------- MODULE PiMetricsProofs ---------------------------
(***************************************************************************)
(* Proofs about pi-metrics: the rule for audio tracks, in both its         *)
(* programs, the ledger of the playback collector, and the media and disk  *)
(* collectors, each for any values of the constants.                       *)
(***************************************************************************)
EXTENDS PiMetrics, SequenceLemmas

-----------------------------------------------------------------------------
(* AudioPlan: the types. *)

Track == [codec : Codecs \cup Targets, lang : Languages, channels : Nat,
          default : BOOLEAN, comment : BOOLEAN]

PlanTypes ==
    /\ original \in Seq(Track) /\ Len(original) > 0
    /\ tracks \in Seq(Track) /\ Len(tracks) > 0
    /\ played \in 0 .. Len(original)
    /\ plan \in Seq(1 .. Len(original))
    /\ nights \in Nat /\ conversions \in Nat

\* Positions lists the positions.
LEMMA PositionsAre ==
    ASSUME NEW ts \in Seq(Track)
    PROVE  /\ Positions(ts) \in Seq(1 .. Len(ts)) /\ Len(Positions(ts)) = Len(ts)
           /\ \A p \in 1 .. Len(ts) : Positions(ts)[p] = p
<1>1. Len(ts) \in Nat OBVIOUS
<1> QED BY <1>1 DEF Positions

\* There is a default track.
LEMMA DefaultIndexType ==
    ASSUME NEW ts \in Seq(Track), Len(ts) > 0
    PROVE  DefaultIndex(ts) \in 1 .. Len(ts)
<1> DEFINE first(p) == ts[p].default /\ \A q \in 1 .. p - 1 : ~ts[q].default
<1>1. DOMAIN ts = 1 .. Len(ts) /\ 1 \in 1 .. Len(ts) OBVIOUS
<1>2. CASE \E p \in DOMAIN ts : first(p)
  <2> DEFINE c == CHOOSE p \in DOMAIN ts : first(p)
  <2>1. c \in DOMAIN ts BY <1>2
  <2>2. DefaultIndex(ts) = c BY <1>2 DEF DefaultIndex
  <2> QED BY <1>1, <2>1, <2>2
<1>3. CASE ~\E p \in DOMAIN ts : first(p)
    BY <1>1, <1>3 DEF DefaultIndex
<1> QED BY <1>2, <1>3

\* The positions a language of its own opens at, the default track's aside.
Opening(ts) ==
    {p \in DOMAIN ts : /\ ~ts[p].comment
                       /\ ts[p].lang # ts[DefaultIndex(ts)].lang
                       /\ \A q \in 1 .. p - 1 : ts[q].comment \/ ts[q].lang # ts[p].lang}

\* main_tracks returns positions of the file.
LEMMA MainTracksType ==
    ASSUME NEW ts \in Seq(Track), Len(ts) > 0
    PROVE  /\ MainTracks(ts) \in Seq(1 .. Len(ts)) /\ MainTracks(ts) # <<>>
           /\ MainTracks(ts) = <<DefaultIndex(ts)>> \o Filter(Positions(ts), Opening(ts))
<1>1. DefaultIndex(ts) \in 1 .. Len(ts) BY DefaultIndexType
<1>2. Filter(Positions(ts), Opening(ts)) \in Seq(1 .. Len(ts)) BY PositionsAre, FilterType
<1>3. MainTracks(ts) = <<DefaultIndex(ts)>> \o Filter(Positions(ts), Opening(ts))
    BY DEF MainTracks, Opening
<1> QED BY <1>1, <1>2, <1>3

\* One turn of plan.go's loop.
Visit(ts, mains, p) ==
    IF ts[p].comment \/ \E i \in DOMAIN mains : ts[mains[i]].lang = ts[p].lang
      THEN mains ELSE Append(mains, p)

\* The values of that loop.
MainsValues(g, ts) ==
    /\ g \in [0 .. Len(ts) -> Seq(1 .. Len(ts))]
    /\ g[0] = <<Lead(ts)>>
    /\ \A p \in 1 .. Len(ts) : g[p] = Visit(ts, g[p - 1], p)

\* PlanMains is the last of them.
LEMMA PlanMainsRuns ==
    ASSUME NEW ts \in Seq(Track), Lead(ts) \in 1 .. Len(ts)
    PROVE  \E g : MainsValues(g, ts) /\ PlanMains(ts) = g[Len(ts)]
<1> DEFINE n == Len(ts)
<1> DEFINE turn == [p \in 1 .. n |-> [v \in Seq(1 .. n) |-> Visit(ts, v, p)]]
<1> DEFINE Is(h) == h = [p \in 0 .. n |-> IF p = 0 THEN <<Lead(ts)>> ELSE Visit(ts, h[p - 1], p)]
<1>1. n \in Nat OBVIOUS
<1>2. ASSUME NEW p \in 1 .. n, NEW v \in Seq(1 .. n) PROVE Visit(ts, v, p) \in Seq(1 .. n)
  <2>1. Append(v, p) \in Seq(1 .. n) OBVIOUS
  <2>2. Visit(ts, v, p) \in {v, Append(v, p)} BY DEF Visit
  <2> HIDE DEF n
  <2> QED BY <2>1, <2>2
<1>3. turn \in [1 .. n -> [Seq(1 .. n) -> Seq(1 .. n)]] BY <1>2
<1> DEFINE first == <<Lead(ts)>>
<1>4. first \in Seq(1 .. n) OBVIOUS
<1>5. PICK g : LoopValues(g, n, Seq(1 .. n), first, turn)
  <2> HIDE DEF n, turn, first
  <2> QED BY <1>1, <1>3, <1>4, LoopRuns
<1>6. g \in [0 .. n -> Seq(1 .. n)] /\ g[0] = <<Lead(ts)>> BY <1>5 DEF LoopValues
<1>7. ASSUME NEW p \in 1 .. n PROVE g[p] = Visit(ts, g[p - 1], p)
  <2>1. g[p - 1] \in Seq(1 .. n) BY <1>1, <1>6
  <2>2. g[p] = turn[p][g[p - 1]] BY <1>5 DEF LoopValues
  <2> HIDE DEF n
  <2> QED BY <2>1, <2>2
<1>8. Is(g)
  <2>1. ASSUME NEW p \in 0 .. n
        PROVE  g[p] = IF p = 0 THEN <<Lead(ts)>> ELSE Visit(ts, g[p - 1], p)
    <3>1. p # 0 => p \in 1 .. n BY <1>1
    <3> HIDE DEF n
    <3> QED BY <1>6, <1>7, <3>1
  <2>2. DOMAIN g = 0 .. n BY <1>6
  <2> QED BY <1>6, <2>1, <2>2
<1> DEFINE f == CHOOSE h : Is(h)
<1>9. Is(f)
  <2> HIDE DEF Is
  <2> QED BY <1>8
<1>10. PlanMains(ts) = f[n] BY Zenon DEF PlanMains, Visit
<1> HIDE DEF f
<1> DEFINE S == {k \in Nat : k <= n => f[k] = g[k]}
<1>11. 0 \in S
  <2>1. 0 \in 0 .. n BY <1>1
  <2> HIDE DEF n
  <2> QED BY <1>6, <1>9, <2>1
<1>12. ASSUME NEW k \in Nat, k \in S PROVE k + 1 \in S
  <2> SUFFICES ASSUME k + 1 <= n PROVE f[k + 1] = g[k + 1]
      OBVIOUS
  <2>0. k <= n BY <1>1
  <2>1. k + 1 \in 1 .. n /\ k + 1 \in 0 .. n /\ k + 1 # 0 /\ (k + 1) - 1 = k BY <1>1
  <2> HIDE DEF n
  <2>2. f[k + 1] = Visit(ts, f[k], k + 1) BY <1>9, <2>1
  <2>3. g[k + 1] = Visit(ts, g[k], k + 1) BY <1>7, <2>1
  <2>4. f[k] = g[k] BY <1>12, <2>0
  <2> QED BY <2>2, <2>3, <2>4
<1> HIDE DEF S
<1>13. Nat \subseteq S BY <1>11, <1>12, SetInduction
<1>14. f[n] = g[n] BY <1>1, <1>13 DEF S
<1>15. MainsValues(g, ts)
  <2>1. \A p \in 1 .. n : g[p] = Visit(ts, g[p - 1], p) BY <1>7
  <2> QED BY <1>6, <2>1 DEF MainsValues
<1> QED BY <1>10, <1>14, <1>15

\* With the default track to start from, plan.go's loop picks what the script picks.
LEMMA MainsAgree ==
    ASSUME NEW ts \in Seq(Track), Len(ts) > 0, Lead(ts) = DefaultIndex(ts)
    PROVE  PlanMains(ts) = MainTracks(ts)
<1> DEFINE n == Len(ts)
<1> DEFINE lead == DefaultIndex(ts)
<1> DEFINE P == Positions(ts)
<1> DEFINE O == Opening(ts)
<1>1. n \in Nat /\ DOMAIN ts = 1 .. n /\ lead \in 1 .. n BY DefaultIndexType
<1>2. P \in Seq(1 .. n) /\ Len(P) = n /\ \A p \in 1 .. n : P[p] = p BY PositionsAre
<1>3. PICK g : MainsValues(g, ts) /\ PlanMains(ts) = g[n] BY <1>1, PlanMainsRuns
<1>4. PICK h : FilterValues(h, 1 .. n, P, O) /\ Filter(P, O) = h[n]
  <2> HIDE DEF P, O
  <2> QED BY <1>2, FilterRuns
<1>5. /\ h \in [0 .. n -> Seq(1 .. n)] /\ h[0] = <<>>
      /\ \A p \in 1 .. n : h[p] = IF p \in O THEN Append(h[p - 1], p) ELSE h[p - 1]
  <2> HIDE DEF P, O
  <2> QED BY <1>2, <1>4 DEF FilterValues
<1>6. MainTracks(ts) = <<lead>> \o h[n] BY <1>4, MainTracksType
<1> DEFINE S == {k \in Nat : k <= n => g[k] = <<lead>> \o h[k]}
<1>7. 0 \in S
  <2>1. g[0] = <<lead>> BY <1>3 DEF MainsValues
  <2>2. <<lead>> \o <<>> = <<lead>> BY <1>1
  <2> QED BY <1>5, <2>1, <2>2
<1>8. ASSUME NEW k \in Nat, k \in S PROVE k + 1 \in S
  <2> SUFFICES ASSUME k + 1 <= n PROVE g[k + 1] = <<lead>> \o h[k + 1]
      OBVIOUS
  <2> DEFINE p == k + 1
  <2>1. p \in 1 .. n /\ p - 1 = k /\ k \in 0 .. n /\ k <= n BY <1>1
  <2>2. g[k] = <<lead>> \o h[k] BY <1>8, <2>1
  <2>3. g[p] = Visit(ts, g[k], p)
    <3> HIDE DEF p, n
    <3> QED BY <1>3, <2>1 DEF MainsValues, n
  <2>4. h[p] = IF p \in O THEN Append(h[k], p) ELSE h[k]
    <3> HIDE DEF p, n, O
    <3> QED BY <1>5, <2>1
  <2>5. h[k] \in Seq(1 .. n) BY <1>5, <2>1
  <2> DEFINE seen == \E i \in DOMAIN g[k] : ts[g[k][i]].lang = ts[p].lang
  <2>6. seen <=> ts[lead].lang = ts[p].lang \/ \E x : Holds(h[k], x) /\ ts[x].lang = ts[p].lang
    <3> HIDE DEF p, n, lead
    <3>1. /\ DOMAIN g[k] = 1 .. Len(h[k]) + 1 /\ g[k][1] = lead
          /\ \A i \in 1 .. Len(h[k]) : g[k][i + 1] = h[k][i]
        BY <1>1, <2>2, <2>5
    <3>2. Len(h[k]) \in Nat BY <2>5
    <3>3. ASSUME seen PROVE ts[lead].lang = ts[p].lang \/ \E x : Holds(h[k], x) /\ ts[x].lang = ts[p].lang
      <4>1. PICK i \in 1 .. Len(h[k]) + 1 : ts[g[k][i]].lang = ts[p].lang BY <3>1, <3>3
      <4>2. CASE i = 1 BY <3>1, <4>1, <4>2
      <4>3. CASE i # 1
        <5>1. i - 1 \in 1 .. Len(h[k]) /\ (i - 1) + 1 = i BY <3>2, <4>3
        <5>2. g[k][i] = h[k][i - 1] BY <3>1, <5>1
        <5> QED BY <4>1, <5>1, <5>2 DEF Holds
      <4> QED BY <4>2, <4>3
    <3>4. ASSUME ts[lead].lang = ts[p].lang PROVE seen
      <4>1. 1 \in DOMAIN g[k] BY <3>1, <3>2
      <4> QED BY <3>1, <3>4, <4>1
    <3>5. ASSUME NEW x, Holds(h[k], x), ts[x].lang = ts[p].lang PROVE seen
      <4>1. PICK i \in 1 .. Len(h[k]) : h[k][i] = x BY <3>5 DEF Holds
      <4>2. i + 1 \in DOMAIN g[k] BY <3>1, <3>2
      <4> QED BY <3>1, <3>5, <4>1, <4>2
    <3> QED BY <3>3, <3>4, <3>5
  <2>7. \A x : Holds(h[k], x) <=> x \in O /\ x \in 1 .. k
    <3>1. ASSUME NEW x PROVE Holds(h[k], x) <=> x \in O /\ HoldsBy(P, k, x)
      <4> HIDE DEF P, O, n
      <4> QED BY <1>2, <1>4, <2>1, FilterValuesKeep
    <3>2. ASSUME NEW x PROVE HoldsBy(P, k, x) <=> x \in 1 .. k
      <4>1. \A j \in 1 .. k : P[j] = j
        <5>1. \A j \in 1 .. k : j \in 1 .. n BY <1>1, <2>1
        <5> HIDE DEF P, n
        <5> QED BY <1>2, <5>1
      <4> HIDE DEF P
      <4> QED BY <4>1 DEF HoldsBy
    <3> QED BY <3>1, <3>2
  <2> DEFINE named == {q \in 1 .. k : ~ts[q].comment /\ ts[q].lang = ts[p].lang}
  <2>8. p \in O <=> ~ts[p].comment /\ ts[p].lang # ts[lead].lang /\ named = {}
    <3> HIDE DEF n
    <3> QED BY <1>1, <2>1 DEF Opening
  <2>9. ts[p].lang # ts[lead].lang /\ named # {} => \E x \in 1 .. k : x \in O /\ ts[x].lang = ts[p].lang
    <3> SUFFICES ASSUME ts[p].lang # ts[lead].lang, named # {}
                 PROVE  \E x \in 1 .. k : x \in O /\ ts[x].lang = ts[p].lang
        OBVIOUS
    <3>1. \E q \in 1 .. k : q \in named OBVIOUS
    <3> DEFINE T == named
    <3>2. PICK x \in 1 .. k : x \in T /\ \A r \in 1 .. x - 1 : r \notin T
      <4> HIDE DEF named
      <4> QED BY <3>1, LeastOf
    <3>3. x \in 1 .. n /\ \A r \in 1 .. x - 1 : r \in 1 .. k BY <1>1, <2>1
    <3>4. ~ts[x].comment /\ ts[x].lang = ts[p].lang BY <3>2
    <3>5. \A r \in 1 .. x - 1 : ts[r].comment \/ ts[r].lang # ts[x].lang BY <3>2, <3>3, <3>4
    <3>6. x \in O
      <4> HIDE DEF n, p
      <4> QED BY <1>1, <3>3, <3>4, <3>5 DEF Opening
    <3> QED BY <3>4, <3>6
  <2>10. ASSUME NEW x \in 1 .. k, x \in O, ts[x].lang = ts[p].lang PROVE named # {}
    <3>1. ~ts[x].comment BY <2>10 DEF Opening
    <3>2. x \in named BY <2>10, <3>1
    <3> QED BY <3>2
  <2>11. ts[p].comment \/ seen <=> p \notin O
    <3> HIDE DEF seen, named, O, p, lead
    <3> QED BY <2>6, <2>7, <2>8, <2>9, <2>10
  <2>12. CASE p \in O
    <3>1. g[p] = Append(g[k], p) BY <2>3, <2>11, <2>12 DEF Visit
    <3>2. h[p] = Append(h[k], p) BY <2>4, <2>12
    <3>3. Append(<<lead>> \o h[k], p) = <<lead>> \o Append(h[k], p)
      <4> HIDE DEF p, n, lead
      <4> QED BY <1>1, <2>1, <2>5
    <3> QED BY <2>2, <3>1, <3>2, <3>3
  <2>13. CASE p \notin O
    <3>1. g[p] = g[k] BY <2>3, <2>11, <2>13 DEF Visit
    <3>2. h[p] = h[k] BY <2>4, <2>13
    <3> QED BY <2>2, <3>1, <3>2
  <2> QED BY <2>12, <2>13
<1> HIDE DEF S
<1>9. Nat \subseteq S BY <1>7, <1>8, SetInduction
<1>10. g[n] = <<lead>> \o h[n] BY <1>1, <1>9 DEF S
<1> QED BY <1>3, <1>6, <1>10

\* The tracks to build from, in either program.
Wanting(ts) ==
    {m \in DOMAIN ts : /\ ts[m].codec \in Incompatible
                       /\ ~ \E p \in DOMAIN ts : StandsIn(ts, p, m)}

\* plan.go looks for the same stand-ins as the script.
LEMMA WantingAgrees ==
    ASSUME NEW ts \in Seq(Track)
    PROVE  {m \in DOMAIN ts : ts[m].codec \in Incompatible /\ ~Playable(ts, m)} = Wanting(ts)
<1>1. \A m \in DOMAIN ts : Playable(ts, m) <=> \E p \in DOMAIN ts : StandsIn(ts, p, m)
  <2> TAKE m \in DOMAIN ts
  <2>1. ts[m].channels \in Nat
    <3>1. ts[m] \in Track OBVIOUS
    <3> QED BY <3>1 DEF Track
  <2>2. Lesser(ts[m].channels, 6) = IF ts[m].channels > 6 THEN 6 ELSE ts[m].channels
      BY <2>1 DEF Lesser
  <2> QED BY <2>2 DEF Playable, StandsIn
<1> QED BY <1>1 DEF Wanting

\* The two programs decide alike on a file whose session named no track.
LEMMA TwinsDecideAlike ==
    ASSUME NEW ts \in Seq(Track), Len(ts) > 0, Lead(ts) = DefaultIndex(ts)
    PROVE  Decide(ts) = Assess(ts, <<>>)
<1>1. Decide(ts) = Filter(MainTracks(ts), Wanting(ts))
    BY MainsAgree, WantingAgrees DEF Decide
<1>2. Assess(ts, <<>>) = Filter(MainTracks(ts), Wanting(ts))
    BY DEF Assess, Wanting
<1> QED BY <1>1, <1>2

\* What the script builds from are positions of the file.
LEMMA AssessType ==
    ASSUME NEW ts \in Seq(Track), Len(ts) > 0, NEW asked \in Seq(Nat)
    PROVE  Assess(ts, asked) \in Seq(1 .. Len(ts))
<1>1. CASE \E i \in DOMAIN asked : asked[i] \notin DOMAIN ts
  <2>1. Assess(ts, asked) = <<>> BY <1>1 DEF Assess
  <2> QED BY <2>1
<1>2. CASE ~\E i \in DOMAIN asked : asked[i] \notin DOMAIN ts
  <2>1. asked \in Seq(1 .. Len(ts)) BY <1>2
  <2>2. MainTracks(ts) \in Seq(1 .. Len(ts)) BY MainTracksType
  <2>3. Assess(ts, asked) = Filter(IF asked = <<>> THEN MainTracks(ts) ELSE asked, Wanting(ts))
      BY <1>2 DEF Assess, Wanting
  <2> QED BY <2>1, <2>2, <2>3, FilterType
<1> QED BY <1>1, <1>2

\* The plan is of positions of the file, each wanting a track.
LEMMA DecideType ==
    ASSUME NEW ts \in Seq(Track), Lead(ts) \in 1 .. Len(ts)
    PROVE  /\ Decide(ts) \in Seq(1 .. Len(ts))
           /\ \A i \in 1 .. Len(Decide(ts)) : Decide(ts)[i] \in Wanting(ts)
<1>1. PICK g : MainsValues(g, ts) /\ PlanMains(ts) = g[Len(ts)] BY PlanMainsRuns
<1>2. PlanMains(ts) \in Seq(1 .. Len(ts)) BY <1>1 DEF MainsValues
<1>3. Decide(ts) = Filter(PlanMains(ts), Wanting(ts)) BY WantingAgrees DEF Decide
<1>4. Decide(ts) \in Seq(1 .. Len(ts)) BY <1>2, <1>3, FilterType
<1>5. ASSUME NEW i \in 1 .. Len(Decide(ts)) PROVE Decide(ts)[i] \in Wanting(ts)
  <2>1. Holds(Decide(ts), Decide(ts)[i]) BY DEF Holds
  <2> QED BY <1>2, <1>3, <2>1, FilterKeeps
<1> QED BY <1>4, <1>5

\* Given positions that want a track, the script builds from all of them.
LEMMA PlanAccepted ==
    ASSUME NEW ts \in Seq(Track), NEW d \in Seq(1 .. Len(ts)), d # <<>>,
           \A i \in 1 .. Len(d) : d[i] \in Wanting(ts)
    PROVE  Assess(ts, d) = d
<1>1. ~\E i \in DOMAIN d : d[i] \notin DOMAIN ts OBVIOUS
<1>2. Assess(ts, d) = Filter(d, Wanting(ts)) BY <1>1 DEF Assess, Wanting
<1> QED BY <1>2, FilterAll
-----------------------------------------------------------------------------
(* AudioPlan: the invariant. *)

\* The same track still, and no commentary that was none.
Stays(new, old) == Essence(new) = Essence(old) /\ (new.comment => old.comment)

\* The tracks of the release are the last of the file's.
ReleaseLast ==
    /\ Len(original) <= Len(tracks)
    /\ \A p \in 1 .. Len(original) :
          Stays(tracks[Len(tracks) - Len(original) + p], original[p])

\* The plan was made for the release.
PlanWants == \A i \in 1 .. Len(plan) : plan[i] \in Wanting(original)

PlanInv == PlanTypes /\ ReleaseLast /\ EveryLanguagePlays /\ PlanWants

\* A release has tracks.
LEMMA ReleaseType ==
    ASSUME NEW n \in Nat \ {0}, NEW ts \in Release(n)
    PROVE  ts \in Seq(Track) /\ Len(ts) = n
<1>1. ts \in [1 .. n -> [codec : Codecs, lang : Languages, channels : Channels,
                         default : BOOLEAN, comment : BOOLEAN]]
    BY DEF Release
<1>2. \A p \in 1 .. n : ts[p] \in Track BY <1>1, AudioPlanAssumption DEF Track
<1>3. ts \in [1 .. n -> Track] BY <1>1, <1>2
<1> QED BY <1>3

\* The invariant holds at the start.
LEMMA PlanStarts == Init => PlanInv
<1> SUFFICES ASSUME Init PROVE PlanInv
    OBVIOUS
<1>1. PICK n \in 1 .. MaxTracks : tracks \in Release(n) /\ played \in 0 .. n BY DEF Init
<1>2. n \in Nat \ {0} BY AudioPlanAssumption
<1>3. tracks \in Seq(Track) /\ Len(tracks) = n BY <1>1, <1>2, ReleaseType
<1>4. original = tracks /\ plan = <<>> /\ nights = 0 /\ conversions = 0 BY DEF Init
<1>5. PlanTypes BY <1>1, <1>2, <1>3, <1>4 DEF PlanTypes
<1>6. ReleaseLast BY <1>2, <1>3, <1>4 DEF ReleaseLast, Stays
<1>7. EveryLanguagePlays BY <1>4 DEF EveryLanguagePlays
<1>8. PlanWants BY <1>4 DEF PlanWants
<1> QED BY <1>5, <1>6, <1>7, <1>8 DEF PlanInv

\* What a conversion makes: a new track for each of its sources, in its language,
\* and then all there were.
LEMMA ConvertAdds ==
    ASSUME PlanTypes, NEW target \in Targets, NEW sources \in Seq(1 .. Len(tracks)),
           Convert(sources, target)
    PROVE  /\ sources # <<>> /\ conversions' = conversions + 1
           /\ tracks' \in Seq(Track) /\ Len(tracks') = Len(sources) + Len(tracks)
           /\ \A i \in 1 .. Len(sources) :
                 tracks'[i].codec = target /\ tracks'[i].lang = tracks[sources[i]].lang
           /\ \A p \in 1 .. Len(tracks) : Stays(tracks'[Len(sources) + p], tracks[p])
<1> DEFINE result == Remux(tracks, sources, target)
<1> DEFINE m == Len(sources)
<1> DEFINE n == Len(tracks)
<1>1. m \in Nat /\ n \in Nat /\ DOMAIN sources = 1 .. m /\ DOMAIN tracks = 1 .. n
    BY DEF PlanTypes
<1>2. \A p \in 1 .. n : tracks[p] \in Track BY DEF PlanTypes
<1>3. \A i \in 1 .. m : sources[i] \in 1 .. n OBVIOUS
<1>4. \A t \in Track : \A flag \in BOOLEAN :
          LET a == [t EXCEPT !.codec = target, !.default = flag, !.comment = FALSE,
                             !.channels = Lesser(@, MaxChannels(target))]
          IN  a \in Track /\ a.codec = target /\ a.lang = t.lang
    BY ZenonT(30) DEF Track, Lesser, MaxChannels
<1>5. \A i \in 1 .. m : \A flag \in BOOLEAN :
          LET a == Added(tracks, sources[i], target, flag)
          IN  a \in Track /\ a.codec = target /\ a.lang = tracks[sources[i]].lang
    BY <1>2, <1>3, <1>4 DEF Added
<1>6. \A p \in 1 .. n :
          LET t == [tracks[p] EXCEPT !.default = FALSE, !.comment = FALSE]
          IN  t \in Track /\ Stays(t, tracks[p])
  <2>1. \A t \in Track : LET u == [t EXCEPT !.default = FALSE, !.comment = FALSE]
                          IN  u \in Track /\ u.codec = t.codec /\ u.lang = t.lang
                              /\ u.channels = t.channels /\ ~u.comment
      BY DEF Track
  <2> QED BY <1>2, <2>1 DEF Stays, Essence
<1>7. /\ result \in Seq(Track) /\ Len(result) = m + n
      /\ \A i \in 1 .. m : result[i].codec = target /\ result[i].lang = tracks[sources[i]].lang
      /\ \A p \in 1 .. n : Stays(result[m + p], tracks[p])
  <2>1. CASE sources[1] = DefaultIndex(tracks)
    <3> DEFINE a == [i \in 1 .. m |-> Added(tracks, sources[i], target, i = 1)]
    <3> DEFINE b == [p \in 1 .. n |-> [tracks[p] EXCEPT !.default = FALSE, !.comment = FALSE]]
    <3>1. /\ a \in Seq(Track) /\ Len(a) = m
          /\ \A i \in 1 .. m : a[i].codec = target /\ a[i].lang = tracks[sources[i]].lang
      <4>1. \A i \in 1 .. m : a[i] \in Track /\ a[i].codec = target
                              /\ a[i].lang = tracks[sources[i]].lang
        <5> HIDE DEF m
        <5> QED BY <1>5
      <4>2. DOMAIN a = 1 .. m /\ a = [i \in 1 .. m |-> a[i]] OBVIOUS
      <4> HIDE DEF a, m
      <4> QED BY <1>1, <4>1, <4>2, TableIsList
    <3>2. /\ b \in Seq(Track) /\ Len(b) = n
          /\ \A p \in 1 .. n : Stays(b[p], tracks[p])
      <4>1. \A p \in 1 .. n : b[p] \in Track /\ Stays(b[p], tracks[p])
        <5> HIDE DEF n
        <5> QED BY <1>6
      <4>2. DOMAIN b = 1 .. n /\ b = [p \in 1 .. n |-> b[p]] OBVIOUS
      <4> HIDE DEF b, n
      <4> QED BY <1>1, <4>1, <4>2, TableIsList
    <3>3. result = a \o b BY <1>1, <2>1 DEF Remux
    <3> HIDE DEF a, b, m, n, result
    <3>4. /\ result \in Seq(Track) /\ Len(result) = m + n
          /\ \A i \in 1 .. m : result[i] = a[i]
          /\ \A p \in 1 .. n : result[m + p] = b[p]
      <4>1. a \in Seq(Track) /\ b \in Seq(Track) BY <3>1, <3>2
      <4>2. Len(a) = m /\ Len(b) = n BY <3>1, <3>2
      <4>3. /\ a \o b \in Seq(Track) /\ Len(a \o b) = Len(a) + Len(b)
            /\ \A i \in 1 .. Len(a) : (a \o b)[i] = a[i]
            /\ \A i \in 1 .. Len(b) : (a \o b)[Len(a) + i] = b[i]
          BY <4>1
      <4> QED BY <3>3, <4>2, <4>3
    <3> QED BY <3>1, <3>2, <3>4
  <2>2. CASE sources[1] # DefaultIndex(tracks)
    <3> DEFINE a == [i \in 1 .. m |-> Added(tracks, sources[i], target, FALSE)]
    <3>1. /\ a \in Seq(Track) /\ Len(a) = m
          /\ \A i \in 1 .. m : a[i].codec = target /\ a[i].lang = tracks[sources[i]].lang
      <4>1. \A i \in 1 .. m : a[i] \in Track /\ a[i].codec = target
                              /\ a[i].lang = tracks[sources[i]].lang
        <5> HIDE DEF m
        <5> QED BY <1>5
      <4>2. DOMAIN a = 1 .. m /\ a = [i \in 1 .. m |-> a[i]] OBVIOUS
      <4> HIDE DEF a, m
      <4> QED BY <1>1, <4>1, <4>2, TableIsList
    <3>2. result = a \o tracks BY <1>1, <2>2 DEF Remux
    <3>3. tracks \in Seq(Track) BY DEF PlanTypes
    <3> HIDE DEF a, m, n, result
    <3>4. /\ result \in Seq(Track) /\ Len(result) = m + n
          /\ \A i \in 1 .. m : result[i] = a[i]
          /\ \A p \in 1 .. n : result[m + p] = tracks[p]
      <4>1. a \in Seq(Track) /\ Len(a) = m BY <3>1
      <4>2. /\ a \o tracks \in Seq(Track) /\ Len(a \o tracks) = Len(a) + Len(tracks)
            /\ \A i \in 1 .. Len(a) : (a \o tracks)[i] = a[i]
            /\ \A i \in 1 .. Len(tracks) : (a \o tracks)[Len(a) + i] = tracks[i]
          BY <3>3, <4>1, SMTT(30)
      <4> QED BY <3>2, <4>1, <4>2 DEF n
    <3>5. \A p \in 1 .. n : Stays(result[m + p], tracks[p])
      <4>1. \A t \in Track : Stays(t, t) BY DEF Stays
      <4>2. \A p \in 1 .. n : tracks[p] \in Track BY <1>2 DEF n
      <4> QED BY <3>4, <4>1, <4>2
    <3> QED BY <3>1, <3>4, <3>5
  <2> QED BY <2>1, <2>2
<1>8. Len(tracks') = m + n /\ tracks' \in {result, Front(result)}
    BY <1>1 DEF Convert, Verify
<1>9. tracks' = result
  <2>1. Len(Front(result)) # m + n
    <3>1. m > 0 BY DEF Convert
    <3> HIDE DEF result
    <3> QED BY <1>1, <1>7, <3>1 DEF Front
  <2> QED BY <1>8, <2>1
<1> HIDE DEF result
<1> QED BY <1>7, <1>8, <1>9 DEF Convert

\* A conversion keeps the release last and a track that plays for each language
\* that had one.
LEMMA ConvertKeeps ==
    ASSUME PlanInv, NEW target \in Targets, NEW sources \in Seq(1 .. Len(tracks)),
           Convert(sources, target), UNCHANGED <<original, played, plan>>,
           nights' \in {nights, nights + 1}
    PROVE  PlanTypes' /\ ReleaseLast' /\ PlanWants'
<1>1. /\ tracks' \in Seq(Track) /\ Len(tracks') = Len(sources) + Len(tracks)
      /\ conversions' = conversions + 1
      /\ \A p \in 1 .. Len(tracks) : Stays(tracks'[Len(sources) + p], tracks[p])
    BY ConvertAdds DEF PlanInv
<1>2. Len(sources) \in Nat /\ Len(tracks) \in Nat /\ Len(original) \in Nat
    BY DEF PlanInv, PlanTypes
<1>3. PlanTypes' BY <1>1, <1>2 DEF PlanInv, PlanTypes
<1>4. ReleaseLast'
  <2>1. Len(original) <= Len(tracks') BY <1>1, <1>2 DEF PlanInv, ReleaseLast
  <2>2. ASSUME NEW p \in 1 .. Len(original)
        PROVE  Stays(tracks'[Len(tracks') - Len(original) + p], original[p])
    <3> DEFINE q == Len(tracks) - Len(original) + p
    <3>1. q \in 1 .. Len(tracks) /\ Len(tracks') - Len(original) + p = Len(sources) + q
        BY <1>1, <1>2 DEF PlanInv, ReleaseLast
    <3>2. Stays(tracks[q], original[p]) BY DEF PlanInv, ReleaseLast
    <3>3. Stays(tracks'[Len(sources) + q], tracks[q])
      <4> HIDE DEF q
      <4> QED BY <1>1, <3>1
    <3> QED BY <3>1, <3>2, <3>3 DEF Stays
  <2> QED BY <2>1, <2>2 DEF ReleaseLast, Stays, Essence
<1>5. PlanWants' BY DEF PlanInv, PlanWants, Wanting, StandsIn, SameLanguage
<1> QED BY <1>3, <1>4, <1>5

\* A track that plays in a language goes on doing so.
Serves(ts, lang) == \E q \in 1 .. Len(ts) : /\ ts[q].codec \notin Incompatible
                                           /\ SameLanguage(ts[q].lang, lang)
LEMMA ConvertServes ==
    ASSUME PlanTypes, NEW target \in Targets, NEW sources \in Seq(1 .. Len(tracks)),
           Convert(sources, target), NEW lang, Serves(tracks, lang)
    PROVE  Serves(tracks, lang)'
<1>1. /\ Len(tracks') = Len(sources) + Len(tracks)
      /\ \A p \in 1 .. Len(tracks) : Stays(tracks'[Len(sources) + p], tracks[p])
    BY ConvertAdds
<1>2. PICK q \in 1 .. Len(tracks) :
          tracks[q].codec \notin Incompatible /\ SameLanguage(tracks[q].lang, lang)
    BY DEF Serves
<1>3. tracks'[Len(sources) + q].codec = tracks[q].codec /\ tracks'[Len(sources) + q].lang = tracks[q].lang
    BY <1>1, <1>2 DEF Stays, Essence
<1>4. Len(sources) \in Nat /\ Len(tracks) \in Nat BY DEF PlanTypes
<1>5. Len(sources) + q \in 1 .. Len(tracks') BY <1>1, <1>2, <1>4
<1> QED BY <1>2, <1>3, <1>5 DEF Serves

\* EveryLanguagePlays in these terms.
LEMMA PlaysServes ==
    PlanTypes => (EveryLanguagePlays <=>
        (nights > 0 => \A p \in 1 .. Len(original) : ~original[p].comment => Serves(tracks, original[p].lang)))
<1> SUFFICES ASSUME PlanTypes
             PROVE  EveryLanguagePlays <=>
                      (nights > 0 => \A p \in 1 .. Len(original) :
                                        ~original[p].comment => Serves(tracks, original[p].lang))
    OBVIOUS
<1>1. DOMAIN tracks = 1 .. Len(tracks) /\ DOMAIN original = 1 .. Len(original) BY DEF PlanTypes
<1> QED BY <1>1 DEF EveryLanguagePlays, Serves

\* What plays after a night plays after a press.
LEMMA PressServes ==
    ASSUME PlanInv, NEW target \in Targets, Press(target), PlanTypes'
    PROVE  EveryLanguagePlays'
<1> DEFINE sources == Assess(tracks, plan)
<1>1. sources \in Seq(1 .. Len(tracks))
  <2>1. tracks \in Seq(Track) /\ Len(tracks) > 0 /\ plan \in Seq(Nat) BY DEF PlanInv, PlanTypes
  <2> QED BY <2>1, AssessType
<1>2. Convert(sources, target) /\ original' = original /\ nights' = nights BY DEF Press
<1> HIDE DEF sources
<1>3. \A lang : Serves(tracks, lang) => Serves(tracks, lang)' BY <1>1, <1>2, ConvertServes DEF PlanInv
<1>4. nights > 0 => \A p \in 1 .. Len(original) :
                       ~original[p].comment => Serves(tracks, original[p].lang)
    BY PlaysServes DEF PlanInv
<1>5. (nights > 0 => \A p \in 1 .. Len(original) :
                        ~original[p].comment => Serves(tracks, original[p].lang))'
    BY <1>2, <1>3, <1>4 DEF Serves
<1> QED BY <1>5, PlaysServes, PTL

\* A night leaves a track that plays for each language.
LEMMA NightServes ==
    ASSUME PlanInv, Night, PlanTypes'
    PROVE  EveryLanguagePlays'
<1> DEFINE sources == Assess(tracks, <<>>)
<1>1. PlanTypes /\ "ac3" \in Targets /\ "ac3" \notin Incompatible
    BY AudioPlanAssumption DEF PlanInv
<1>2. sources \in Seq(1 .. Len(tracks))
  <2>1. tracks \in Seq(Track) /\ Len(tracks) > 0 /\ <<>> \in Seq(Nat) BY <1>1 DEF PlanTypes
  <2> QED BY <2>1, AssessType
<1>3. /\ sources # <<>> /\ conversions' = conversions + 1
      /\ tracks' \in Seq(Track) /\ Len(tracks') = Len(sources) + Len(tracks)
      /\ \A i \in 1 .. Len(sources) :
            tracks'[i].codec = "ac3" /\ tracks'[i].lang = tracks[sources[i]].lang
      /\ \A p \in 1 .. Len(tracks) : Stays(tracks'[Len(sources) + p], tracks[p])
  <2>1. Convert(sources, "ac3") BY DEF Night
  <2> HIDE DEF sources
  <2> QED BY <1>1, <1>2, <2>1, ConvertAdds
<1>4. Len(sources) \in Nat /\ Len(tracks) \in Nat /\ Len(tracks) > 0 BY <1>1, <1>2 DEF PlanTypes
<1>5. original' = original BY DEF Night
<1>6. \A lang : Serves(tracks, lang) => Serves(tracks', lang)
  <2>1. Convert(sources, "ac3") BY DEF Night
  <2> HIDE DEF sources
  <2>2. \A lang : Serves(tracks, lang) => Serves(tracks, lang)' BY <1>1, <1>2, <2>1, ConvertServes
  <2> QED BY <2>2 DEF Serves
\* The main track of a language plays, or has a stand-in, or gets a new track.
<1>7. ASSUME NEW m, Holds(MainTracks(tracks), m) PROVE Serves(tracks', tracks[m].lang)
  <2>1. m \in 1 .. Len(tracks)
    <3>1. MainTracks(tracks) \in Seq(1 .. Len(tracks)) BY <1>1, MainTracksType DEF PlanTypes
    <3> QED BY <1>7, <3>1 DEF Holds
  <2>2. DOMAIN tracks = 1 .. Len(tracks) BY <1>1 DEF PlanTypes
  <2>3. CASE m \in Wanting(tracks)
    <3>1. sources = Filter(MainTracks(tracks), Wanting(tracks)) BY DEF Assess, Wanting
    <3>2. MainTracks(tracks) \in Seq(1 .. Len(tracks)) BY <1>1, MainTracksType DEF PlanTypes
    <3>3. Holds(sources, m)
      <4> HIDE DEF sources
      <4> QED BY <1>7, <2>3, <3>1, <3>2, FilterKeeps
    <3>4. PICK i \in 1 .. Len(sources) : sources[i] = m BY <3>3 DEF Holds
    <3>5. tracks'[i].codec = "ac3" /\ tracks'[i].lang = tracks[m].lang BY <1>3, <3>4
    <3>6. i \in 1 .. Len(tracks') BY <1>3, <1>4
    <3>7. SameLanguage(tracks'[i].lang, tracks[m].lang) BY <3>5 DEF SameLanguage
    <3> HIDE DEF sources
    <3> QED BY <1>1, <3>5, <3>6, <3>7 DEF Serves
  <2>4. CASE m \notin Wanting(tracks)
    <3>1. Serves(tracks, tracks[m].lang)
      <4>1. CASE tracks[m].codec \notin Incompatible BY <2>1, <2>2, <4>1 DEF Serves, SameLanguage
      <4>2. CASE \E p \in DOMAIN tracks : StandsIn(tracks, p, m) BY <2>2, <4>2 DEF Serves, StandsIn
      <4> QED BY <2>1, <2>2, <2>4, <4>1, <4>2 DEF Wanting
    <3> QED BY <1>6, <3>1
  <2> QED BY <2>3, <2>4
\* And every language that a track of the file is in has a main track.
<1>8. ASSUME NEW p \in 1 .. Len(tracks), ~tracks[p].comment
      PROVE  \E m : Holds(MainTracks(tracks), m) /\ tracks[m].lang = tracks[p].lang
  <2> DEFINE lead == DefaultIndex(tracks)
  <2> DEFINE rest == Filter(Positions(tracks), Opening(tracks))
  <2> DEFINE T == {q \in 1 .. Len(tracks) : ~tracks[q].comment /\ tracks[q].lang = tracks[p].lang}
  <2>1. tracks \in Seq(Track) /\ DOMAIN tracks = 1 .. Len(tracks) BY <1>1 DEF PlanTypes
  <2>2. MainTracks(tracks) = <<lead>> \o rest BY <1>4, <2>1, MainTracksType
  <2>3. lead \in 1 .. Len(tracks) BY <1>4, <2>1, DefaultIndexType
  <2>4. /\ Positions(tracks) \in Seq(1 .. Len(tracks)) /\ Len(Positions(tracks)) = Len(tracks)
        /\ \A q \in 1 .. Len(tracks) : Positions(tracks)[q] = q
      BY <2>1, PositionsAre
  <2>5. rest \in Seq(1 .. Len(tracks)) BY <2>4, FilterType
  <2>6. Holds(MainTracks(tracks), lead) /\ \A q : Holds(rest, q) => Holds(MainTracks(tracks), q)
    <3> HIDE DEF lead, rest
    <3>1. /\ Len(MainTracks(tracks)) = Len(rest) + 1 /\ MainTracks(tracks)[1] = lead
          /\ \A i \in 1 .. Len(rest) : MainTracks(tracks)[i + 1] = rest[i]
        BY <2>2, <2>3, <2>5
    <3>2. Len(rest) \in Nat BY <2>5
    <3>3. 1 \in 1 .. Len(rest) + 1 /\ \A i \in 1 .. Len(rest) : i + 1 \in 1 .. Len(rest) + 1 BY <3>2
    <3> QED BY <3>1, <3>3 DEF Holds
  <2>7. CASE tracks[lead].lang = tracks[p].lang BY <2>6, <2>7
  <2>8. CASE tracks[lead].lang # tracks[p].lang
    <3>1. \E q \in 1 .. Len(tracks) : q \in T BY <1>8
    <3>2. PICK q \in 1 .. Len(tracks) : q \in T /\ \A r \in 1 .. q - 1 : r \notin T
      <4> HIDE DEF T
      <4> QED BY <1>4, <3>1, LeastOf
    <3>3. \A r \in 1 .. q - 1 : r \in 1 .. Len(tracks) BY <1>4
    <3>4. q \in Opening(tracks)
      <4>1. \A r \in 1 .. q - 1 : tracks[r].comment \/ tracks[r].lang # tracks[q].lang
          BY <3>2, <3>3
      <4> QED BY <2>1, <2>8, <3>2, <4>1 DEF Opening
    <3>5. Holds(Positions(tracks), q) BY <2>4 DEF Holds
    <3>6. Holds(rest, q) BY <2>4, <3>4, <3>5, FilterKeeps
    <3>7. tracks[q].lang = tracks[p].lang BY <3>2
    <3> HIDE DEF rest
    <3> QED BY <2>6, <3>6, <3>7
  <2> QED BY <2>7, <2>8
<1>9. ASSUME NEW p \in 1 .. Len(original), ~original[p].comment
      PROVE  Serves(tracks', original[p].lang)
  <2> DEFINE q == Len(tracks) - Len(original) + p
  <2>1. Len(original) \in Nat /\ Len(original) <= Len(tracks) BY DEF PlanInv, PlanTypes, ReleaseLast
  <2>2. q \in 1 .. Len(tracks) BY <1>4, <2>1
  <2>3. Stays(tracks[q], original[p]) BY DEF PlanInv, ReleaseLast
  <2>4. ~tracks[q].comment /\ tracks[q].lang = original[p].lang BY <1>9, <2>3 DEF Stays, Essence
  <2> HIDE DEF q
  <2>5. PICK m : Holds(MainTracks(tracks), m) /\ tracks[m].lang = tracks[q].lang BY <1>8, <2>2, <2>4
  <2>6. Serves(tracks', tracks[m].lang) BY <1>7, <2>5
  <2> QED BY <2>4, <2>5, <2>6
<1>10. (nights > 0 => \A p \in 1 .. Len(original) :
                         ~original[p].comment => Serves(tracks, original[p].lang))'
    BY <1>5, <1>9 DEF Serves
<1> QED BY <1>10, PlaysServes, PTL

\* Every step of AudioPlan keeps the invariant.
LEMMA PlanStep == PlanInv /\ [Next]_vars => PlanInv'
<1> SUFFICES ASSUME PlanInv, [Next]_vars PROVE PlanInv'
    OBVIOUS
<1>1. CASE Observe
  <2>1. plan' = Decide(tracks) /\ tracks = original BY <1>1 DEF Observe
  <2>2. UNCHANGED <<tracks, played, original, nights, conversions>> BY <1>1 DEF Observe
  <2>3. original \in Seq(Track) /\ Len(original) > 0 /\ played \in 0 .. Len(original)
      BY DEF PlanInv, PlanTypes
  <2>4. DefaultIndex(original) \in 1 .. Len(original) BY <2>3, DefaultIndexType
  <2>5. Lead(original) \in 1 .. Len(original) BY <2>3, <2>4 DEF Lead
  <2>6. plan' \in Seq(1 .. Len(original)) /\ \A i \in 1 .. Len(plan') : plan'[i] \in Wanting(original)
      BY <2>1, <2>3, <2>5, DecideType
  <2>7. PlanTypes' BY <2>2, <2>6 DEF PlanInv, PlanTypes
  <2>8. ReleaseLast' BY <2>2 DEF PlanInv, ReleaseLast, Stays, Essence
  <2>9. EveryLanguagePlays' BY <2>2 DEF PlanInv, EveryLanguagePlays, SameLanguage
  <2>10. PlanWants' BY <2>2, <2>6 DEF PlanWants, Wanting, StandsIn, SameLanguage
  <2> QED BY <2>7, <2>8, <2>9, <2>10 DEF PlanInv
<1>2. ASSUME NEW t \in Targets, Press(t) PROVE PlanInv'
  <2> DEFINE sources == Assess(tracks, plan)
  <2>1. sources \in Seq(1 .. Len(tracks))
    <3>1. tracks \in Seq(Track) /\ Len(tracks) > 0 /\ plan \in Seq(Nat) BY DEF PlanInv, PlanTypes
    <3> QED BY <3>1, AssessType
  <2>2. Convert(sources, t) /\ UNCHANGED <<original, played, plan>> /\ nights' \in {nights, nights + 1}
      BY <1>2 DEF Press
  <2> HIDE DEF sources
  <2>3. PlanTypes' /\ ReleaseLast' /\ PlanWants' BY <2>1, <2>2, ConvertKeeps
  <2> QED BY <1>2, <2>3, PressServes DEF PlanInv
<1>3. CASE Night
  <2> DEFINE sources == Assess(tracks, <<>>)
  <2>1. sources \in Seq(1 .. Len(tracks))
    <3>1. tracks \in Seq(Track) /\ Len(tracks) > 0 /\ <<>> \in Seq(Nat) BY DEF PlanInv, PlanTypes
    <3> QED BY <3>1, AssessType
  <2>2. Convert(sources, "ac3") /\ UNCHANGED <<original, played, plan>> /\ nights' \in {nights, nights + 1}
      BY <1>3 DEF Night
  <2>3. "ac3" \in Targets BY AudioPlanAssumption
  <2> HIDE DEF sources
  <2>4. PlanTypes' /\ ReleaseLast' /\ PlanWants' BY <2>1, <2>2, <2>3, ConvertKeeps
  <2> QED BY <1>3, <2>4, NightServes DEF PlanInv
<1>4. CASE UNCHANGED vars
  <2>1. UNCHANGED <<tracks, played, plan, original, nights, conversions>> BY <1>4 DEF vars
  <2> QED BY <2>1 DEF PlanInv, PlanTypes, ReleaseLast, Stays, Essence, EveryLanguagePlays,
                      SameLanguage, PlanWants, Wanting, StandsIn
<1> QED BY <1>1, <1>2, <1>3, <1>4 DEF Next

\* A step of the parts is one of AudioPlan's or leaves it alone.
LEMMA PlanStepsApart == PartsNext \/ UNCHANGED allVars => [Next]_vars
BY DEF PartsNext, allVars, plansVars, vars

\* The invariant holds of pi-metrics.
LEMMA PlanInvHolds == PartsSpec => []PlanInv
<1>1. PartsInit => PlanInv BY PlanStarts DEF PartsInit
<1>2. PlanInv /\ [PartsNext]_allVars => PlanInv' BY PlanStep, PlanStepsApart
<1> QED BY <1>1, <1>2, PTL DEF PartsSpec

\* When the session named no track, plan.go lists exactly what the script would
\* convert: the two programs are one rule, for any release and any codecs.
THEOREM TwinsAgreeAlways == PartsSpec => []TwinsAgree
<1>1. PlanInv => TwinsAgree
  <2> SUFFICES ASSUME PlanInv, played = 0 PROVE Decide(original) = Assess(original, <<>>)
      BY DEF TwinsAgree
  <2>1. original \in Seq(Track) /\ Len(original) > 0 BY DEF PlanInv, PlanTypes
  <2>2. Lead(original) = DefaultIndex(original) BY DEF Lead
  <2> QED BY <2>1, <2>2, TwinsDecideAlike
<1> QED BY <1>1, PlanInvHolds, PTL

\* What the page lists as fixable the script builds whole, as long as the file is
\* the one the plan was made for.
THEOREM PlansAreAccepted == PartsSpec => []PlanIsAccepted
<1>1. PlanInv => PlanIsAccepted
  <2> SUFFICES ASSUME PlanInv, tracks = original, plan # <<>> PROVE Assess(tracks, plan) = plan
      BY DEF PlanIsAccepted
  <2>1. /\ original \in Seq(Track) /\ plan \in Seq(1 .. Len(original))
        /\ \A i \in 1 .. Len(plan) : plan[i] \in Wanting(original)
      BY DEF PlanInv, PlanTypes, PlanWants
  <2> QED BY <2>1, PlanAccepted
<1> QED BY <1>1, PlanInvHolds, PTL

\* Whatever is pressed and however many nights pass, the tracks of the release stay
\* in the file, in their order, after the new ones.
THEOREM TracksStay == PartsSpec => []EveryTrackStays
<1>1. PlanInv => EveryTrackStays
  <2> SUFFICES ASSUME PlanInv PROVE EveryTrackStays
      OBVIOUS
  <2>1. DOMAIN original = 1 .. Len(original) BY DEF PlanInv, PlanTypes
  <2> QED BY <2>1 DEF PlanInv, ReleaseLast, Stays, EveryTrackStays
<1> QED BY <1>1, PlanInvHolds, PTL

\* Once a night has converted the file, and whatever is pressed before and after, every
\* language of the release has a track that plays.
THEOREM LanguagesPlay == PartsSpec => []EveryLanguagePlays
<1>1. PlanInv => EveryLanguagePlays BY DEF PlanInv
<1> QED BY <1>1, PlanInvHolds, PTL
-----------------------------------------------------------------------------
(* MediaPass: the world. *)

Places == M!Downloads \cup {"films"}

WorldTypes ==
    /\ names \in [Films -> SUBSET Places]
    /\ torrents \in [Films -> SUBSET {"main", "cross"}]
    /\ queue \in [Films -> {"none", "downloading", "blocked"}]

\* What is still coming in has no other name.
Incoming == \A f \in Films : "incomplete" \in names[f] => names[f] = {"incomplete"}

WorldInv == WorldTypes /\ Incoming

\* The bytes of one film are its size.
LEMMA SumOfOne ==
    ASSUME NEW f \in Films
    PROVE  M!Sum({f}) = Bytes[f]
<1> DEFINE Is(g) == g = [s \in SUBSET {f} |->
                           IF s = {} THEN 0
                           ELSE LET x == CHOOSE x \in s : TRUE IN Bytes[x] + g[s \ {x}]]
<1> DEFINE h == [s \in SUBSET {f} |-> IF s = {} THEN 0 ELSE Bytes[f]]
<1>1. Bytes[f] \in Nat BY MediaAssumption
<1>2. \A s \in SUBSET {f} : s # {} => s = {f} /\ (CHOOSE x \in s : TRUE) = f /\ s \ {f} = {}
    OBVIOUS
<1>3. Is(h)
  <2>1. h[{}] = 0 OBVIOUS
  <2>2. ASSUME NEW s \in SUBSET {f}
        PROVE  h[s] = IF s = {} THEN 0
                      ELSE LET x == CHOOSE x \in s : TRUE IN Bytes[x] + h[s \ {x}]
    <3>1. CASE s = {} BY <3>1
    <3>2. CASE s # {}
      <4>1. s = {f} /\ (CHOOSE x \in s : TRUE) = f /\ s \ {f} = {} BY <1>2, <3>2
      <4>2. h[s] = Bytes[f] BY <3>2
      <4>3. Bytes[f] = Bytes[f] + h[s \ {f}] BY <1>1, <2>1, <4>1
      <4> HIDE DEF h
      <4> QED BY <3>2, <4>1, <4>2, <4>3
    <3> QED BY <3>1, <3>2
  <2>3. DOMAIN h = SUBSET {f} /\ h = [s \in SUBSET {f} |-> h[s]] OBVIOUS
  <2> HIDE DEF h
  <2> QED BY <2>2, <2>3
<1> DEFINE g == CHOOSE i : Is(i)
<1>4. Is(g)
  <2> HIDE DEF Is
  <2> QED BY <1>3
<1>5. M!Sum({f}) = g[{f}]
  BY Zenon DEF M!Sum, M!MapThenSumSet, M!MapThenFoldSet
<1>6. g[{f}] = Bytes[f]
  <2> HIDE DEF g
  <2>1. g[{}] = 0 BY <1>4
  <2>2. g[{f}] = Bytes[f] + g[{f} \ {f}] BY <1>2, <1>4
  <2> QED BY <1>1, <2>1, <2>2, SMTT(30)
<1> QED BY <1>5, <1>6

\* The films start where a film may be.
LEMMA WorldStarts == M!Init => WorldInv
<1> SUFFICES ASSUME M!Init PROVE WorldInv
    OBVIOUS
<1>1. PICK life \in [Films -> M!Lives] :
          /\ names = [f \in Films |-> life[f].names]
          /\ torrents = [f \in Films |-> life[f].torrents]
          /\ queue = [f \in Films |-> life[f].queue]
    BY DEF M!Init
<1>2. \A l \in M!Lives : /\ l.names \in SUBSET Places /\ l.torrents \in SUBSET {"main", "cross"}
                         /\ l.queue \in {"none", "downloading", "blocked"}
                         /\ "incomplete" \in l.names => l.names = {"incomplete"}
    BY DEF M!Lives, M!Life, Places, M!Downloads, M!Bin
<1> QED BY <1>1, <1>2 DEF WorldInv, WorldTypes, Incoming

\* What a move does to a film's names keeps what is coming in alone.
LEMMA RenameKeeps ==
    ASSUME WorldInv, NEW f \in Films, NEW from, NEW to \in SUBSET Places, M!Rename(f, from, to),
           "incomplete" \notin (names[f] \ from) \cup to \/ (names[f] \ from) \cup to = {"incomplete"}
    PROVE  names' \in [Films -> SUBSET Places] /\ Incoming'
<1>1. names' = [names EXCEPT ![f] = (names[f] \ from) \cup to] BY DEF M!Rename
<1> QED BY <1>1 DEF WorldInv, WorldTypes, Incoming

\* Every step keeps the world's invariant.
LEMMA WorldStep == WorldInv /\ [M!Next]_(M!vars) => WorldInv'
<1> SUFFICES ASSUME WorldInv, [M!Next]_(M!vars) PROVE WorldInv'
    OBVIOUS
<1> USE DEF WorldInv, WorldTypes
<1>p. /\ {} \in SUBSET Places /\ {"incomplete"} \in SUBSET Places /\ {"main"} \in SUBSET Places
      /\ {"films"} \in SUBSET Places /\ {"cross"} \in SUBSET Places
      /\ {"binMain"} \in SUBSET Places /\ {"binCross"} \in SUBSET Places
    BY DEF Places, M!Downloads, M!Bin
<1>1. ASSUME NEW f \in Films, M!Grab(f) PROVE WorldInv'
  <2>1. M!Rename(f, {}, {"incomplete"}) /\ names[f] = {} BY <1>1 DEF M!Grab
  <2>2. names' \in [Films -> SUBSET Places] /\ Incoming' BY <1>p, <2>1, RenameKeeps
  <2>3. torrents' \in [Films -> SUBSET {"main", "cross"}]
        /\ queue' \in [Films -> {"none", "downloading", "blocked"}]
      BY <1>1 DEF M!Grab
  <2> QED BY <2>2, <2>3
<1>2. ASSUME NEW f \in Films, M!Completes(f) PROVE WorldInv'
  <2>1. M!Rename(f, {"incomplete"}, {"main"}) BY <1>2 DEF M!Completes
  <2>2. names' \in [Films -> SUBSET Places] /\ Incoming' BY <1>p, <2>1, RenameKeeps
  <2> QED BY <1>2, <2>2 DEF M!Completes
<1>3. ASSUME NEW f \in Films, M!Imports(f) PROVE WorldInv'
  <2>1. "incomplete" \notin names[f] BY <1>3 DEF M!Imports, Incoming
  <2>2. CASE M!Rename(f, {}, {"films"})
    <3>1. names' \in [Films -> SUBSET Places] /\ Incoming' BY <1>p, <2>1, <2>2, RenameKeeps
    <3>2. queue' \in [Films -> {"none", "downloading", "blocked"}] BY <1>3 DEF M!Imports
    <3> QED BY <1>3, <3>1, <3>2 DEF M!Imports
  <2>3. CASE UNCHANGED names
    <3>1. queue' \in [Films -> {"none", "downloading", "blocked"}] BY <1>3 DEF M!Imports
    <3> QED BY <1>3, <2>3, <3>1 DEF M!Imports, Incoming
  <2> QED BY <1>3, <2>2, <2>3 DEF M!Imports
<1>4. ASSUME NEW f \in Films, M!CrossSeeds(f) PROVE WorldInv'
  <2>1. M!Rename(f, {}, {"cross"}) /\ "incomplete" \notin names[f] BY <1>4 DEF M!CrossSeeds, Incoming
  <2>2. names' \in [Films -> SUBSET Places] /\ Incoming' BY <1>p, <2>1, RenameKeeps
  <2>3. torrents' \in [Films -> SUBSET {"main", "cross"}] BY <1>4 DEF M!CrossSeeds
  <2> QED BY <1>4, <2>2, <2>3 DEF M!CrossSeeds
<1>5. ASSUME NEW f \in Films, M!Watched(f) PROVE WorldInv'
  <2>1. "incomplete" \notin names[f] BY <1>5 DEF M!Watched, M!HasFile, Incoming
  <2>2. CASE M!Rename(f, {"films"}, {})
    <3>1. names' \in [Films -> SUBSET Places] /\ Incoming' BY <1>p, <2>1, <2>2, RenameKeeps
    <3> QED BY <1>5, <3>1 DEF M!Watched
  <2>3. CASE UNCHANGED names BY <1>5, <2>3 DEF M!Watched, Incoming
  <2> QED BY <1>5, <2>2, <2>3 DEF M!Watched
<1>6. ASSUME NEW f \in Films, NEW t \in {"main", "cross"}, M!Leaves(f, t) PROVE WorldInv'
  <2>1. "incomplete" \notin names[f] BY <1>6 DEF M!Leaves, Incoming
  <2>2. torrents' \in [Films -> SUBSET {"main", "cross"}] BY <1>6 DEF M!Leaves
  <2>3. CASE M!Rename(f, {t}, {IF t = "main" THEN "binMain" ELSE "binCross"})
    <3>1. names' \in [Films -> SUBSET Places] /\ Incoming' BY <1>p, <2>1, <2>3, RenameKeeps
    <3> QED BY <1>6, <2>2, <3>1 DEF M!Leaves
  <2>4. CASE UNCHANGED names BY <1>6, <2>2, <2>4 DEF M!Leaves, Incoming
  <2> QED BY <1>6, <2>3, <2>4 DEF M!Leaves
<1>7. CASE M!EmptyBin
  <2>1. names' = [f \in Films |-> names[f] \ M!Bin] BY <1>7 DEF M!EmptyBin
  <2>2. "incomplete" \notin M!Bin BY DEF M!Bin
  <2>3. names' \in [Films -> SUBSET Places] /\ Incoming' BY <2>1, <2>2 DEF Incoming
  <2> QED BY <1>7, <2>3 DEF M!EmptyBin
<1>8. CASE UNCHANGED M!world BY <1>8 DEF M!world, Incoming
<1>9. M!Media => UNCHANGED M!world
    BY DEF M!Media, M!QbitMetrics, M!LibrarySizes, M!Movies, M!Queue, M!Cutoff, M!MaintainerrPending,
           M!Stuck, M!Claims, M!Dirs, M!RecycleBin, M!CallFails, M!NextPass, M!Kept, M!world
<1>10. M!Disk => UNCHANGED M!world
    BY DEF M!Disk, M!WalkFilms, M!WalkDownloads, M!Purposes, M!NextWalk, M!DiskOnly, M!world
<1>11. UNCHANGED M!vars => UNCHANGED M!world BY DEF M!vars, M!world
<1> QED BY <1>1, <1>2, <1>3, <1>4, <1>5, <1>6, <1>7, <1>8, <1>9, <1>10, <1>11 DEF M!Next, M!World
-----------------------------------------------------------------------------
(* MediaPass: a pass. *)

\* What a pass says of the orphans and of the bin, when it is so.
SoleIsTrue == out.sole = {f \in Films : "cross" \in torrents[f] /\ names[f] = {"cross"}}
OrphansAreTrue ==
    /\ out.orphans \ {"cross-seed"} =
          {f \in Films : "main" \in names[f] /\ "main" \notin torrents[f] /\ Bytes[f] >= MinOrphan}
    /\ \A f \in Films : f \in out.orphans \ out.linked => ~M!HasFile(f)
BinIsTrue == out.bin.sole \subseteq {f \in Films : names[f] # {} /\ names[f] \subseteq M!Bin}

OutTypes ==
    /\ DOMAIN out = {"sole", "unmanaged", "counts", "waiting", "pending", "stuck", "orphans",
                     "linked", "bin"}
    /\ out = [k \in DOMAIN out |-> out[k]]

\* Call by call, what an undisturbed pass has read and said is so.
PassInv ==
    /\ pc \in {"qbit", "library", "movies", "queue", "cutoff", "pending", "stuck", "claims", "dirs",
               "bin", "done"}
    /\ OutTypes
    /\ calm /\ whole =>
         /\ pc # "qbit" => SoleIsTrue
         /\ pc \in {"queue", "cutoff"} =>
              movies = [file |-> {f \in Films : M!HasFile(f)}, monitored |-> monitored]
         /\ pc = "cutoff" => queued = {f \in Films : queue[f] # "none"}
         /\ pc \in {"pending", "stuck", "claims", "dirs", "bin", "done"} =>
              \A f \in Films : out.waiting[f] = M!Waits(f)
         /\ pc = "dirs" => claims = M!Claimed
         /\ pc \in {"bin", "done"} => OrphansAreTrue
         /\ pc = "done" => BinIsTrue

\* A film has finitely many names.
LEMMA NamesAreFinite ==
    ASSUME WorldInv, NEW f \in Films
    PROVE  IsFiniteSet(names[f])
<1>1. IsFiniteSet({"binMain", "binCross", "main", "cross", "incomplete", "films"})
  <2>1. ASSUME NEW x, NEW y PROVE IsFiniteSet({x, y})
    <3>1. IsFiniteSet({x} \cup {y}) BY FS_Singleton, FS_Union
    <3>2. {x} \cup {y} = {x, y} OBVIOUS
    <3> QED BY <3>1, <3>2
  <2>2. IsFiniteSet({"main", "cross"} \cup {"incomplete", "films"}) BY <2>1, FS_Union
  <2>3. IsFiniteSet({"binMain", "binCross"} \cup ({"main", "cross"} \cup {"incomplete", "films"}))
      BY <2>1, <2>2, FS_Union
  <2>4. {"binMain", "binCross", "main", "cross", "incomplete", "films"} =
          {"binMain", "binCross"} \cup ({"main", "cross"} \cup {"incomplete", "films"})
      OBVIOUS
  <2> QED BY <2>3, <2>4
<1>2. names[f] \in SUBSET {"binMain", "binCross", "main", "cross", "incomplete", "films"}
    BY DEF WorldInv, WorldTypes, Places, M!Downloads, M!Bin
<1> QED BY <1>1, <1>2, FS_Subset

\* MediaPass counts as FiniteSets does.
LEMMA SameCardinality == ASSUME NEW S PROVE M!Cardinality(S) = Cardinality(S)
BY Zenon DEF M!Cardinality, Cardinality

\* The link count of a film says whether one name is all it has.
LEMMA LinksTell ==
    ASSUME WorldInv, NEW f \in Films, NEW place \in names[f]
    PROVE  /\ M!Links(f) <= 1 <=> names[f] = {place}
           /\ M!Links(f) >= 2 <=> names[f] # {place}
           /\ Cardinality(names[f]) = 1 <=> names[f] = {place}
<1>1. IsFiniteSet(names[f]) BY NamesAreFinite
<1>2. M!Links(f) = Cardinality(names[f])
  <2>1. M!Links(f) = M!Cardinality(names[f]) BY MediaAssumption DEF M!Links
  <2> QED BY <2>1, SameCardinality
<1>3. Cardinality(names[f]) \in Nat BY <1>1, FS_CardinalityType
<1>4. IsFiniteSet(names[f] \ {place}) /\ Cardinality(names[f] \ {place}) = Cardinality(names[f]) - 1
    BY <1>1, FS_RemoveElement
<1>5. Cardinality(names[f] \ {place}) \in Nat BY <1>4, FS_CardinalityType
<1>6. Cardinality(names[f] \ {place}) = 0 <=> names[f] \ {place} = {} BY <1>4, FS_EmptySet
<1>7. names[f] \ {place} = {} <=> names[f] = {place} OBVIOUS
<1> QED BY <1>2, <1>3, <1>4, <1>5, <1>6, <1>7

\* qbitMetrics: the cross-seeds that hold their bytes alone.
LEMMA SoleIsSaid ==
    ASSUME WorldInv, PassInv, M!QbitMetrics
    PROVE  SoleIsTrue'
<1>1. out' = [out EXCEPT !["sole"] = {f \in Films : /\ "cross" \in torrents[f] /\ "cross" \in names[f]
                                                   /\ M!Links(f) <= 1 /\ Bytes[f] > 0}]
    BY DEF M!QbitMetrics, M!Says
<1>2. out'.sole = {f \in Films : /\ "cross" \in torrents[f] /\ "cross" \in names[f]
                                /\ M!Links(f) <= 1 /\ Bytes[f] > 0}
    BY <1>1 DEF PassInv, OutTypes
<1>3. \A f \in Films : "cross" \in names[f] => (M!Links(f) <= 1 <=> names[f] = {"cross"}) BY LinksTell
<1>4. \A f \in Films : Bytes[f] > 0 BY MediaAssumption
<1>5. out'.sole = {f \in Films : "cross" \in torrents[f] /\ names[f] = {"cross"}}
    BY <1>2, <1>3, <1>4
<1> QED BY <1>5 DEF M!QbitMetrics, M!Kept, M!world, SoleIsTrue

\* What of a film's lies in a folder of its own is that film.
LEMMA WithinOwn ==
    ASSUME NEW f \in Films
    PROVE  M!Within(f) = IF "main" \in names[f] THEN {f} ELSE {}
<1>1. \A g \in Films : \A place \in M!Downloads :
          M!Component(g, place) = f <=> place = "main" /\ g = f
    BY MediaAssumption DEF M!Component, M!Downloads, M!Bin
<1>2. "main" \in M!Downloads BY DEF M!Downloads
<1> QED BY <1>1, <1>2 DEF M!Within

\* A film's folder is claimed by its torrent, once that has come in.
LEMMA ClaimedOwn ==
    ASSUME WorldInv, NEW f \in Films
    PROVE  f \in M!Claimed <=> "main" \in torrents[f] /\ "incomplete" \notin names[f]
<1>1. \A g \in Films : \A t \in torrents[g] :
          M!Component(g, M!ContentPath(g, t)) = f <=> t = "main" /\ "incomplete" \notin names[g] /\ g = f
    BY MediaAssumption DEF M!Component, M!ContentPath, WorldInv, WorldTypes, M!Bin
<1> QED BY <1>1 DEF M!Claimed

\* orphans: the folders that nobody claims.
LEMMA OrphansAreSaid ==
    ASSUME WorldInv, PassInv, M!Dirs, claims = M!Claimed
    PROVE  OrphansAreTrue'
<1> DEFINE data == {c \in M!Components \ (M!ManagedDir \cup claims) :
                       M!Within(c) # {} /\ M!Sum(M!Within(c)) >= MinOrphan}
<1> DEFINE linked == {c \in data : \E f \in M!Within(c) : M!Links(f) >= 2}
<1>1. out' = [out EXCEPT !.orphans = data, !.linked = linked] BY DEF M!Dirs
<1>2. out'.orphans = data /\ out'.linked = linked
  <2> HIDE DEF data, linked
  <2> QED BY <1>1 DEF PassInv, OutTypes
<1>3. \A f \in Films : f \in data <=> "main" \in names[f] /\ "main" \notin torrents[f] /\ Bytes[f] >= MinOrphan
  <2> TAKE f \in Films
  <2>1. f \in M!Components /\ f \notin M!ManagedDir BY MediaAssumption DEF M!Components, M!ManagedDir
  <2>2. f \in claims <=> "main" \in torrents[f] /\ "incomplete" \notin names[f] BY ClaimedOwn
  <2>3. "main" \in names[f] => "incomplete" \notin names[f] BY DEF WorldInv, Incoming
  <2>4. M!Within(f) = IF "main" \in names[f] THEN {f} ELSE {} BY WithinOwn
  <2>5. M!Sum({f}) = Bytes[f] BY SumOfOne
  <2> QED BY <2>1, <2>2, <2>3, <2>4, <2>5
<1>4. data \subseteq Films \cup {"cross-seed"} BY DEF M!Components, M!ManagedDir
<1>5. "cross-seed" \notin Films BY MediaAssumption
<1>6. data \ {"cross-seed"} =
          {f \in Films : "main" \in names[f] /\ "main" \notin torrents[f] /\ Bytes[f] >= MinOrphan}
  <2> HIDE DEF data
  <2> QED BY <1>3, <1>4, <1>5
<1>7. ASSUME NEW f \in Films, f \in data, f \notin linked PROVE ~M!HasFile(f)
  <2>1. "main" \in names[f] BY <1>3, <1>7
  <2>2. M!Within(f) = {f} BY <2>1, WithinOwn
  <2>3. ~(M!Links(f) >= 2) BY <1>7, <2>2
  <2>4. names[f] = {"main"} BY <2>1, <2>3, LinksTell
  <2> QED BY <2>4 DEF M!HasFile
<1> HIDE DEF data, linked
<1>8. UNCHANGED <<names, torrents>> BY DEF M!Dirs, M!Kept, M!world
<1> QED BY <1>2, <1>6, <1>7, <1>8 DEF OrphansAreTrue, M!HasFile

\* recycleBin: what only the bin holds.
LEMMA BinIsSaid ==
    ASSUME WorldInv, PassInv, M!RecycleBin
    PROVE  BinIsTrue'
<1> DEFINE sole == {f \in Films : names[f] \cap M!Bin # {} /\ Cardinality(names[f]) = 1}
<1> DEFINE said == [main |-> {f \in Films : "binMain" \in names[f]},
                   cross |-> {f \in Films : "binCross" \in names[f]}, sole |-> sole]
<1>1. out' = [out EXCEPT !["bin"] = said]
  <2>1. sole = {f \in Films : names[f] \cap M!Bin # {} /\ M!Cardinality(names[f]) = 1}
      BY SameCardinality
  <2> HIDE DEF sole
  <2> QED BY <2>1 DEF M!RecycleBin, M!Says
<1>2. out'.bin = said
  <2> HIDE DEF said
  <2> QED BY <1>1 DEF PassInv, OutTypes
<1>3. out'.bin.sole = sole
  <2> HIDE DEF sole
  <2> QED BY <1>2
<1>4. ASSUME NEW f \in sole PROVE names[f] # {} /\ names[f] \subseteq M!Bin
  <2>1. PICK place \in names[f] : place \in M!Bin BY <1>4
  <2>2. names[f] = {place} BY <1>4, <2>1, LinksTell
  <2> QED BY <2>1, <2>2
<1> HIDE DEF sole
<1>5. UNCHANGED names BY DEF M!RecycleBin, M!Kept, M!world
<1>6. sole \subseteq Films BY DEF sole
<1> QED BY <1>3, <1>4, <1>5, <1>6 DEF BinIsTrue

\* A pass starts with nothing said.
LEMMA PassStarts == M!Init => PassInv
BY DEF M!Init, PassInv, OutTypes, M!Nothing

\* Every step keeps the invariant of the pass: a move or a failure ends the calm.
LEMMA PassStep == WorldInv /\ PassInv /\ [M!Next]_(M!vars) => PassInv'
<1> SUFFICES ASSUME WorldInv, PassInv, [M!Next]_(M!vars) PROVE PassInv'
    OBVIOUS
<1> USE DEF PassInv, OutTypes
<1>t. \A k \in DOMAIN out : \A v :
          LET o == [out EXCEPT ![k] = v]
          IN  /\ DOMAIN o = DOMAIN out /\ o = [l \in DOMAIN o |-> o[l]]
              /\ o[k] = v /\ \A l \in DOMAIN out \ {k} : o[l] = out[l]
    OBVIOUS
<1>0. ASSUME M!Move PROVE PassInv'
  <2>1. calm' = FALSE /\ pc' = pc /\ out' = out BY <1>0 DEF M!Move, M!pass
  <2> QED BY <2>1
<1>1. M!World => M!Move
    BY DEF M!World, M!Grab, M!Completes, M!Imports, M!CrossSeeds, M!Watched, M!Leaves, M!EmptyBin
<1>2. CASE M!QbitMetrics
  <2>1. SoleIsTrue' BY <1>2, SoleIsSaid
  <2>2. pc' = "library" BY <1>2 DEF M!QbitMetrics, M!Goes
  <2>3. OutTypes' BY <1>2, <1>t, ZenonT(30) DEF M!QbitMetrics, M!Says
  <2> QED BY <2>1, <2>2, <2>3
<1>k. M!Kept => UNCHANGED <<names, torrents, queue, monitored, pending, calm, whole>>
    BY DEF M!Kept, M!world
<1>3. CASE M!LibrarySizes
  <2>1. pc' = "movies" /\ pc = "library" /\ M!Kept BY <1>3 DEF M!LibrarySizes, M!Goes
  <2>2. OutTypes' /\ out'.sole = out.sole BY <1>3, <1>t DEF M!LibrarySizes, M!Says
  <2> QED BY <1>k, <2>1, <2>2 DEF SoleIsTrue
<1>4. CASE M!Movies
  <2>1. pc' = "queue" /\ pc = "movies" /\ M!Kept /\ out' = out BY <1>4 DEF M!Movies, M!Goes
  <2>2. movies' = [file |-> {f \in Films : M!HasFile(f)}, monitored |-> monitored] BY <1>4 DEF M!Movies
  <2> QED BY <1>k, <2>1, <2>2 DEF SoleIsTrue, M!HasFile
<1>5. CASE M!Queue
  <2>1. pc' = "cutoff" /\ pc = "queue" /\ M!Kept /\ out' = out /\ movies' = movies
      BY <1>5 DEF M!Queue, M!Goes
  <2>2. queued' = {f \in Films : queue[f] # "none"} BY <1>5 DEF M!Queue
  <2> QED BY <1>k, <2>1, <2>2 DEF SoleIsTrue, M!HasFile
<1>6. CASE M!Cutoff
  <2> DEFINE below == {f \in Low \cap monitored : M!HasFile(f)}
  <2>1. pc' = "pending" /\ pc = "cutoff" /\ M!Kept BY <1>6 DEF M!Cutoff, M!Goes
  <2>2. out' = [out EXCEPT !["waiting"] = [f \in Films |-> M!Row(f, below)]]
      BY <1>6 DEF M!Cutoff, M!Says
  <2>3. OutTypes' /\ out'.sole = out.sole /\ out'.waiting = [f \in Films |-> M!Row(f, below)]
    <3> HIDE DEF below
    <3> QED BY <1>t, <2>2, ZenonT(30)
  <2>4. ASSUME calm, whole, NEW f \in Films PROVE out'.waiting[f] = M!Waits(f)
    <3>1. out'.waiting[f] = M!Row(f, below) BY <2>3
    <3>2. f \in queued <=> queue[f] # "none" BY <2>1, <2>4
    <3>3. f \in movies.monitored \ movies.file <=> f \in monitored /\ ~M!HasFile(f)
      <4>1. movies = [file |-> {g \in Films : M!HasFile(g)}, monitored |-> monitored] BY <2>1, <2>4
      <4> QED BY <4>1
    <3>4. f \in below <=> f \in monitored \cap Low /\ M!HasFile(f) OBVIOUS
    <3> HIDE DEF below
    <3>5. M!Row(f, below) = M!Waits(f)
      <4>1. CASE queue[f] # "none" BY <3>2, <4>1 DEF M!Row, M!Waits
      <4>2. CASE queue[f] = "none" /\ f \in monitored /\ ~M!HasFile(f)
          BY <3>2, <3>3, <4>2 DEF M!Row, M!Waits
      <4>3. CASE queue[f] = "none" /\ ~(f \in monitored /\ ~M!HasFile(f)) /\ f \in below
          BY <3>2, <3>3, <3>4, <4>3 DEF M!Row, M!Waits
      <4>4. CASE queue[f] = "none" /\ ~(f \in monitored /\ ~M!HasFile(f)) /\ f \notin below
          BY <3>2, <3>3, <3>4, <4>4 DEF M!Row, M!Waits
      <4> QED BY <4>1, <4>2, <4>3, <4>4
    <3> QED BY <3>1, <3>5
  <2> QED BY <1>k, <2>1, <2>3, <2>4 DEF SoleIsTrue, M!Waits, M!HasFile
<1>7. CASE M!MaintainerrPending \/ M!Stuck
  <2>1. /\ pc \in {"pending", "stuck"} /\ pc' \in {"stuck", "claims"} /\ M!Kept
        /\ UNCHANGED <<movies, queued, claims>>
      BY <1>7 DEF M!MaintainerrPending, M!Stuck, M!Goes
  <2>2. OutTypes' /\ out'.sole = out.sole /\ out'.waiting = out.waiting
      BY <1>7, <1>t DEF M!MaintainerrPending, M!Stuck, M!Says
  <2> QED BY <1>k, <2>1, <2>2 DEF SoleIsTrue, M!Waits, M!HasFile
<1>8. CASE M!Claims
  <2>1. pc = "claims" /\ pc' = "dirs" /\ M!Kept /\ out' = out /\ claims' = M!Claimed
      BY <1>8 DEF M!Claims, M!Goes
  <2>2. UNCHANGED <<names, torrents>> BY <1>k, <2>1
  <2>3. M!Claimed' = M!Claimed BY <2>2 DEF M!Claimed, M!Component, M!ContentPath
  <2> QED BY <1>k, <2>1, <2>3 DEF SoleIsTrue, M!Waits, M!HasFile
<1>9. CASE M!Dirs
  <2>1. pc = "dirs" /\ pc' = "bin" /\ M!Kept BY <1>9 DEF M!Dirs, M!Goes
  <2>2. OutTypes' /\ out'.sole = out.sole /\ out'.waiting = out.waiting
    <3>1. \E data, linked : out' = [out EXCEPT !.orphans = data, !.linked = linked] BY <1>9 DEF M!Dirs
    <3> QED BY <3>1
  <2>3. calm /\ whole => OrphansAreTrue' BY <1>9, <2>1, OrphansAreSaid
  <2> QED BY <1>k, <2>1, <2>2, <2>3 DEF SoleIsTrue, M!Waits, M!HasFile
<1>10. CASE M!RecycleBin
  <2>1. pc = "bin" /\ pc' = "done" /\ M!Kept BY <1>10 DEF M!RecycleBin, M!Goes
  <2>2. /\ OutTypes' /\ out'.sole = out.sole /\ out'.waiting = out.waiting
        /\ out'.orphans = out.orphans /\ out'.linked = out.linked
    <3>1. PICK v : out' = [out EXCEPT !["bin"] = v] BY <1>10 DEF M!RecycleBin, M!Says
    <3>2. out' = [k \in DOMAIN out |-> IF k = "bin" THEN v ELSE out[k]] BY <3>1
    <3>3. DOMAIN out' = DOMAIN out /\ \A k \in DOMAIN out \ {"bin"} : out'[k] = out[k] BY <3>2
    <3> QED BY <3>2, <3>3
  <2>3. BinIsTrue' BY <1>10, BinIsSaid
  <2> QED BY <1>k, <2>1, <2>2, <2>3 DEF SoleIsTrue, M!Waits, M!HasFile, OrphansAreTrue
<1>11. CASE M!CallFails
  <2>1. whole' = FALSE /\ pc' \in {"library", "movies", "pending", "cutoff", "stuck", "claims", "bin"}
      BY <1>11 DEF M!CallFails
  <2>2. OutTypes' BY <1>11, <1>t DEF M!CallFails
  <2> QED BY <2>1, <2>2
<1>12. CASE M!NextPass
  <2>1. pc' = "qbit" /\ out' = M!Nothing BY <1>12 DEF M!NextPass, M!Goes
  <2> QED BY <2>1 DEF M!Nothing
<1>13. CASE M!Disk \/ UNCHANGED M!vars
  <2>1. UNCHANGED <<names, torrents, queue, monitored, pending, calm, whole, pc, movies, queued, claims, out>>
      BY <1>13 DEF M!Disk, M!WalkFilms, M!WalkDownloads, M!Purposes, M!NextWalk, M!DiskOnly, M!world,
                   M!pass, M!vars
  <2>2. M!Claimed' = M!Claimed BY <2>1 DEF M!Claimed, M!Component, M!ContentPath
  <2> QED BY <2>1, <2>2 DEF SoleIsTrue, M!Waits, M!HasFile, OrphansAreTrue, BinIsTrue
<1> QED BY <1>0, <1>1, <1>2, <1>3, <1>4, <1>5, <1>6, <1>7, <1>8, <1>9, <1>10, <1>11, <1>12, <1>13
        DEF M!Next, M!Media
-----------------------------------------------------------------------------
(* MediaPass: a walk of the disk. *)

\* A walk charges each film it finds to the folder it finds it in first.
DiskInv ==
    /\ walk \in {"films", "downloads", "purpose", "done"}
    /\ charged \in [films : SUBSET Films, downloads : SUBSET Films]
    /\ found \in [Films -> SUBSET Places]
    /\ walk = "downloads" =>
         /\ charged.films = {f \in Films : found[f] # {}}
         /\ still => \A f \in Films : found[f] = names[f] \cap {"films"}
    /\ walk = "purpose" =>
         /\ charged.films \cap charged.downloads = {}
         /\ charged.films \cup charged.downloads = {f \in Films : found[f] # {}}
         /\ still => \A f \in Films : found[f] = names[f]
    /\ UsageAddsUp

\* A walk starts with nothing charged.
LEMMA DiskStarts == M!Init => DiskInv
BY DEF M!Init, DiskInv, UsageAddsUp, M!UsageAddsUp

\* Every film that is found has a purpose.
LEMMA PurposeIsOne ==
    ASSUME NEW f \in Films, NEW answered \in BOOLEAN
    PROVE  M!Purpose(f, answered) # "none"
<1>1. CASE "films" \in found[f] BY <1>1 DEF M!Purpose
<1>2. CASE "films" \notin found[f] BY <1>2 DEF M!Purpose
<1> QED BY <1>1, <1>2

\* Every step keeps the invariant of the walk.
LEMMA DiskStep == WorldInv /\ DiskInv /\ [M!Next]_(M!vars) => DiskInv'
<1> SUFFICES ASSUME WorldInv, DiskInv, [M!Next]_(M!vars) PROVE DiskInv'
    OBVIOUS
<1> USE DEF DiskInv, UsageAddsUp, M!UsageAddsUp
<1>1. M!World => M!Move
    BY DEF M!World, M!Grab, M!Completes, M!Imports, M!CrossSeeds, M!Watched, M!Leaves, M!EmptyBin
<1>2. ASSUME M!Move PROVE DiskInv'
  <2>1. still' = FALSE /\ UNCHANGED <<walk, found, charged, purposes>> BY <1>2 DEF M!Move, M!disk
  <2> QED BY <2>1
<1>3. CASE M!Media \/ UNCHANGED M!vars
  <2>1. UNCHANGED <<names, walk, found, charged, purposes, still>>
      BY <1>3 DEF M!Media, M!QbitMetrics, M!LibrarySizes, M!Movies, M!Queue, M!Cutoff, M!MaintainerrPending,
           M!Stuck, M!Claims, M!Dirs, M!RecycleBin, M!CallFails, M!NextPass, M!Kept, M!world, M!disk, M!vars
  <2> QED BY <2>1
<1>p. "films" \in Places /\ M!Downloads \subseteq Places /\ Places = M!Downloads \cup {"films"}
    BY DEF Places
<1>4. CASE M!WalkFilms
  <2>1. walk' = "downloads" /\ UNCHANGED <<names, still, purposes>>
      BY <1>4 DEF M!WalkFilms, M!DiskOnly, M!world
  <2>2. found' = [f \in Films |-> names[f] \cap {"films"}] BY <1>4 DEF M!WalkFilms
  <2>3. charged' = [charged EXCEPT !.films = {f \in Films : "films" \in names[f]}]
      BY <1>4 DEF M!WalkFilms, M!HasFile
  <2> QED BY <1>p, <2>1, <2>2, <2>3
<1>5. CASE M!WalkDownloads
  <2>1. walk = "downloads" /\ walk' = "purpose" /\ UNCHANGED <<names, still, purposes>>
      BY <1>5 DEF M!WalkDownloads, M!DiskOnly, M!world
  <2>2. found' = [f \in Films |-> found[f] \cup (names[f] \cap M!Downloads)] BY <1>5 DEF M!WalkDownloads
  <2>3. charged' = [charged EXCEPT !.downloads =
                       {f \in Films : names[f] \cap M!Downloads # {} /\ found[f] = {}}]
      BY <1>5 DEF M!WalkDownloads
  <2>4. /\ charged'.films = charged.films
        /\ charged'.downloads = {f \in Films : names[f] \cap M!Downloads # {} /\ found[f] = {}}
      BY <2>3
  <2>5. charged' \in [films : SUBSET Films, downloads : SUBSET Films] BY <2>3
  <2>6. found' \in [Films -> SUBSET Places] BY <1>p, <2>2
  <2>7. still => \A f \in Films : found'[f] = names[f]
      BY <1>p, <2>1, <2>2 DEF WorldInv, WorldTypes
  <2>8. /\ charged'.films \cap charged'.downloads = {}
        /\ charged'.films \cup charged'.downloads = {f \in Films : found'[f] # {}}
      BY <2>1, <2>2, <2>4
  <2> QED BY <2>1, <2>5, <2>6, <2>7, <2>8
<1>6. CASE M!Purposes
  <2>1. walk = "purpose" /\ walk' = "done" /\ UNCHANGED <<names, still, found, charged>>
      BY <1>6 DEF M!Purposes, M!world
  <2>2. PICK answered \in BOOLEAN :
           purposes' = [f \in Films |-> IF found[f] = {} THEN "none" ELSE M!Purpose(f, answered)]
      BY <1>6 DEF M!Purposes
  <2>3. {f \in Films : purposes'[f] # "none"} = {f \in Films : found[f] # {}}
      BY <2>2, PurposeIsOne
  <2> QED BY <2>1, <2>3
<1>7. CASE M!NextWalk
  <2>1. /\ walk' = "films" /\ found' = [f \in Films |-> {}]
        /\ charged' = [films |-> {}, downloads |-> {}]
      BY <1>7 DEF M!NextWalk
  <2> QED BY <2>1
<1> QED BY <1>1, <1>2, <1>3, <1>4, <1>5, <1>6, <1>7 DEF M!Next, M!Disk

\* A step of the parts is one of MediaPass' or leaves it alone.
LEMMA MediaStepsApart == PartsNext \/ UNCHANGED allVars => [M!Next]_(M!vars)
BY DEF PartsNext, allVars, mediaVars, M!vars, M!world, M!pass, M!disk

\* The invariants hold of pi-metrics.
LEMMA MediaInvHolds == PartsSpec => [](WorldInv /\ PassInv /\ DiskInv)
<1>1. PartsInit => WorldInv /\ PassInv /\ DiskInv
    BY WorldStarts, PassStarts, DiskStarts DEF PartsInit
<1>2. WorldInv /\ PassInv /\ DiskInv /\ [PartsNext]_allVars => (WorldInv /\ PassInv /\ DiskInv)'
    BY WorldStep, PassStep, DiskStep, MediaStepsApart
<1> QED BY <1>1, <1>2, PTL DEF PartsSpec

\* A pass in which nothing moved and no call failed says what is so, for any films,
\* sizes and histories, however often passes before it were disturbed.
THEOREM CalmPassesAreTrue == PartsSpec => []CalmPassIsTrue
<1>1. PassInv => CalmPassIsTrue
    BY DEF PassInv, SoleIsTrue, OrphansAreTrue, BinIsTrue, CalmPassIsTrue, M!CalmPassIsTrue
<1> QED BY <1>1, MediaInvHolds, PTL

\* The purposes and the folders tell of the same films, each of them once, whatever
\* moves under the walk.
THEOREM UsageAlwaysAddsUp == PartsSpec => []UsageAddsUp
<1>1. DiskInv => UsageAddsUp BY DEF DiskInv
<1> QED BY <1>1, MediaInvHolds, PTL
-----------------------------------------------------------------------------
(* AudioLedger: what a ledger is, and what a poll folds into it. *)

Verdicts == {"direct_play_off", "refuses_target", "not_library", "main_playable", "has_playable",
             "actionable", ""}
CauseNames == {"", "codec", "no_direct_play", "other", "unknown"}
Entry == [path : Files, codec : L!Known, cause : CauseNames, decision : Verdicts]
PathOf == [e \in Entry |-> e.path]

\* The ledgers of one entry per file that have learned only what is in lessons.
Ledgers(lessons) ==
    {l \in [codecs : [L!Known -> SUBSET Clients], files : Seq(Entry)] :
        /\ Apart(l.files, PathOf)
        /\ \A codec \in L!Known : \A c \in l.codecs[codec] : <<codec, c>> \in lessons}

AllDecided(l) == \A i \in DOMAIN l.files : l.files[i].decision = L!Decide(l.files[i], l.codecs)

\* A row of a server, and one that teaches only what is in lessons.
RowType ==
    [client : Clients, id : 1 .. MaxPlays, key : Files, codec : L!Known, video : BOOLEAN,
     audio : BOOLEAN, cause : CauseNames, file : Files \cup {""}]
Heard(lessons) == {r \in RowType : L!Learnable(r) => <<r.codec, r.client>> \in lessons}

\* An entry that is decided again is an entry of the same file, and stays decided.
LEMMA DecidedEntry ==
    ASSUME NEW e \in Entry, NEW codecs
    PROVE  LET d == L!Decided(e, codecs)
           IN  d \in Entry /\ d.path = e.path /\ d.decision = L!Decide(d, codecs)
<1> DEFINE caused == [e EXCEPT !.cause = IF @ = "" THEN "codec" ELSE @]
<1> DEFINE d == [caused EXCEPT !.decision = L!Decide(caused, codecs)]
<1>1. caused \in Entry /\ caused.path = e.path BY DEF Entry, CauseNames
<1>2. \A w : L!Decide(w, codecs) \in Verdicts BY DEF L!Decide, Verdicts
<1> HIDE DEF caused
<1>3. d \in Entry /\ d.path = e.path BY <1>1, <1>2 DEF Entry
<1>4. d.decision = L!Decide(caused, codecs) BY <1>1 DEF Entry
<1>5. d.path = caused.path /\ d.codec = caused.codec /\ d.cause = caused.cause BY <1>1 DEF Entry
<1> HIDE DEF d
<1>6. L!Decide(d, codecs) = L!Decide(caused, codecs) BY <1>5 DEF L!Decide
<1>7. L!Decided(e, codecs) = d BY DEF L!Decided, caused, d
<1> QED BY <1>3, <1>4, <1>6, <1>7

\* Deciding the entries again keeps them and decides them all.
LEMMA LoadDecides ==
    ASSUME NEW lessons, NEW l \in Ledgers(lessons)
    PROVE  L!Load(l) \in Ledgers(lessons) /\ AllDecided(L!Load(l))
<1> DEFINE fs == [i \in DOMAIN l.files |-> L!Decided(l.files[i], l.codecs)]
<1> DEFINE n == Len(l.files)
<1>1. l.files \in Seq(Entry) /\ n \in Nat /\ DOMAIN l.files = 1 .. n BY DEF Ledgers
<1>2. \A i \in 1 .. n : /\ fs[i] \in Entry /\ fs[i].path = l.files[i].path
                        /\ fs[i].decision = L!Decide(fs[i], l.codecs)
    BY <1>1, DecidedEntry
<1>3. DOMAIN fs = 1 .. n /\ fs = [i \in 1 .. n |-> fs[i]] BY <1>1
<1>4. L!Load(l) = [l EXCEPT !.files = fs] BY DEF L!Load
<1> HIDE DEF fs, n
<1>5. fs \in Seq(Entry) /\ Len(fs) = n BY <1>1, <1>2, <1>3, TableIsList
<1>6. Apart(fs, PathOf)
  <2>1. \A i \in 1 .. n : PathOf[fs[i]] = PathOf[l.files[i]]
      BY <1>1, <1>2 DEF PathOf
  <2>2. Apart(l.files, PathOf) BY DEF Ledgers
  <2> QED BY <1>5, <2>1, <2>2 DEF Apart, n
<1>7. L!Load(l).files = fs /\ L!Load(l).codecs = l.codecs BY <1>4 DEF Ledgers
<1>8. L!Load(l) \in Ledgers(lessons) BY <1>4, <1>5, <1>6 DEF Ledgers
<1>9. AllDecided(L!Load(l)) BY <1>2, <1>3, <1>7 DEF AllDecided
<1> QED BY <1>8, <1>9

\* The instance's Filter is Filter.
LEMMA SameFilter == ASSUME NEW s, NEW T PROVE L!Filter(s, T) = Filter(s, T)
BY Zenon DEF L!Filter, Filter

\* recordFile keeps one entry per file; it changes nothing it does not say it does.
LEMMA RecordFileKeeps ==
    ASSUME NEW lessons, NEW l \in Ledgers(lessons), NEW s \in RowType
    PROVE  /\ L!RecordFile(l, s) \in Ledgers(lessons)
           /\ ~L!Records(l, s) => L!RecordFile(l, s) = l
<1> DEFINE entry == [path |-> s.file, codec |-> s.codec, cause |-> s.cause, decision |-> ""]
<1> DEFINE T == {e \in L!ToSet(l.files) : e.path # s.file}
<1> DEFINE rest == Filter(l.files, T)
<1> DEFINE lined == <<entry>> \o rest
<1> DEFINE fs == IF Len(lined) > LedgerLimit THEN SubSeq(lined, 1, LedgerLimit) ELSE lined
<1>1. CASE ~L!Records(l, s) BY <1>1 DEF L!RecordFile
<1>2. CASE L!Records(l, s)
  <2>1. L!RecordFile(l, s) = [l EXCEPT !.files = fs]
    <3>1. rest = L!Filter(l.files, T)
      <4> HIDE DEF T
      <4> QED BY SameFilter
    <3> HIDE DEF rest, T
    <3> QED BY <1>2, <3>1 DEF L!RecordFile, T
  <2>2. l.files \in Seq(Entry) /\ Apart(l.files, PathOf) BY DEF Ledgers
  <2>3. entry \in Entry
    <3>1. s.file \in Files BY <1>2 DEF L!Records, RowType
    <3> QED BY <3>1 DEF RowType, Entry, Verdicts
  <2>4. rest \in Seq(Entry)
    <3> HIDE DEF T
    <3> QED BY <2>2, FilterType
  <2>5. Apart(rest, PathOf)
    <3> HIDE DEF T
    <3> QED BY <2>2, FilterApart
  <2>6. \A j \in 1 .. Len(rest) : PathOf[rest[j]] # s.file
    <3> SUFFICES ASSUME NEW j \in 1 .. Len(rest) PROVE PathOf[rest[j]] # s.file
        OBVIOUS
    <3> HIDE DEF T, rest
    <3>1. Holds(rest, rest[j]) BY DEF Holds
    <3>2. rest[j] \in T BY <2>2, <3>1, FilterKeeps DEF rest
    <3>3. rest[j] \in Entry BY <2>4
    <3> QED BY <3>2, <3>3 DEF T, PathOf
  <2> HIDE DEF rest, T
  <2>7. PathOf[entry] = s.file BY <2>3 DEF PathOf
  <2> HIDE DEF entry
  <2>8. /\ lined \in Seq(Entry) /\ Len(lined) = Len(rest) + 1 /\ Len(rest) \in Nat
        /\ lined[1] = entry /\ \A j \in 2 .. Len(lined) : lined[j] = rest[j - 1]
      BY <2>3, <2>4
  <2> HIDE DEF lined
  <2>9. Apart(lined, PathOf)
    <3> SUFFICES ASSUME NEW i \in 1 .. Len(lined), NEW j \in 1 .. Len(lined),
                        PathOf[lined[i]] = PathOf[lined[j]]
                 PROVE  i = j
        BY DEF Apart
    <3>1. \A k \in 1 .. Len(lined) : k # 1 => k \in 2 .. Len(lined) /\ k - 1 \in 1 .. Len(rest)
        BY <2>8
    <3>2. CASE i = 1 /\ j # 1 BY <2>6, <2>7, <2>8, <3>1, <3>2
    <3>3. CASE i # 1 /\ j = 1 BY <2>6, <2>7, <2>8, <3>1, <3>3
    <3>4. CASE i # 1 /\ j # 1
      <4>1. i - 1 \in 1 .. Len(rest) /\ j - 1 \in 1 .. Len(rest) BY <3>1, <3>4
      <4>2. lined[i] = rest[i - 1] /\ lined[j] = rest[j - 1] BY <2>8, <3>1, <3>4
      <4>3. PathOf[rest[i - 1]] = PathOf[rest[j - 1]] BY <4>2
      <4>4. i - 1 = j - 1
        <5>1. \A p, q \in 1 .. Len(rest) : PathOf[rest[p]] = PathOf[rest[q]] => p = q BY <2>5 DEF Apart
        <5> QED BY <4>1, <4>3, <5>1
      <4> QED BY <2>8, <4>4
    <3> QED BY <3>2, <3>3, <3>4
  <2>10. fs \in Seq(Entry) /\ Apart(fs, PathOf)
    <3>1. CASE Len(lined) > LedgerLimit
      <4>1. LedgerLimit \in Nat /\ fs = SubSeq(lined, 1, LedgerLimit) BY <3>1, LedgerAssumption
      <4>2. /\ fs \in Seq(Entry) /\ Len(fs) = LedgerLimit
            /\ \A i \in 1 .. Len(fs) : i \in 1 .. Len(lined) /\ fs[i] = lined[i]
        <5> HIDE DEF fs
        <5> QED BY <2>8, <3>1, <4>1
      <4> QED BY <2>9, <4>2 DEF Apart
    <3>2. CASE ~(Len(lined) > LedgerLimit) BY <2>8, <2>9, <3>2
    <3> QED BY <3>1, <3>2
  <2> HIDE DEF fs
  <2> QED BY <1>2, <2>1, <2>10 DEF Ledgers
<1> QED BY <1>1, <1>2

\* One session in record: it teaches what it may.
LEMMA FoldKeeps ==
    ASSUME NEW lessons, NEW l \in Ledgers(lessons), NEW s \in Heard(lessons)
    PROVE  /\ L!Fold(l, s) \in Ledgers(lessons)
           /\ ~L!Changes(l, s) => L!Fold(l, s) = l
<1>1. s \in RowType BY DEF Heard
<1> DEFINE taught == [l EXCEPT !.codecs[s.codec] = @ \cup {s.client}]
<1>2. CASE L!Learnable(s)
  <2>1. <<s.codec, s.client>> \in lessons /\ s.codec \in L!Known /\ s.client \in Clients
      BY <1>2 DEF Heard, RowType
  <2>2. taught \in Ledgers(lessons) BY <2>1 DEF Ledgers
  <2>3. L!Fold(l, s) = L!RecordFile(taught, s) BY <1>2 DEF L!Fold
  <2> HIDE DEF taught
  <2> QED BY <1>1, <1>2, <2>2, <2>3, RecordFileKeeps DEF L!Changes
<1>3. CASE ~L!Learnable(s)
  <2>1. L!Fold(l, s) = L!RecordFile(l, s) BY <1>3 DEF L!Fold
  <2> QED BY <1>1, <1>3, <2>1, RecordFileKeeps DEF L!Changes
<1> QED BY <1>2, <1>3

\* record: everything is decided again when anything changed, and was before when
\* nothing did.
LEMMA RecordKeeps ==
    ASSUME NEW lessons, NEW l \in Ledgers(lessons), AllDecided(l),
           NEW sessions \in Seq(Heard(lessons))
    PROVE  LET new == L!Record(l, sessions)
           IN  new.ledger \in Ledgers(lessons) /\ AllDecided(new.ledger)
<1> DEFINE n == Len(sessions)
<1> DEFINE V == {v \in [ledger : Ledgers(lessons), changed : BOOLEAN] : ~v.changed => v.ledger = l}
<1> DEFINE first == [ledger |-> l, changed |-> FALSE]
<1> DEFINE Made(v, s) == [ledger |-> L!Fold(v.ledger, s), changed |-> v.changed \/ L!Changes(v.ledger, s)]
<1> DEFINE turn == [k \in 1 .. n |-> [v \in V |-> Made(v, sessions[k])]]
<1> DEFINE Is(f) == f = [i \in 0 .. n |-> IF i = 0 THEN first
                           ELSE LET before == f[i - 1] IN Made(before, sessions[i])]
<1>1. n \in Nat /\ first \in V OBVIOUS
<1>2. ASSUME NEW v \in V, NEW s \in Heard(lessons) PROVE Made(v, s) \in V
  <2>1. v.ledger \in Ledgers(lessons) /\ v.changed \in BOOLEAN /\ (~v.changed => v.ledger = l)
      OBVIOUS
  <2>2. L!Fold(v.ledger, s) \in Ledgers(lessons) BY <2>1, FoldKeeps
  <2>3. ~L!Changes(v.ledger, s) => L!Fold(v.ledger, s) = v.ledger BY <2>1, FoldKeeps
  <2>4. (v.changed \/ L!Changes(v.ledger, s)) \in BOOLEAN OBVIOUS
  <2> QED BY <2>1, <2>2, <2>3, <2>4
<1> HIDE DEF Made
<1>3. \A k \in 1 .. n : sessions[k] \in Heard(lessons) OBVIOUS
<1>4. turn \in [1 .. n -> [V -> V]]
  <2> HIDE DEF V, n
  <2> QED BY <1>2, <1>3
<1>5. PICK g : LoopValues(g, n, V, first, turn)
  <2> HIDE DEF n, V, first, turn
  <2> QED BY <1>1, <1>4, LoopRuns
<1>6. \A k \in 1 .. n : g[k] = Made(g[k - 1], sessions[k])
  <2> SUFFICES ASSUME NEW k \in 1 .. n PROVE g[k] = Made(g[k - 1], sessions[k])
      OBVIOUS
  <2> HIDE DEF V
  <2>1. k - 1 \in 0 .. n BY <1>1
  <2>2. g[k - 1] \in V BY <1>5, <2>1 DEF LoopValues
  <2>3. turn[k][g[k - 1]] = Made(g[k - 1], sessions[k]) BY <2>2
  <2> QED BY <1>5, <2>3 DEF LoopValues
<1>7. Is(g)
  <2> HIDE DEF V, n, first
  <2>1. DOMAIN g = 0 .. n /\ g = [i \in 0 .. n |-> g[i]] /\ g[0] = first BY <1>5 DEF LoopValues
  <2>2. \A i \in 0 .. n : i # 0 => i \in 1 .. n BY <1>1
  <2>3. \A i \in 0 .. n : g[i] = IF i = 0 THEN first ELSE Made(g[i - 1], sessions[i])
      BY <1>6, <2>1, <2>2
  <2> QED BY <2>1, <2>3
<1> DEFINE f == CHOOSE h : Is(h)
<1>8. Is(f)
  <2> HIDE DEF Is
  <2> QED BY <1>7
<1>9. L!Folded(l, sessions) = f[n] BY Zenon DEF L!Folded, Made
<1> HIDE DEF f
<1>10. f[0] = first /\ \A k \in 1 .. n : f[k] = Made(f[k - 1], sessions[k])
  <2> HIDE DEF n, first
  <2>1. \A k \in 1 .. n : k \in 0 .. n /\ k # 0 BY <1>1
  <2>2. 0 \in 0 .. n BY <1>1
  <2> QED BY <1>8, <2>1, <2>2
<1>11. f[n] \in V
  <2>1. \A k \in 1 .. n : f[k - 1] \in V => f[k] = turn[k][f[k - 1]]
    <3> HIDE DEF V, n
    <3> QED BY <1>10
  <2> HIDE DEF n, V, first, turn
  <2>2. LoopTurns(f, n, V, first, turn) BY <1>10, <2>1 DEF LoopTurns
  <2> QED BY <1>1, <1>5, <2>2, LoopEnds
<1> DEFINE new == L!Folded(l, sessions)
<1>12. new.ledger \in Ledgers(lessons) /\ new.changed \in BOOLEAN /\ (~new.changed => new.ledger = l)
       /\ new = [ledger |-> new.ledger, changed |-> new.changed]
    BY <1>9, <1>11
<1> HIDE DEF new
<1>13. CASE new.changed
  <2>1. L!Record(l, sessions) = [new EXCEPT !.ledger = L!Load(new.ledger)]
      BY <1>13 DEF L!Record, new
  <2>2. L!Record(l, sessions).ledger = L!Load(new.ledger) BY <1>12, <2>1
  <2> QED BY <1>12, <2>2, LoadDecides
<1>14. CASE ~new.changed
  <2>1. L!Record(l, sessions) = new BY <1>14 DEF L!Record, new
  <2> QED BY <1>12, <1>14, <2>1
<1> QED BY <1>12, <1>13, <1>14
-----------------------------------------------------------------------------
(* AudioLedger: the rows of a poll. *)

Asks == UNION {Profile[c].directPlay : c \in Clients}
Session(n) == [id : 1 .. n, file : Files, track : Nat, asked : Asks]

\* A session is of one that was opened, on a track that its file has.
PlayTypes ==
    /\ plays \in 0 .. MaxPlays
    /\ playing \in [Clients -> {L!Idle} \cup Session(plays)]
    /\ \A c \in Clients : playing[c] # L!Idle => playing[c].track \in 1 .. Len(File[playing[c].file].tracks)
    /\ log \in [L!Sessions -> Asks \cup {""}] /\ oldLog \in [L!Sessions -> Asks \cup {""}]

\* The bounds are numbers.
LEMMA BoundsAre == MaxPlays \in Nat /\ LedgerLimit \in Nat
BY LedgerAssumption

\* A file has tracks, whose codecs are known.
LEMMA TracksAre ==
    ASSUME NEW f \in Files
    PROVE  /\ Len(File[f].tracks) \in Nat /\ 1 \in 1 .. Len(File[f].tracks)
           /\ \A k \in 1 .. Len(File[f].tracks) : File[f].tracks[k] \in L!Known
<1>1. File[f].tracks \in Seq(STRING) /\ File[f].tracks # <<>> BY LedgerAssumption
<1>2. DOMAIN File[f].tracks = 1 .. Len(File[f].tracks) BY <1>1
<1>3. \A k \in 1 .. Len(File[f].tracks) : File[f].tracks[k] \in L!ToSet(File[f].tracks)
    BY <1>2 DEF L!ToSet
<1> QED BY <1>1, <1>3 DEF L!Known

\* The world starts with nobody playing.
LEMMA PlayStarts == L!Init => PlayTypes
<1> SUFFICES ASSUME L!Init PROVE PlayTypes
    OBVIOUS
<1>1. playing = [c \in Clients |-> L!Idle] /\ log = L!NoLog /\ oldLog = L!NoLog /\ plays = 0 BY DEF L!Init
<1>2. 0 \in 0 .. MaxPlays BY BoundsAre
<1> QED BY <1>1, <1>2 DEF PlayTypes, L!NoLog

\* What another track changes of a session.
LEMMA AnotherTrack ==
    ASSUME NEW n, NEW s \in Session(n), NEW t, NEW a
    PROVE  [s EXCEPT !.track = t, !.asked = a] = [id |-> s.id, file |-> s.file, track |-> t, asked |-> a]
<1> DEFINE q == [s EXCEPT !.track = t]
<1> DEFINE r == [q EXCEPT !.asked = a]
<1>1. s = [k \in {"id", "file", "track", "asked"} |-> s[k]] BY DEF Session
<1>2. q = [k \in {"id", "file", "track", "asked"} |-> IF k = "track" THEN t ELSE s[k]] BY <1>1
<1>3. r = [k \in {"id", "file", "track", "asked"} |-> IF k = "asked" THEN a ELSE q[k]] BY <1>2
<1>4. r = [id |-> s.id, file |-> s.file, track |-> t, asked |-> a] BY <1>2, <1>3
<1> QED BY <1>4

\* The world keeps its types.
LEMMA PlayStep == PlayTypes /\ [L!Next]_(L!vars) => PlayTypes'
<1> SUFFICES ASSUME PlayTypes, [L!Next]_(L!vars) PROVE PlayTypes'
    OBVIOUS
<1>i. \A n : \A s \in Session(n) : s # L!Idle
    BY DEF Session, L!Idle
<1>p. plays \in Nat /\ MaxPlays \in Nat /\ plays <= MaxPlays
  <2>1. plays \in 0 .. MaxPlays BY DEF PlayTypes
  <2> QED BY <2>1, BoundsAre
<1>n. \A s \in Session(plays) : s \in Session(plays + 1)
    BY <1>p DEF Session
<1>1. ASSUME NEW c \in Clients, NEW f \in Files, NEW asks \in Asks, L!Play(c, f, asks) PROVE PlayTypes'
  <2> DEFINE s == [id |-> plays + 1, file |-> f, track |-> 1, asked |-> asks]
  <2>1. plays + 1 \in 1 .. MaxPlays /\ plays' = plays + 1
      BY <1>1, <1>p DEF L!Play
  <2>2. playing' = [playing EXCEPT ![c] = s] /\ UNCHANGED oldLog
        /\ log' = [log EXCEPT ![plays + 1] = asks]
      BY <1>1 DEF L!Play
  <2>3. s \in Session(plays + 1) BY <1>p, <2>1 DEF Session
  <2>4. s.track \in 1 .. Len(File[s.file].tracks)
    BY TracksAre
  <2> HIDE DEF s
  <2>5. playing' \in [Clients -> {L!Idle} \cup Session(plays + 1)]
      BY <1>n, <2>2, <2>3 DEF PlayTypes
  <2>6. \A d \in Clients : playing'[d] = IF d = c THEN s ELSE playing[d] BY <2>2 DEF PlayTypes
  <2>7. log' \in [L!Sessions -> Asks \cup {""}] BY <2>2 DEF PlayTypes
  <2>8. plays' \in 0 .. MaxPlays BY <1>p, <2>1
  <2> QED BY <2>1, <2>2, <2>4, <2>5, <2>6, <2>7, <2>8 DEF PlayTypes
<1>2. ASSUME NEW c \in Clients, NEW asks \in Asks, L!Switch(c, asks) PROVE PlayTypes'
  <2> DEFINE s == [id |-> playing[c].id, file |-> playing[c].file, track |-> playing[c].track + 1,
                   asked |-> asks]
  <2>1. /\ playing[c] # L!Idle /\ playing[c].track < Len(File[playing[c].file].tracks)
        /\ UNCHANGED <<plays, oldLog>>
        /\ log' = [log EXCEPT ![playing[c].id] = asks]
      BY <1>2 DEF L!Switch
  <2>3. playing[c] \in Session(plays) BY <2>1 DEF PlayTypes
  <2>2. playing' = [playing EXCEPT ![c] = s]
    <3>1. [playing[c] EXCEPT !.track = playing[c].track + 1, !.asked = asks] = s BY <2>3, AnotherTrack
    <3> HIDE DEF s
    <3> QED BY <1>2, <3>1 DEF L!Switch, PlayTypes
  <2>4. s \in Session(plays) /\ s.file = playing[c].file /\ s.track = playing[c].track + 1
      BY <2>3 DEF Session
  <2>5. s.track \in 1 .. Len(File[s.file].tracks)
    <3>1. playing[c].file \in Files /\ playing[c].track \in 1 .. Len(File[playing[c].file].tracks)
        BY <2>1, <2>3 DEF PlayTypes, Session
    <3>2. Len(File[playing[c].file].tracks) \in Nat BY <3>1, TracksAre
    <3> QED BY <2>1, <2>4, <3>1, <3>2
  <2> HIDE DEF s
  <2>6. playing' \in [Clients -> {L!Idle} \cup Session(plays)] BY <2>2, <2>4 DEF PlayTypes
  <2>7. \A d \in Clients : playing'[d] = IF d = c THEN s ELSE playing[d] BY <2>2 DEF PlayTypes
  <2>8. log' \in [L!Sessions -> Asks \cup {""}] BY <2>1 DEF PlayTypes
  <2> QED BY <2>1, <2>5, <2>6, <2>7, <2>8 DEF PlayTypes
<1>3. ASSUME NEW c \in Clients, L!Stop(c) PROVE PlayTypes'
  <2>1. playing' = [playing EXCEPT ![c] = L!Idle] /\ UNCHANGED <<plays, log, oldLog>> BY <1>3 DEF L!Stop
  <2> QED BY <2>1 DEF PlayTypes
<1>4. CASE L!Rotate
  <2>1. oldLog' = log /\ log' = L!NoLog /\ UNCHANGED <<plays, playing>> BY <1>4 DEF L!Rotate
  <2> QED BY <2>1 DEF PlayTypes, L!NoLog
<1>5. CASE \/ \E c \in L!Known : L!Edit(c)
           \/ L!PlexSessions \/ L!PlexCauses \/ L!JellyfinSessions \/ L!ServerFails \/ L!NothingToTell
           \/ L!LedgerObserve \/ L!WriteTmp \/ L!WriteFails \/ L!RenameTmp \/ L!Publish \/ L!Restart
           \/ UNCHANGED L!vars
  <2>1. UNCHANGED <<plays, playing, log, oldLog>>
      BY <1>5 DEF L!Edit, L!PlexSessions, L!PlexCauses, L!JellyfinSessions, L!ServerFails, L!NothingToTell,
           L!LedgerObserve, L!WriteTmp, L!WriteFails, L!RenameTmp, L!Publish, L!Restart, L!vars, L!Ask, L!world
  <2> QED BY <2>1 DEF PlayTypes
<1>6. \A c \in Clients : Profile[c].directPlay \subseteq Asks BY DEF Asks
<1> QED BY <1>1, <1>2, <1>3, <1>4, <1>5, <1>6 DEF L!Next

\* What a server says of a session.
LEMMA DeliveredIs ==
    ASSUME PlayTypes, NEW c \in Clients, playing[c] # L!Idle
    PROVE  LET r == L!Delivered(c)
           IN  /\ r \in RowType /\ r.client = c /\ r.id = playing[c].id /\ r.id \in 1 .. plays
               /\ r.key = playing[c].file /\ r.codec \in L!ToSet(File[playing[c].file].tracks)
               /\ r.audio /\ ~r.video /\ playing[c].asked # "0" => r.codec \in Profile[c].refuses
               /\ Profile[c].app = "plex" => r.cause = ""
               /\ Profile[c].app # "plex" /\ r.cause = "codec" => r.codec \in Profile[c].refuses
<1> DEFINE s == playing[c]
<1> DEFINE codec == File[s.file].tracks[s.track]
<1> DEFINE refused == codec \in Profile[c].refuses
<1> DEFINE audio == Profile[c].video \/ refused \/ (s.asked = "0" /\ codec # "aac")
<1> DEFINE cause == IF Profile[c].app = "plex" THEN "" ELSE IF refused THEN "codec" ELSE "other"
<1> DEFINE file_ == IF Profile[c].app = "plex" THEN "" ELSE s.file
<1>1. s \in Session(plays) /\ s.track \in 1 .. Len(File[s.file].tracks) BY DEF PlayTypes
<1>2. s.id \in 1 .. plays /\ s.file \in Files BY <1>1 DEF Session
<1>3. codec \in L!Known BY <1>1, <1>2, TracksAre
<1>13. codec \in L!ToSet(File[s.file].tracks)
  <2>1. File[s.file].tracks \in Seq(STRING) BY <1>2, LedgerAssumption
  <2>2. s.track \in DOMAIN File[s.file].tracks BY <1>1, <2>1
  <2> QED BY <2>2 DEF L!ToSet
<1>4. s.id \in 1 .. MaxPlays
  <2>1. plays \in 0 .. MaxPlays BY DEF PlayTypes
  <2> QED BY <1>2, <2>1, BoundsAre
<1>5. Profile[c].video \in BOOLEAN BY LedgerAssumption
<1>6. audio \in BOOLEAN /\ cause \in CauseNames /\ file_ \in Files \cup {""} BY <1>2, <1>5 DEF CauseNames
<1>7. L!Delivered(c) = [client |-> c, id |-> s.id, key |-> s.file, codec |-> codec,
                        video |-> Profile[c].video, audio |-> audio, cause |-> cause, file |-> file_]
    BY DEF L!Delivered
<1>8. audio /\ ~Profile[c].video /\ s.asked # "0" => refused OBVIOUS
<1>9. /\ Profile[c].app = "plex" => cause = ""
      /\ Profile[c].app # "plex" /\ cause = "codec" => refused
    OBVIOUS
<1> HIDE DEF s, codec, audio, cause, file_
<1> DEFINE row == L!Delivered(c)
<1>10. row \in RowType
  <2>1. s.file \in Files BY <1>2
  <2>2. \A i \in 1 .. MaxPlays, k \in Files, t \in L!Known, v, a \in BOOLEAN, u \in CauseNames,
           g \in Files \cup {""} :
           [client |-> c, id |-> i, key |-> k, codec |-> t, video |-> v, audio |-> a, cause |-> u,
            file |-> g] \in RowType
      BY ZenonT(30) DEF RowType
  <2> HIDE DEF row
  <2>3. [client |-> c, id |-> s.id, key |-> s.file, codec |-> codec, video |-> Profile[c].video,
         audio |-> audio, cause |-> cause, file |-> file_] \in RowType
      BY <1>3, <1>4, <1>5, <1>6, <2>1, <2>2
  <2> QED BY <1>7, <2>3 DEF row
<1>11. /\ row.client = c /\ row.id = s.id /\ row.key = s.file /\ row.codec = codec /\ row.video = Profile[c].video
       /\ row.audio = audio /\ row.cause = cause
    BY <1>7
<1> HIDE DEF row
<1>12. /\ row.audio /\ ~row.video /\ s.asked # "0" => row.codec \in Profile[c].refuses
       /\ Profile[c].app = "plex" => row.cause = ""
       /\ Profile[c].app # "plex" /\ row.cause = "codec" => row.codec \in Profile[c].refuses
    BY <1>8, <1>9, <1>11
<1> QED BY <1>2, <1>10, <1>11, <1>12, <1>13 DEF row, s

\* The rows of a server are finitely many, and come in some order.
LEMMA RowsInOrder ==
    ASSUME NEW app, NEW A, L!Rows(app) \subseteq A
    PROVE  L!SetToSeq(L!Rows(app)) \in Seq(A)
<1> DEFINE D == {c \in Clients : Profile[c].app = app /\ playing[c] # L!Idle}
<1> DEFINE R == L!Rows(app)
<1> DEFINE f == [c \in D |-> L!Delivered(c)]
<1>1. IsFiniteSet(Clients) /\ D \in SUBSET Clients BY LedgerAssumption
<1>2. R = {L!Delivered(c) : c \in D} BY DEF L!Rows
<1> HIDE DEF D, R
<1>3. IsFiniteSet(D) BY <1>1, FS_Subset
<1>4. f \in Surjection(D, R) BY <1>2 DEF Surjection
<1> HIDE DEF f
<1>5. IsFiniteSet(R) BY <1>3, <1>4, FS_Surjection
<1>6. Cardinality(R) \in Nat /\ ExistsBijection(1 .. Cardinality(R), R) BY <1>5, FS_CardinalityType
<1>7. PICK g \in [1 .. Cardinality(R) -> R] : L!IsInjective(g)
    BY <1>6 DEF ExistsBijection, Bijection, Injection, IsInjective, L!IsInjective
<1>8. L!Cardinality(R) = Cardinality(R) BY Zenon DEF L!Cardinality, Cardinality
<1>9. L!SetToSeq(R) \in [1 .. Cardinality(R) -> R] BY <1>7, <1>8, Zenon DEF L!SetToSeq
<1> HIDE DEF R
<1>10. L!SetToSeq(R) \in Seq(A)
  <2> DEFINE t == L!SetToSeq(R)
  <2> HIDE DEF t
  <2>1. t \in [1 .. Cardinality(R) -> R] /\ R \subseteq A BY <1>9 DEF t, R
  <2> QED BY <1>6, <2>1 DEF t
<1> QED BY <1>10 DEF R

\* What plexAudioCause and plexMedia make of a row.
Seen(s) == IF s.audio THEN [s EXCEPT !.cause = L!PlexAudioCause(s.id)] ELSE s
Named(s) == IF L!Listable(s) THEN [s EXCEPT !.file = s.key] ELSE s
SameRow(r, s) ==
    r.client = s.client /\ r.id = s.id /\ r.codec = s.codec /\ r.audio = s.audio /\ r.video = s.video

\* Its cause is asked, its file is named, and it is the same row.
LEMMA CausedRow ==
    ASSUME causes \in [L!Sessions -> {"", "codec", "no_direct_play"}], NEW s \in RowType
    PROVE  /\ Seen(s) \in RowType /\ SameRow(Seen(s), s)
           /\ s.audio => Seen(s).cause = L!PlexAudioCause(s.id)
           /\ Named(Seen(s)) \in RowType /\ SameRow(Named(Seen(s)), s)
           /\ s.audio => Named(Seen(s)).cause = L!PlexAudioCause(s.id)
<1>1. L!PlexAudioCause(s.id) \in CauseNames
  <2>1. s.id \in L!Sessions BY DEF RowType, L!Sessions
  <2>2. L!Cause(s.id) \in CauseNames BY DEF L!Cause, CauseNames
  <2>3. causes[s.id] \in CauseNames BY <2>1 DEF CauseNames
  <2> QED BY <2>2, <2>3 DEF L!PlexAudioCause
<1>2. \A r \in RowType, u \in CauseNames :
          LET q == [r EXCEPT !.cause = u] IN q \in RowType /\ SameRow(q, r) /\ q.cause = u
    BY DEF RowType, SameRow
<1>3. \A r \in RowType :
          LET q == [r EXCEPT !.file = r.key] IN q \in RowType /\ SameRow(q, r) /\ q.cause = r.cause
    BY DEF RowType, SameRow
<1>4. Seen(s) \in RowType /\ SameRow(Seen(s), s) /\ (s.audio => Seen(s).cause = L!PlexAudioCause(s.id))
    BY <1>1, <1>2 DEF Seen, SameRow
<1>5. /\ Named(Seen(s)) \in RowType /\ SameRow(Named(Seen(s)), Seen(s))
      /\ Named(Seen(s)).cause = Seen(s).cause
    BY <1>3, <1>4 DEF Named, SameRow
<1> QED BY <1>4, <1>5 DEF SameRow

\* PlexCauses in these terms.
LEMMA CausedRows ==
    ASSUME L!PlexCauses
    PROVE  \/ listing' = [i \in DOMAIN listing |-> Named(Seen(listing[i]))]
           \/ listing' = [i \in DOMAIN listing |-> Seen(listing[i])]
BY DEF L!PlexCauses, Seen, Named

\* Row by row, the list of a poll is a list again.
LEMMA ListedAgain ==
    ASSUME NEW A, NEW s \in Seq(A), NEW t, DOMAIN t = DOMAIN s, t = [i \in DOMAIN s |-> t[i]],
           NEW B, \A i \in DOMAIN s : t[i] \in B
    PROVE  t \in Seq(B)
<1>1. DOMAIN s = 1 .. Len(s) /\ Len(s) \in Nat OBVIOUS
<1> DEFINE n == Len(s)
<1>2. DOMAIN t = 1 .. n /\ t = [i \in 1 .. n |-> t[i]] /\ \A i \in 1 .. n : t[i] \in B BY <1>1
<1> HIDE DEF n
<1> QED BY <1>1, <1>2, TableIsList DEF n

\* The types of a poll.
PollTypes ==
    /\ pollPc \in {"sleep", "causes", "jellyfin", "observe", "write", "rename", "publish"}
    /\ causes \in [L!Sessions -> {"", "codec", "no_direct_play"}]
    /\ listing \in Seq(RowType)

\* A poll starts with nothing asked.
LEMMA PollStarts == L!Init => PollTypes
<1> SUFFICES ASSUME L!Init PROVE PollTypes
    OBVIOUS
<1>1. causes = L!NoLog /\ pollPc = "sleep" /\ listing = <<>> BY DEF L!Init
<1>2. <<>> \in Seq(RowType) OBVIOUS
<1> QED BY <1>1, <1>2 DEF PollTypes, L!NoLog

\* What is remembered of a session is what the log says of it, or what was.
LEMMA Remembers ==
    ASSUME PollTypes, NEW ids
    PROVE  /\ L!Remembered(ids) \in [L!Sessions -> {"", "codec", "no_direct_play"}]
           /\ \A s \in L!Sessions :
                 L!Remembered(ids)[s] = "codec" => causes[s] = "codec" \/ L!Cause(s) = "codec"
<1> DEFINE learned == {s \in ids : causes[s] = "" /\ L!Cause(s) # "unknown"}
<1> DEFINE a == [s \in L!Sessions |-> IF s \in learned THEN L!Cause(s) ELSE ""]
<1> DEFINE b == [s \in L!Sessions |-> IF s \in learned THEN L!Cause(s) ELSE causes[s]]
<1>1. L!Remembered(ids) \in {a, b} BY DEF L!Remembered
<1>2. \A s : L!Cause(s) \in {"codec", "no_direct_play", "unknown"} BY DEF L!Cause
<1>3. \A s \in learned : L!Cause(s) \in {"codec", "no_direct_play"} BY <1>2
<1>4. causes \in [L!Sessions -> {"", "codec", "no_direct_play"}] BY DEF PollTypes
<1> HIDE DEF learned
<1>5. /\ a \in [L!Sessions -> {"", "codec", "no_direct_play"}]
      /\ b \in [L!Sessions -> {"", "codec", "no_direct_play"}]
    BY <1>3, <1>4
<1>6. \A s \in L!Sessions : a[s] = "codec" \/ b[s] = "codec" => causes[s] = "codec" \/ L!Cause(s) = "codec"
    OBVIOUS
<1> HIDE DEF a, b
<1> QED BY <1>1, <1>5, <1>6

\* A poll keeps its types.
LEMMA PollStep == PlayTypes /\ PollTypes /\ [L!Next]_(L!vars) => PollTypes'
<1> SUFFICES ASSUME PlayTypes, PollTypes, [L!Next]_(L!vars) PROVE PollTypes'
    OBVIOUS
<1>e. <<>> \in Seq(RowType) OBVIOUS
<1>r. \A app : L!Rows(app) \subseteq RowType
  <2>1. \A app : \A r \in L!Rows(app) : \E c \in Clients : playing[c] # L!Idle /\ r = L!Delivered(c)
      BY DEF L!Rows
  <2>2. \A c \in Clients : playing[c] # L!Idle => L!Delivered(c) \in RowType
    <3> SUFFICES ASSUME NEW c \in Clients, playing[c] # L!Idle PROVE L!Delivered(c) \in RowType
        OBVIOUS
    <3> DEFINE row == L!Delivered(c)
    <3>1. row \in RowType BY DeliveredIs
    <3> QED BY <3>1
  <2> QED BY <2>1, <2>2
<1>1. CASE L!PlexSessions
  <2>1. pollPc' = "causes" /\ causes' = causes /\ listing' = L!SetToSeq(L!Rows("plex"))
      BY <1>1 DEF L!PlexSessions
  <2>2. listing' \in Seq(RowType) BY <1>r, <2>1, RowsInOrder
  <2> QED BY <2>1, <2>2 DEF PollTypes
<1>2. CASE L!PlexCauses
  <2>1. pollPc' = "jellyfin" BY <1>2 DEF L!PlexCauses
  <2>2. causes' \in [L!Sessions -> {"", "codec", "no_direct_play"}] BY <1>2, Remembers DEF L!PlexCauses
  <2>3. listing \in Seq(RowType) /\ \A i \in DOMAIN listing : listing[i] \in RowType
    <3>1. listing \in Seq(RowType) BY DEF PollTypes
    <3> QED BY <3>1
  <2>4. causes \in [L!Sessions -> {"", "codec", "no_direct_play"}] BY DEF PollTypes
  <2>5. \A i \in DOMAIN listing : Seen(listing[i]) \in RowType /\ Named(Seen(listing[i])) \in RowType
      BY <2>3, <2>4, CausedRow
  <2>6. /\ DOMAIN listing' = DOMAIN listing /\ listing' = [i \in DOMAIN listing |-> listing'[i]]
        /\ \A i \in DOMAIN listing : listing'[i] \in RowType
    <3>1. CASE listing' = [i \in DOMAIN listing |-> Named(Seen(listing[i]))] BY <2>5, <3>1
    <3>2. CASE listing' = [i \in DOMAIN listing |-> Seen(listing[i])] BY <2>5, <3>2
    <3> QED BY <1>2, <3>1, <3>2, CausedRows
  <2>7. listing' \in Seq(RowType) BY <2>3, <2>6, ListedAgain
  <2> QED BY <2>1, <2>2, <2>7 DEF PollTypes
<1>3. CASE L!JellyfinSessions
  <2>1. pollPc' = "observe" /\ causes' = causes /\ listing' = listing \o L!SetToSeq(L!Rows("jellyfin"))
      BY <1>3 DEF L!JellyfinSessions
  <2>2. L!SetToSeq(L!Rows("jellyfin")) \in Seq(RowType) BY <1>r, RowsInOrder
  <2>3. listing \in Seq(RowType) BY DEF PollTypes
  <2>4. listing' \in Seq(RowType) BY <2>1, <2>2, <2>3
  <2> QED BY <2>1, <2>4 DEF PollTypes
<1>4. CASE L!ServerFails
  <2>1. /\ pollPc' \in {"jellyfin", "observe"} /\ causes' = causes
        /\ listing' = <<>> \/ listing' = listing
      BY <1>4 DEF L!ServerFails
  <2> QED BY <1>e, <2>1 DEF PollTypes
<1>5. CASE L!Restart
  <2>1. pollPc' = "sleep" /\ causes' = L!NoLog /\ listing' = <<>> BY <1>5 DEF L!Restart
  <2> QED BY <1>e, <2>1 DEF PollTypes, L!NoLog
<1>6. CASE L!NothingToTell \/ L!LedgerObserve \/ L!WriteTmp \/ L!WriteFails \/ L!RenameTmp \/ L!Publish
  <2>1. /\ pollPc' \in {"sleep", "write", "publish", "rename"} /\ UNCHANGED <<causes, listing>>
      BY <1>6 DEF L!NothingToTell, L!LedgerObserve, L!WriteTmp, L!WriteFails, L!RenameTmp, L!Publish
  <2> QED BY <2>1 DEF PollTypes
<1>7. CASE \/ \E c \in Clients :
                 \/ L!Stop(c)
                 \/ \E asks \in Profile[c].directPlay :
                       L!Switch(c, asks) \/ \E f \in Files : L!Play(c, f, asks)
           \/ L!Rotate \/ \E c \in L!Known : L!Edit(c)
           \/ UNCHANGED L!vars
  <2>1. UNCHANGED <<pollPc, causes, listing>>
      BY <1>7 DEF L!Play, L!Stop, L!Switch, L!Rotate, L!Edit, L!WorldMoves, L!poll, L!vars
  <2> QED BY <2>1 DEF PollTypes
<1> QED BY <1>1, <1>2, <1>3, <1>4, <1>5, <1>6, <1>7 DEF L!Next
-----------------------------------------------------------------------------
(* AudioLedger: the ledger in memory and its two names on disk. *)

\* All three hold lessons only; what is decided is decided by the codecs with it,
\* but for a file that was edited by hand or written by an older program.
Kept(lessons) ==
    /\ ledger \in Ledgers(lessons) /\ tmp \in Ledgers(lessons) /\ file \in Ledgers(lessons)
    /\ AllDecided(ledger)
    /\ pollPc = "rename" => AllDecided(tmp)
    /\ edited \in BOOLEAN /\ (~edited => AllDecided(file))

\* A ledger of before has taught nothing.
LEMMA KeptStarts == ASSUME NEW lessons, L!Init PROVE Kept(lessons)
<1>1. /\ file \in [codecs : {L!Nobody}, files : {<<>>} \cup {<<L!Old(f)>> : f \in Listed}]
      /\ ledger = L!Load(file) /\ tmp = file /\ edited = TRUE /\ pollPc = "sleep"
    BY DEF L!Init
<1>2. file.codecs = L!Nobody /\ file.files \in {<<>>} \cup {<<L!Old(f)>> : f \in Listed}
      /\ file = [codecs |-> file.codecs, files |-> file.files]
    BY <1>1
<1>3. ASSUME NEW f \in Listed PROVE L!Old(f) \in Entry
  <2>1. f \in Files BY LedgerAssumption
  <2>2. File[f].tracks[1] \in L!Known BY <2>1, TracksAre
  <2> QED BY <2>1, <2>2 DEF L!Old, Entry, CauseNames, Verdicts
<1>4. file.files \in Seq(Entry) /\ Apart(file.files, PathOf)
  <2>1. CASE file.files = <<>> BY <2>1 DEF Apart
  <2>2. CASE file.files # <<>>
    <3>1. PICK f \in Listed : file.files = <<L!Old(f)>> BY <1>2, <2>2
    <3>2. Len(file.files) = 1 BY <3>1
    <3>3. \A i, j \in 1 .. 1 : i = j OBVIOUS
    <3> QED BY <1>3, <3>1, <3>2, <3>3 DEF Apart
  <2> QED BY <2>1, <2>2
<1>5. /\ L!Nobody \in [L!Known -> SUBSET Clients]
      /\ \A codec \in L!Known : L!Nobody[codec] = {}
    BY DEF L!Nobody
<1>6. file \in Ledgers(lessons) BY <1>2, <1>4, <1>5 DEF Ledgers
<1> QED BY <1>1, <1>6, LoadDecides DEF Kept

\* A step keeps the ledgers, when what it folds into them teaches lessons only.
LEMMA KeptStep ==
    ASSUME NEW lessons, Kept(lessons), pollPc = "observe" => listing \in Seq(Heard(lessons)),
           [L!Next]_(L!vars)
    PROVE  Kept(lessons)'
<1> USE DEF Kept
<1>1. ASSUME NEW c \in L!Known, L!Edit(c) PROVE Kept(lessons)'
  <2>1. /\ file' = [file EXCEPT !.codecs[c] = {}] /\ edited' = TRUE
        /\ UNCHANGED <<ledger, tmp, pollPc>>
      BY <1>1 DEF L!Edit, L!poll
  <2>2. file' \in Ledgers(lessons) BY <2>1 DEF Ledgers
  <2> QED BY <2>1, <2>2 DEF AllDecided
<1>2. CASE L!LedgerObserve
  <2>1. /\ pollPc = "observe" /\ ledger' = L!Record(ledger, listing).ledger
        /\ pollPc' \in {"write", "publish"} /\ UNCHANGED <<tmp, file, edited>>
      BY <1>2 DEF L!LedgerObserve
  <2>2. ledger' \in Ledgers(lessons) /\ AllDecided(ledger')
    <3> DEFINE new == L!Record(ledger, listing)
    <3>1. new.ledger \in Ledgers(lessons) /\ AllDecided(new.ledger) BY <2>1, RecordKeeps
    <3> QED BY <2>1, <3>1
  <2> QED BY <2>1, <2>2 DEF AllDecided
<1>3. CASE L!WriteTmp
  <2>1. tmp' = ledger /\ pollPc' = "rename" /\ UNCHANGED <<ledger, file, edited>> BY <1>3 DEF L!WriteTmp
  <2> QED BY <2>1 DEF AllDecided
<1>4. CASE L!RenameTmp
  <2>1. /\ pollPc = "rename" /\ pollPc' = "publish" /\ file' = tmp /\ edited' = FALSE
        /\ UNCHANGED <<ledger, tmp>>
      BY <1>4 DEF L!RenameTmp
  <2> QED BY <2>1 DEF AllDecided
<1>5. CASE L!Restart
  <2>1. ledger' = L!Load(file) /\ pollPc' = "sleep" /\ UNCHANGED <<tmp, file, edited>> BY <1>5 DEF L!Restart
  <2> QED BY <2>1, LoadDecides DEF AllDecided
<1>6. CASE \/ L!PlexSessions \/ L!PlexCauses \/ L!JellyfinSessions \/ L!ServerFails \/ L!NothingToTell
           \/ L!WriteFails \/ L!Publish
  <2>1. pollPc' # "rename" /\ UNCHANGED <<ledger, tmp, file, edited>>
      BY <1>6 DEF L!PlexSessions, L!PlexCauses, L!JellyfinSessions, L!ServerFails, L!NothingToTell,
           L!WriteFails, L!Publish, L!Ask, L!kept
  <2> QED BY <2>1 DEF AllDecided
<1>7. CASE \/ \E c \in Clients :
                 \/ L!Stop(c)
                 \/ \E asks \in Profile[c].directPlay :
                       L!Switch(c, asks) \/ \E f \in Files : L!Play(c, f, asks)
           \/ L!Rotate \/ UNCHANGED L!vars
  <2>1. UNCHANGED <<pollPc, ledger, tmp, file, edited>>
      BY <1>7 DEF L!Play, L!Stop, L!Switch, L!Rotate, L!WorldMoves, L!poll, L!kept, L!vars
  <2> QED BY <2>1 DEF AllDecided
<1> QED BY <1>1, <1>2, <1>3, <1>4, <1>5, <1>6, <1>7 DEF L!Next

\* A step of the parts is one of AudioLedger's or leaves it alone.
LEMMA LedgerStepsApart == PartsNext \/ UNCHANGED allVars => [L!Next]_(L!vars)
BY DEF PartsNext, allVars, ledgerVars, L!vars, L!world, L!poll, L!kept

\* Any client may have refused any codec.
Lessons == L!Known \X Clients
LedgerInv == PlayTypes /\ PollTypes /\ Kept(Lessons)

\* The invariant holds of pi-metrics.
LEMMA LedgerInvHolds == PartsSpec => []LedgerInv
<1>1. PartsInit => LedgerInv BY PlayStarts, PollStarts, KeptStarts DEF PartsInit, LedgerInv
<1>2. ASSUME LedgerInv, [PartsNext]_allVars PROVE LedgerInv'
  <2>1. [L!Next]_(L!vars) BY <1>2, LedgerStepsApart
  <2>2. Heard(Lessons) = RowType BY DEF Heard, Lessons, RowType
  <2>3. Kept(Lessons)'
    <3>1. Kept(Lessons) /\ listing \in Seq(Heard(Lessons)) BY <1>2, <2>2 DEF LedgerInv, PollTypes
    <3> QED BY <2>1, <3>1, KeptStep
  <2> QED BY <1>2, <2>1, <2>3, PlayStep, PollStep DEF LedgerInv
<1> QED BY <1>1, <1>2, PTL DEF PartsSpec

\* What the page lists is decided by the codecs listed with it, for any clients,
\* files and limit, through crashes, failed writes and edits by hand.
THEOREM DecisionsAlwaysFollow == PartsSpec => []DecisionsFollow
<1>1. LedgerInv => DecisionsFollow
  <2> SUFFICES ASSUME LedgerInv,
                      NEW l \in {ledger} \cup (IF edited THEN {} ELSE {file}), NEW i \in DOMAIN l.files
               PROVE  /\ l.files[i].decision = L!Decide(l.files[i], l.codecs)
                      /\ \A j \in DOMAIN l.files : i # j => l.files[i].path # l.files[j].path
      BY DEF DecisionsFollow, L!DecisionsFollow
  <2>1. l \in Ledgers(Lessons) /\ AllDecided(l) BY DEF LedgerInv, Kept
  <2>2. l.files \in Seq(Entry) /\ Apart(l.files, PathOf) BY <2>1 DEF Ledgers
  <2>3. DOMAIN l.files = 1 .. Len(l.files) /\ \A j \in DOMAIN l.files : PathOf[l.files[j]] = l.files[j].path
      BY <2>2 DEF PathOf
  <2> QED BY <2>1, <2>2, <2>3 DEF AllDecided, Apart
<1> QED BY <1>1, LedgerInvHolds, PTL
-----------------------------------------------------------------------------
(* AudioLedger: what a codec is learned from.                                      *)

\* The lessons that are true, and those of who has changed its request in the middle
\* of a file.
Taught ==
    {p \in L!Known \X Clients :
        /\ ~Profile[p[2]].browser
        /\ \/ p[1] \in Profile[p[2]].refuses
           \/ \E f \in Files : <<p[2], f>> \in turned /\ p[1] \in L!ToSet(File[f].tracks)}

\* What is logged or remembered of session s is what it was opened with (owner tells
\* by whom, on what and how), unless it may have changed.
Strayed(owner, s) == <<owner[s].client, owner[s].file>> \in turned
Said(owner, s, asks) == s <= plays /\ (owner[s].asked = asks \/ Strayed(owner, s))

\* A row of a session that was opened with direct play and is sent the video as it
\* is: the audio is re-encoded for its codec.
Answered(owner) ==
    {r \in RowType :
        /\ r.id \in 1 .. plays /\ owner[r.id].client = r.client /\ owner[r.id].file = r.key
        /\ r.codec \in L!ToSet(File[r.key].tracks)
        /\ r.audio /\ ~r.video /\ owner[r.id].asked = "1" =>
              r.codec \in Profile[r.client].refuses \/ Strayed(owner, r.id)}

\* Who opened each session explains the requests that are logged or remembered of it.
Owned(owner) ==
    /\ DOMAIN owner = L!Sessions
    /\ \A c \in Clients : playing[c] # L!Idle =>
          /\ owner[playing[c].id].client = c /\ owner[playing[c].id].file = playing[c].file
          /\ Said(owner, playing[c].id, playing[c].asked)
    /\ \A s \in L!Sessions :
          /\ log[s] # "" => Said(owner, s, log[s])
          /\ oldLog[s] # "" => Said(owner, s, oldLog[s])
          /\ causes[s] = "codec" => Said(owner, s, "1")
    /\ pollPc = "causes" => listing \in Seq(Answered(owner))

RefusalInv ==
    /\ \E owner : Owned(owner)
    /\ pollPc # "causes" => listing \in Seq(Heard(Taught))
    /\ Kept(Taught)

\* Nobody has played anything yet.
LEMMA RefusalStarts == L!Init => RefusalInv
<1> SUFFICES ASSUME L!Init PROVE RefusalInv
    OBVIOUS
<1>1. /\ playing = [c \in Clients |-> L!Idle] /\ log = L!NoLog /\ oldLog = L!NoLog /\ causes = L!NoLog
      /\ pollPc = "sleep" /\ listing = <<>>
    BY DEF L!Init
<1>2. Owned([s \in L!Sessions |-> {}]) BY <1>1 DEF Owned, L!NoLog
<1>3. listing \in Seq(Heard(Taught)) BY <1>1
<1> QED BY <1>2, <1>3, KeptStarts DEF RefusalInv

\* More lessons hold the ledgers and the rows of fewer.
LEMMA MoreLessons ==
    ASSUME NEW few, NEW many, few \subseteq many
    PROVE  Heard(few) \subseteq Heard(many) /\ Ledgers(few) \subseteq Ledgers(many)
BY DEF Heard, Ledgers

\* A turn is not forgotten, and neither is a session.
LEMMA TurnsGrow ==
    ASSUME PlayTypes, [L!Next]_(L!vars)
    PROVE  turned \subseteq turned' /\ Taught \subseteq Taught' /\ plays \in Nat /\ plays' \in {plays, plays + 1}
<1>1. plays \in Nat
  <2>1. plays \in 0 .. MaxPlays BY DEF PlayTypes
  <2> QED BY <2>1, BoundsAre
<1>2. turned \subseteq turned' /\ plays' \in {plays, plays + 1}
  <2>1. ASSUME NEW c \in Clients, NEW asks, NEW f, L!Switch(c, asks) \/ L!Play(c, f, asks) \/ L!Stop(c)
        PROVE  turned \subseteq turned' /\ plays' \in {plays, plays + 1}
      BY <2>1 DEF L!Switch, L!Play, L!Stop
  <2>2. CASE \/ L!Rotate \/ \E c \in L!Known : L!Edit(c)
             \/ L!PlexSessions \/ L!PlexCauses \/ L!JellyfinSessions \/ L!ServerFails \/ L!NothingToTell
             \/ L!LedgerObserve \/ L!WriteTmp \/ L!WriteFails \/ L!RenameTmp \/ L!Publish \/ L!Restart
             \/ UNCHANGED L!vars
    <3>1. turned' = turned /\ plays' = plays
        BY <2>2 DEF L!Rotate, L!Edit, L!PlexSessions, L!PlexCauses, L!JellyfinSessions, L!ServerFails,
             L!NothingToTell, L!LedgerObserve, L!WriteTmp, L!WriteFails, L!RenameTmp, L!Publish, L!Restart,
             L!vars, L!Ask, L!world
    <3> QED BY <3>1
  <2> QED BY <2>1, <2>2 DEF L!Next
<1>3. Taught \subseteq Taught' BY <1>2 DEF Taught
<1> QED BY <1>1, <1>2, <1>3

\* What was said of a session goes on being said of it.
LEMMA SaidStays ==
    ASSUME plays \in Nat, MaxPlays \in Nat, plays' \in {plays, plays + 1}, turned \subseteq turned',
           NEW owner, NEW s \in L!Sessions, NEW asks, Said(owner, s, asks)
    PROVE  Said(owner, s, asks)'
<1>1. s \in Nat /\ (s <= plays => s <= plays') BY DEF L!Sessions
<1> QED BY <1>1 DEF Said, Strayed

\* So does what answered it.
LEMMA AnsweredStays ==
    ASSUME plays \in Nat, plays' \in {plays, plays + 1}, turned \subseteq turned', NEW owner
    PROVE  Answered(owner) \subseteq Answered(owner)'
<1>1. \A n \in 1 .. plays : n \in 1 .. plays' OBVIOUS
<1> QED BY <1>1 DEF Answered, Strayed

\* The cause of a session is its codec only if its client asked for direct play.
LEMMA CauseTells ==
    ASSUME NEW owner, Owned(owner), NEW s \in L!Sessions
    PROVE  /\ L!Cause(s) = "codec" => Said(owner, s, "1")
           /\ L!PlexAudioCause(s) = "codec" => Said(owner, s, "1")
<1>1. L!Cause(s) = "codec" => log[s] = "1" \/ oldLog[s] = "1" BY DEF L!Cause, L!Logged
<1>2. L!Cause(s) = "codec" => Said(owner, s, "1")
  <2>1. /\ log[s] # "" => Said(owner, s, log[s])
        /\ oldLog[s] # "" => Said(owner, s, oldLog[s])
      BY DEF Owned
  <2>2. log[s] = "1" => Said(owner, s, "1") BY <2>1
  <2>3. oldLog[s] = "1" => Said(owner, s, "1") BY <2>1
  <2> QED BY <1>1, <2>2, <2>3
<1>3. causes[s] = "codec" => Said(owner, s, "1") BY DEF Owned
<1> QED BY <1>2, <1>3 DEF L!PlexAudioCause

\* Whatever a row of an answered session is given for a cause, it teaches the truth.
LEMMA AnsweredTeaches ==
    ASSUME NEW owner, Owned(owner), PollTypes, NEW s \in Answered(owner)
    PROVE  Seen(s) \in Heard(Taught) /\ Named(Seen(s)) \in Heard(Taught)
<1>1. causes \in [L!Sessions -> {"", "codec", "no_direct_play"}] BY DEF PollTypes
<1>2. /\ s \in RowType /\ owner[s.id].client = s.client /\ owner[s.id].file = s.key
      /\ s.codec \in L!ToSet(File[s.key].tracks)
      /\ s.audio /\ ~s.video /\ owner[s.id].asked = "1" =>
            s.codec \in Profile[s.client].refuses \/ Strayed(owner, s.id)
    BY DEF Answered
<1>3. s.id \in L!Sessions /\ s.key \in Files BY <1>2 DEF RowType, L!Sessions
<1>4. s.audio /\ ~s.video /\ L!PlexAudioCause(s.id) = "codec" =>
          s.codec \in Profile[s.client].refuses \/ <<s.client, s.key>> \in turned
    BY <1>2, <1>3, CauseTells DEF Said, Strayed
<1>5. ASSUME NEW r \in RowType, SameRow(r, s), s.audio => r.cause = L!PlexAudioCause(s.id)
      PROVE  r \in Heard(Taught)
  <2> SUFFICES ASSUME L!Learnable(r) PROVE <<r.codec, r.client>> \in Taught
      BY DEF Heard
  <2>1. r.audio /\ r.cause = "codec" /\ ~Profile[r.client].browser /\ ~r.video BY DEF L!Learnable
  <2>2. r.codec \in Profile[r.client].refuses \/ <<r.client, s.key>> \in turned
      BY <1>4, <1>5, <2>1 DEF SameRow
  <2>3. r.codec \in L!Known /\ r.client \in Clients BY DEF RowType
  <2>4. r.codec \in L!ToSet(File[s.key].tracks) BY <1>2, <1>5 DEF SameRow
  <2> QED BY <1>3, <2>1, <2>2, <2>3, <2>4 DEF Taught
<1> QED BY <1>1, <1>2, <1>5, CausedRow

\* Plex's rows are answers to their clients; Jellyfin's say themselves what was refused.
LEMMA RowsTell ==
    ASSUME PlayTypes, NEW owner, Owned(owner)
    PROVE  L!Rows("plex") \subseteq Answered(owner) /\ L!Rows("jellyfin") \subseteq Heard(Taught)
<1>1. ASSUME NEW r \in L!Rows("plex") PROVE r \in Answered(owner)
  <2>1. PICK c \in Clients : Profile[c].app = "plex" /\ playing[c] # L!Idle /\ r = L!Delivered(c)
      BY DEF L!Rows
  <2> DEFINE row == L!Delivered(c)
  <2>2. /\ row \in RowType /\ row.client = c /\ row.id = playing[c].id /\ row.id \in 1 .. plays
        /\ row.key = playing[c].file /\ row.codec \in L!ToSet(File[playing[c].file].tracks)
        /\ row.audio /\ ~row.video /\ playing[c].asked # "0" => row.codec \in Profile[c].refuses
      BY <2>1, DeliveredIs
  <2>3. /\ owner[playing[c].id].client = c /\ owner[playing[c].id].file = playing[c].file
        /\ Said(owner, playing[c].id, playing[c].asked)
      BY <2>1 DEF Owned
  <2>4. owner[playing[c].id].asked = "1" => playing[c].asked # "0" \/ Strayed(owner, playing[c].id)
      BY <2>3 DEF Said
  <2> HIDE DEF row
  <2>5. row \in Answered(owner) BY <2>2, <2>3, <2>4 DEF Answered
  <2> QED BY <2>1, <2>5 DEF row
<1>2. ASSUME NEW r \in L!Rows("jellyfin") PROVE r \in Heard(Taught)
  <2>1. PICK c \in Clients : Profile[c].app = "jellyfin" /\ playing[c] # L!Idle /\ r = L!Delivered(c)
      BY DEF L!Rows
  <2> DEFINE row == L!Delivered(c)
  <2>2. /\ row \in RowType /\ row.client = c
        /\ row.cause = "codec" => row.codec \in Profile[c].refuses
      BY <2>1, DeliveredIs
  <2> HIDE DEF row
  <2>3. row.codec \in L!Known BY <2>2 DEF RowType
  <2>4. row \in Heard(Taught) BY <2>2, <2>3 DEF Heard, Taught, L!Learnable
  <2> QED BY <2>1, <2>4 DEF row
<1> QED BY <1>1, <1>2

\* The world moves: a session that opens has an owner from then on.
LEMMA OwnedMoves ==
    ASSUME PlayTypes, PollTypes, NEW owner, Owned(owner), [L!Next]_(L!vars),
           \/ \E c \in Clients :
                 \/ L!Stop(c)
                 \/ \E asks \in Profile[c].directPlay :
                       L!Switch(c, asks) \/ \E f \in Files : L!Play(c, f, asks)
           \/ L!Rotate
    PROVE  \E next : Owned(next)'
<1>w. UNCHANGED <<pollPc, causes, listing>>
    BY DEF L!Play, L!Stop, L!Switch, L!Rotate, L!WorldMoves, L!poll
<1>p. plays \in Nat /\ MaxPlays \in Nat /\ plays <= MaxPlays
  <2>1. plays \in 0 .. MaxPlays BY DEF PlayTypes
  <2> QED BY <2>1, BoundsAre
<1>g. turned \subseteq turned' /\ plays' \in {plays, plays + 1} BY TurnsGrow
<1>i. \A c \in Clients : playing[c] # L!Idle =>
          /\ playing[c] \in Session(plays) /\ playing[c].id \in 1 .. plays /\ playing[c].id \in L!Sessions
  <2>1. \A c \in Clients : playing[c] # L!Idle => playing[c] \in Session(plays) BY DEF PlayTypes
  <2>2. \A s \in Session(plays) : s.id \in 1 .. plays BY DEF Session
  <2>3. \A n \in 1 .. plays : n \in L!Sessions BY <1>p DEF L!Sessions
  <2> QED BY <2>1, <2>2, <2>3
<1>d. DOMAIN playing = Clients /\ DOMAIN log = L!Sessions BY DEF PlayTypes
<1>s. \A s \in L!Sessions : \A asks : Said(owner, s, asks) => Said(owner, s, asks)'
    BY <1>g, <1>p, SaidStays
<1>l. pollPc' = "causes" => listing' \in Seq(Answered(owner)')
  <2> DEFINE A == Answered(owner)
  <2> DEFINE B == Answered(owner)'
  <2>1. pollPc = "causes" => listing \in Seq(A) BY DEF Owned
  <2>2. A \subseteq B BY <1>g, <1>p, AnsweredStays
  <2> HIDE DEF A, B
  <2>3. pollPc = "causes" => listing \in Seq(B) BY <2>1, <2>2
  <2>4. pollPc' = "causes" => listing' \in Seq(B) BY <1>w, <2>3
  <2> QED BY <2>4 DEF B
<1>1. ASSUME NEW c \in Clients, NEW f \in Files, NEW asks, L!Play(c, f, asks) PROVE \E next : Owned(next)'
  <2>n. PICK n : n = plays + 1 OBVIOUS
  <2> DEFINE opener == [client |-> c, file |-> f, asked |-> asks]
  <2>o. PICK next : next = [s \in L!Sessions |-> IF s = n THEN opener ELSE owner[s]] OBVIOUS
  <2> DEFINE opened == [id |-> n, file |-> f, track |-> 1, asked |-> asks]
  <2>1. /\ n \in L!Sessions /\ plays' = n /\ ~(n <= plays) /\ n \notin 1 .. plays
        /\ \A s : s <= plays => s <= n \/ s \notin L!Sessions
      BY <1>1, <1>p, <2>n DEF L!Play, L!Sessions
  <2>2. /\ playing' = [playing EXCEPT ![c] = opened] /\ oldLog' = oldLog
        /\ log' = [log EXCEPT ![n] = asks] /\ turned' = turned
      BY <1>1, <2>n DEF L!Play
  <2>3. opened.id = n /\ opened.asked = asks /\ opened.file = f OBVIOUS
  <2>c. opener.client = c /\ opener.file = f /\ opener.asked = asks OBVIOUS
  <2> HIDE DEF opened, opener
  <2>4. next[n] = opener /\ \A s \in L!Sessions : s # n => next[s] = owner[s] BY <2>o, <2>1
  <2>5. DOMAIN next = L!Sessions BY <2>o
  <2>a. Said(next, n, asks)'
    <3>1. n <= plays' BY <1>p, <2>n, <2>1
    <3> QED BY <2>4, <2>c, <3>1 DEF Said
  <2>b. \A s \in L!Sessions : \A a : s # n /\ Said(owner, s, a) => Said(next, s, a)'
      BY <1>s, <2>4 DEF Said, Strayed
  <2>6. ASSUME NEW d \in Clients, playing'[d] # L!Idle
        PROVE  /\ next[playing'[d].id].client = d /\ next[playing'[d].id].file = playing'[d].file
               /\ Said(next, playing[d].id, playing[d].asked)'
    <3>1. CASE d = c
      <4>1. playing'[d] = opened BY <1>d, <2>2, <3>1
      <4> QED BY <2>3, <2>4, <2>a, <2>c, <3>1, <4>1 DEF Said, Strayed
    <3>2. CASE d # c
      <4>1. playing'[d] = playing[d] BY <1>d, <2>2, <3>2
      <4>2. playing[d].id \in L!Sessions /\ playing[d].id # n BY <1>i, <2>1, <2>6, <4>1
      <4>3. /\ owner[playing[d].id].client = d /\ owner[playing[d].id].file = playing[d].file
            /\ Said(owner, playing[d].id, playing[d].asked)
          BY <2>6, <4>1 DEF Owned
      <4>4. next[playing[d].id] = owner[playing[d].id] BY <2>4, <4>2
      <4>5. playing[d].id <= plays' /\ (owner[playing[d].id].asked = playing[d].asked
             \/ <<owner[playing[d].id].client, owner[playing[d].id].file>> \in turned')
          BY <1>g, <1>p, <4>2, <4>3 DEF Said, Strayed, L!Sessions
      <4> QED BY <4>1, <4>3, <4>4, <4>5 DEF Said, Strayed
    <3> QED BY <3>1, <3>2
  <2>7. ASSUME NEW s \in L!Sessions
        PROVE  /\ log'[s] # "" => Said(next, s, log[s])'
               /\ oldLog'[s] # "" => Said(next, s, oldLog[s])'
               /\ causes'[s] = "codec" => Said(next, s, "1")'
    <3>1. CASE s = n
      <4>1. log'[n] = asks BY <1>d, <2>1, <2>2
      <4>2. oldLog[n] = "" /\ causes[n] # "codec" BY <2>1 DEF Owned, Said
      <4> QED BY <1>w, <2>2, <2>a, <3>1, <4>1, <4>2 DEF Said, Strayed
    <3>2. CASE s # n
      <4>1. log'[s] = log[s] /\ oldLog'[s] = oldLog[s] /\ causes'[s] = causes[s]
          BY <1>d, <1>w, <2>2, <3>2
      <4>2. /\ log[s] # "" => Said(owner, s, log[s])
            /\ oldLog[s] # "" => Said(owner, s, oldLog[s])
            /\ causes[s] = "codec" => Said(owner, s, "1")
          BY DEF Owned
      <4>3. \A a : Said(owner, s, a) => Said(next, s, a)' BY <2>b, <3>2
      <4> QED BY <4>1, <4>2, <4>3 DEF Said, Strayed
    <3> QED BY <3>1, <3>2
  <2>8. pollPc' = "causes" => listing' \in Seq(Answered(next)')
    <3> DEFINE A == Answered(owner)
    <3> DEFINE B == Answered(next)'
    <3>1. \A r \in A : r \in B
      <4> SUFFICES ASSUME NEW r \in A PROVE r \in B
          OBVIOUS
      <4>1. r.id \in 1 .. plays BY DEF Answered
      <4>2. r.id # n /\ r.id \in L!Sessions /\ r.id \in 1 .. plays'
          BY <1>p, <2>n, <2>1, <4>1 DEF L!Sessions
      <4>3. next[r.id] = owner[r.id] BY <2>4, <4>2
      <4> QED BY <2>2, <4>2, <4>3 DEF Answered, Strayed
    <3>2. pollPc = "causes" => listing \in Seq(A) BY DEF Owned
    <3> HIDE DEF A, B
    <3>3. pollPc = "causes" => listing \in Seq(B) BY <3>1, <3>2
    <3>4. pollPc' = "causes" => listing' \in Seq(B) BY <1>w, <3>3
    <3> QED BY <3>4 DEF B
  <2>9. Owned(next)' BY <2>5, <2>6, <2>7, <2>8 DEF Owned
  <2> QED BY <2>9
<1>2. ASSUME NEW c \in Clients, NEW asks, L!Switch(c, asks) PROVE Owned(owner)'
  <2> DEFINE s == [id |-> playing[c].id, file |-> playing[c].file, track |-> playing[c].track + 1,
                   asked |-> asks]
  <2> DEFINE n == playing[c].id
  <2>1. /\ playing[c] # L!Idle /\ UNCHANGED <<plays, oldLog>>
        /\ log' = [log EXCEPT ![n] = asks]
        /\ turned' = IF asks = playing[c].asked THEN turned ELSE turned \cup {<<c, playing[c].file>>}
      BY <1>2 DEF L!Switch
  <2>2. playing' = [playing EXCEPT ![c] = s]
    <3>1. [playing[c] EXCEPT !.track = playing[c].track + 1, !.asked = asks] = s
        BY <1>i, <2>1, AnotherTrack
    <3> HIDE DEF s
    <3> QED BY <1>2, <1>d, <3>1 DEF L!Switch
  <2>3. s.id = n /\ s.asked = asks /\ s.file = playing[c].file OBVIOUS
  <2>4. /\ owner[n].client = c /\ owner[n].file = playing[c].file /\ n \in L!Sessions
        /\ Said(owner, n, playing[c].asked)
    <3>1. /\ owner[n].client = c /\ owner[n].file = playing[c].file /\ Said(owner, n, playing[c].asked)
        BY <2>1 DEF Owned
    <3>2. n \in L!Sessions BY <1>i, <2>1
    <3> QED BY <3>1, <3>2
  <2> HIDE DEF s, n
  <2>a. n <= plays' /\ (owner[n].asked = asks \/ <<owner[n].client, owner[n].file>> \in turned')
    <3>1. CASE asks = playing[c].asked BY <2>1, <2>4, <3>1 DEF Said, Strayed
    <3>2. CASE asks # playing[c].asked BY <2>1, <2>4, <3>2 DEF Said
    <3> QED BY <3>1, <3>2
  <2>5. ASSUME NEW d \in Clients, playing'[d] # L!Idle
        PROVE  /\ owner[playing'[d].id].client = d /\ owner[playing'[d].id].file = playing'[d].file
               /\ Said(owner, playing[d].id, playing[d].asked)'
    <3>1. CASE d = c
      <4>1. playing'[d] = s BY <1>d, <2>2, <3>1
      <4> QED BY <2>3, <2>4, <2>a, <3>1, <4>1 DEF Said, Strayed
    <3>2. CASE d # c
      <4>1. playing'[d] = playing[d] BY <1>d, <2>2, <3>2
      <4>2. playing[d].id \in L!Sessions BY <1>i, <2>5, <4>1
      <4>3. /\ owner[playing[d].id].client = d /\ owner[playing[d].id].file = playing[d].file
            /\ Said(owner, playing[d].id, playing[d].asked)
          BY <2>5, <4>1 DEF Owned
      <4>5. playing[d].id <= plays' /\ (owner[playing[d].id].asked = playing[d].asked
             \/ <<owner[playing[d].id].client, owner[playing[d].id].file>> \in turned')
          BY <1>g, <1>p, <4>2, <4>3 DEF Said, Strayed, L!Sessions
      <4> QED BY <4>1, <4>3, <4>5 DEF Said, Strayed
    <3> QED BY <3>1, <3>2
  <2>6. ASSUME NEW k \in L!Sessions
        PROVE  /\ log'[k] # "" => Said(owner, k, log[k])'
               /\ oldLog'[k] # "" => Said(owner, k, oldLog[k])'
               /\ causes'[k] = "codec" => Said(owner, k, "1")'
    <3>1. log'[k] = IF k = n THEN asks ELSE log[k] BY <1>d, <2>1
    <3>2. /\ log[k] # "" => Said(owner, k, log[k])
          /\ oldLog[k] # "" => Said(owner, k, oldLog[k])
          /\ causes[k] = "codec" => Said(owner, k, "1")
        BY DEF Owned
    <3>3. \A a : Said(owner, k, a) => k <= plays' /\ (owner[k].asked = a \/ Strayed(owner, k)')
        BY <1>g, <1>p DEF Said, Strayed, L!Sessions
    <3>4. oldLog'[k] = oldLog[k] /\ causes'[k] = causes[k] BY <1>w, <2>1
    <3>5. log'[k] # "" => Said(owner, k, log[k])'
      <4>1. CASE k = n BY <2>a, <3>1, <4>1 DEF Said, Strayed
      <4>2. CASE k # n BY <3>1, <3>2, <3>3, <4>2 DEF Said, Strayed
      <4> QED BY <4>1, <4>2
    <3> QED BY <3>2, <3>3, <3>4, <3>5 DEF Said, Strayed
  <2>7. DOMAIN owner = L!Sessions BY DEF Owned
  <2> QED BY <1>l, <2>5, <2>6, <2>7 DEF Owned
<1>3. ASSUME NEW c \in Clients, L!Stop(c) PROVE Owned(owner)'
  <2>1. playing' = [playing EXCEPT ![c] = L!Idle] /\ UNCHANGED <<plays, log, oldLog, turned>>
      BY <1>3 DEF L!Stop
  <2>2. \A d \in Clients : playing'[d] # L!Idle => playing'[d] = playing[d] BY <1>d, <2>1
  <2>3. ASSUME NEW d \in Clients, playing'[d] # L!Idle
        PROVE  /\ owner[playing'[d].id].client = d /\ owner[playing'[d].id].file = playing'[d].file
               /\ Said(owner, playing[d].id, playing[d].asked)'
    <3>1. playing'[d] = playing[d] BY <2>2, <2>3
    <3>2. /\ owner[playing[d].id].client = d /\ owner[playing[d].id].file = playing[d].file
          /\ Said(owner, playing[d].id, playing[d].asked)
        BY <2>3, <3>1 DEF Owned
    <3> QED BY <2>1, <3>1, <3>2 DEF Said, Strayed
  <2>4. \A k \in L!Sessions : /\ log'[k] # "" => Said(owner, k, log[k])'
                              /\ oldLog'[k] # "" => Said(owner, k, oldLog[k])'
                              /\ causes'[k] = "codec" => Said(owner, k, "1")'
      BY <1>w, <2>1 DEF Owned, Said, Strayed
  <2>5. DOMAIN owner = L!Sessions BY DEF Owned
  <2> QED BY <1>l, <2>3, <2>4, <2>5 DEF Owned
<1>4. ASSUME L!Rotate PROVE Owned(owner)'
  <2>1. oldLog' = log /\ log' = L!NoLog /\ UNCHANGED <<plays, playing, turned>> BY <1>4 DEF L!Rotate
  <2>2. \A s \in L!Sessions : log'[s] = "" BY <2>1 DEF L!NoLog
  <2> QED BY <1>w, <2>1, <2>2 DEF Owned, Answered, Said, Strayed
<1> QED BY <1>1, <1>2, <1>3, <1>4

\* The collector moves: who opened the sessions stays who did.
LEMMA OwnedStays ==
    ASSUME PlayTypes, PollTypes, NEW owner, Owned(owner),
           \/ \E c \in L!Known : L!Edit(c)
           \/ L!PlexSessions \/ L!PlexCauses \/ L!JellyfinSessions \/ L!ServerFails \/ L!NothingToTell
           \/ L!LedgerObserve \/ L!WriteTmp \/ L!WriteFails \/ L!RenameTmp \/ L!Publish \/ L!Restart
           \/ UNCHANGED L!vars
    PROVE  Owned(owner)'
<1>w. UNCHANGED <<playing, log, oldLog, plays, turned>>
    BY DEF L!Edit, L!PlexSessions, L!PlexCauses, L!JellyfinSessions, L!ServerFails, L!NothingToTell,
           L!LedgerObserve, L!WriteTmp, L!WriteFails, L!RenameTmp, L!Publish, L!Restart, L!vars, L!Ask, L!world
<1>a. Answered(owner)' = Answered(owner) BY <1>w DEF Answered, Strayed
<1>1. CASE L!PlexSessions
  <2>1. causes' = causes /\ listing' = L!SetToSeq(L!Rows("plex")) BY <1>1 DEF L!PlexSessions
  <2>2. listing' \in Seq(Answered(owner)) BY <2>1, RowsTell, RowsInOrder
  <2> QED BY <1>w, <1>a, <2>1, <2>2 DEF Owned, Said, Strayed
<1>2. CASE L!PlexCauses
  <2>1. pollPc' = "jellyfin" BY <1>2 DEF L!PlexCauses
  <2>2. \A s \in L!Sessions : causes'[s] = "codec" => causes[s] = "codec" \/ L!Cause(s) = "codec"
      BY <1>2, Remembers DEF L!PlexCauses
  <2>3. \A s \in L!Sessions : causes'[s] = "codec" => Said(owner, s, "1")
    <3> SUFFICES ASSUME NEW s \in L!Sessions, causes'[s] = "codec"
                 PROVE  Said(owner, s, "1")
        OBVIOUS
    <3>1. CASE causes[s] = "codec" BY <3>1 DEF Owned
    <3>2. CASE L!Cause(s) = "codec" BY <3>2, CauseTells
    <3> QED BY <2>2, <3>1, <3>2
  <2> QED BY <1>w, <2>1, <2>3 DEF Owned, Said, Strayed
<1>3. CASE L!Restart
  <2>1. pollPc' = "sleep" /\ causes' = L!NoLog BY <1>3 DEF L!Restart
  <2>2. \A s \in L!Sessions : causes'[s] # "codec" BY <2>1 DEF L!NoLog
  <2> QED BY <1>w, <2>1, <2>2 DEF Owned, Said, Strayed
<1>4. CASE \/ L!JellyfinSessions \/ L!ServerFails \/ L!NothingToTell \/ L!LedgerObserve \/ L!WriteTmp
           \/ L!WriteFails \/ L!RenameTmp \/ L!Publish
  <2>1. pollPc' # "causes" /\ causes' = causes
      BY <1>4 DEF L!JellyfinSessions, L!ServerFails, L!NothingToTell, L!LedgerObserve, L!WriteTmp,
           L!WriteFails, L!RenameTmp, L!Publish
  <2> QED BY <1>w, <2>1 DEF Owned, Said, Strayed
<1>5. CASE (\E c \in L!Known : L!Edit(c)) \/ UNCHANGED L!vars
  <2>1. UNCHANGED <<pollPc, causes, listing>> BY <1>5 DEF L!Edit, L!poll, L!vars
  <2> QED BY <1>w, <1>a, <2>1 DEF Owned, Said, Strayed
<1> QED BY <1>1, <1>2, <1>3, <1>4, <1>5

\* What has been heard teaches the truth.
LEMMA HeardStays ==
    ASSUME PlayTypes, PollTypes, NEW owner, Owned(owner),
           pollPc # "causes" => listing \in Seq(Heard(Taught)), [L!Next]_(L!vars)
    PROVE  pollPc' # "causes" => listing' \in Seq(Heard(Taught))
<1>e. <<>> \in Seq(Heard(Taught)) OBVIOUS
<1>1. CASE L!PlexSessions
  <2>1. pollPc' = "causes" BY <1>1 DEF L!PlexSessions
  <2> QED BY <2>1
<1>2. CASE L!PlexCauses
  <2>1. listing \in Seq(Answered(owner)) BY <1>2 DEF L!PlexCauses, Owned
  <2>2. \A i \in DOMAIN listing : listing[i] \in Answered(owner)
    <3> DEFINE A == Answered(owner)
    <3> HIDE DEF A
    <3>1. listing \in Seq(A) BY <2>1 DEF A
    <3>2. \A i \in DOMAIN listing : listing[i] \in A BY <3>1
    <3> QED BY <3>2 DEF A
  <2>3. \A i \in DOMAIN listing : /\ Seen(listing[i]) \in Heard(Taught)
                                 /\ Named(Seen(listing[i])) \in Heard(Taught)
      BY <2>2, AnsweredTeaches
  <2>4. /\ DOMAIN listing' = DOMAIN listing /\ listing' = [i \in DOMAIN listing |-> listing'[i]]
        /\ \A i \in DOMAIN listing : listing'[i] \in Heard(Taught)
    <3>1. CASE listing' = [i \in DOMAIN listing |-> Named(Seen(listing[i]))] BY <2>3, <3>1
    <3>2. CASE listing' = [i \in DOMAIN listing |-> Seen(listing[i])] BY <2>3, <3>2
    <3> QED BY <1>2, <3>1, <3>2, CausedRows
  <2>5. listing' \in Seq(Heard(Taught)) BY <2>1, <2>4, ListedAgain
  <2> QED BY <2>5
<1>3. CASE L!JellyfinSessions
  <2>1. pollPc = "jellyfin" /\ listing' = listing \o L!SetToSeq(L!Rows("jellyfin"))
      BY <1>3 DEF L!JellyfinSessions
  <2>2. L!SetToSeq(L!Rows("jellyfin")) \in Seq(Heard(Taught)) BY RowsTell, RowsInOrder
  <2>3. listing' \in Seq(Heard(Taught)) BY <2>1, <2>2
  <2> QED BY <2>3
<1>4. CASE L!ServerFails
  <2>1. listing' = <<>> \/ (pollPc = "jellyfin" /\ listing' = listing) BY <1>4 DEF L!ServerFails
  <2> QED BY <1>e, <2>1
<1>5. CASE L!Restart
  <2>1. listing' = <<>> BY <1>5 DEF L!Restart
  <2> QED BY <1>e, <2>1
<1>6. CASE L!NothingToTell \/ L!LedgerObserve \/ L!WriteTmp \/ L!WriteFails \/ L!RenameTmp \/ L!Publish
  <2>1. pollPc # "causes" /\ listing' = listing
      BY <1>6 DEF L!NothingToTell, L!LedgerObserve, L!WriteTmp, L!WriteFails, L!RenameTmp, L!Publish
  <2> QED BY <2>1
<1>7. CASE \/ \E c \in Clients :
                 \/ L!Stop(c)
                 \/ \E asks \in Profile[c].directPlay :
                       L!Switch(c, asks) \/ \E f \in Files : L!Play(c, f, asks)
           \/ L!Rotate \/ \E c \in L!Known : L!Edit(c)
           \/ UNCHANGED L!vars
  <2>1. UNCHANGED <<pollPc, listing>>
      BY <1>7 DEF L!Play, L!Stop, L!Switch, L!Rotate, L!Edit, L!WorldMoves, L!poll, L!vars
  <2> QED BY <2>1
<1> QED BY <1>1, <1>2, <1>3, <1>4, <1>5, <1>6, <1>7 DEF L!Next

\* A codec is learned only from clients that refuse it or that changed their request
\* in the middle of a file that has it, for any clients and files, whatever they may
\* ask for, any number of sessions, and whatever was logged, forgotten, rotated or
\* lost when.
THEOREM OnlyRefusalsAreLearned == PartsSpec => []LearnedFromRefusals
<1>1. PartsInit => RefusalInv BY RefusalStarts DEF PartsInit
<1>2. ASSUME LedgerInv, RefusalInv, [PartsNext]_allVars PROVE RefusalInv'
  <2>1. [L!Next]_(L!vars) BY <1>2, LedgerStepsApart
  <2>2. PlayTypes /\ PollTypes BY <1>2 DEF LedgerInv
  <2>3. PICK owner : Owned(owner) BY <1>2 DEF RefusalInv
  <2>4. \E next : Owned(next)'
    <3>1. CASE \/ \E c \in Clients :
                    \/ L!Stop(c)
                    \/ \E asks \in Profile[c].directPlay :
                          L!Switch(c, asks) \/ \E f \in Files : L!Play(c, f, asks)
               \/ L!Rotate
        BY <2>1, <2>2, <2>3, <3>1, OwnedMoves
    <3>2. CASE \/ \E c \in L!Known : L!Edit(c)
               \/ L!PlexSessions \/ L!PlexCauses \/ L!JellyfinSessions \/ L!ServerFails \/ L!NothingToTell
               \/ L!LedgerObserve \/ L!WriteTmp \/ L!WriteFails \/ L!RenameTmp \/ L!Publish \/ L!Restart
               \/ UNCHANGED L!vars
      <4>1. Owned(owner)' BY <2>2, <2>3, <3>2, OwnedStays
      <4> QED BY <4>1
    <3> QED BY <2>1, <3>1, <3>2 DEF L!Next
  <2>5. PICK few : few = Taught OBVIOUS
  <2>6. PICK many : many = Taught' OBVIOUS
  <2>7. Heard(few) \subseteq Heard(many) /\ Ledgers(few) \subseteq Ledgers(many)
    <3>1. few \subseteq many BY <2>1, <2>2, <2>5, <2>6, TurnsGrow
    <3> QED BY <3>1, MoreLessons
  <2>8. pollPc' # "causes" => listing' \in Seq(Heard(Taught)')
    <3>1. pollPc' # "causes" => listing' \in Seq(Heard(Taught))
        BY <1>2, <2>1, <2>2, <2>3, HeardStays DEF RefusalInv
    <3>2. Heard(Taught) = Heard(few) /\ Heard(Taught)' = Heard(many)
        BY <2>5, <2>6 DEF Heard, L!Learnable
    <3> DEFINE A == Heard(few)
    <3> DEFINE B == Heard(many)
    <3>3. pollPc' # "causes" => listing' \in Seq(A) BY <3>1, <3>2
    <3>4. A \subseteq B BY <2>7
    <3> HIDE DEF A, B
    <3>5. pollPc' # "causes" => listing' \in Seq(B) BY <3>3, <3>4
    <3> QED BY <3>2, <3>5 DEF B
  <2>9. Kept(Taught)'
    <3>1. Kept(few) BY <1>2, <2>5 DEF RefusalInv, Kept
    <3>2. pollPc = "observe" => listing \in Seq(Heard(few)) BY <1>2, <2>5 DEF RefusalInv
    <3>3. Kept(few)' BY <2>1, <3>1, <3>2, KeptStep
    <3>4. ledger' \in Ledgers(many) /\ tmp' \in Ledgers(many) /\ file' \in Ledgers(many)
        BY <2>7, <3>3 DEF Kept
    <3>5. Ledgers(many) = Ledgers(Taught)' BY <2>6 DEF Ledgers
    <3> QED BY <3>3, <3>4, <3>5 DEF Kept
  <2> QED BY <2>4, <2>8, <2>9 DEF RefusalInv
<1>3. RefusalInv => LearnedFromRefusals
  <2> SUFFICES ASSUME RefusalInv, NEW l \in {ledger, file}, NEW codec \in L!Known, NEW c \in l.codecs[codec]
               PROVE  /\ ~Profile[c].browser
                      /\ \/ codec \in Profile[c].refuses
                         \/ \E f \in Files : <<c, f>> \in turned /\ codec \in L!ToSet(File[f].tracks)
      BY DEF LearnedFromRefusals, L!LearnedFromRefusals
  <2>1. l \in Ledgers(Taught) BY DEF RefusalInv, Kept
  <2>2. <<codec, c>> \in Taught BY <2>1 DEF Ledgers
  <2> QED BY <2>2 DEF Taught
<1> QED BY <1>1, <1>2, <1>3, LedgerInvHolds, PTL DEF PartsSpec
=============================================================================
