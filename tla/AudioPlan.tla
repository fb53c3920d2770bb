----------------------------- MODULE AudioPlan -----------------------------
(***************************************************************************)
(* Which audio tracks a file gets, decided twice: by pi-metrics for the    *)
(* file a client played (services/pi-metrics/plan.go), and by the script   *)
(* that converts it (scripts/sync/audio-compat.py), alone at night or with *)
(* the positions the page took from pi-metrics' plan.                      *)
(*                                                                         *)
(* A track is its codec, language, channels and the two disposition flags  *)
(* the rules look at.  Positions count from 1 here, from 0 in the code.    *)
(***************************************************************************)
EXTENDS Naturals, Sequences, SequencesExt, FiniteSets, Filters

CONSTANTS
    Codecs,          \* codecs of the tracks of a release
    Incompatible,    \* SEED and what the ledger learned, without the target
    Languages,       \* language tags, "und" for a track without one
    Channels,        \* channel counts of the tracks of a release
    Targets,         \* what --target can ask for
    MaxTracks,       \* bound: tracks of a release
    MaxConversions   \* bound: conversions of one file

ASSUME AudioPlanAssumption ==
    /\ "und" \in Languages /\ "ac3" \in Targets
    /\ Incompatible \intersect Targets = {}
    /\ Channels \subseteq Nat \ {0}
    /\ MaxTracks \in Nat \ {0} /\ MaxConversions \in Nat

VARIABLES
    tracks,     \* the audio streams of the file
    played,     \* the stream the session named, 0 when it did not
    plan,       \* positions of the plan's sources, <<>> when there is none
    original,   \* history: the audio streams of the release
    nights,     \* history: how many nightly passes converted the file
    conversions \* history: how many conversions there were

vars == <<tracks, played, plan, original, nights, conversions>>

Lesser(a, b) == IF a < b THEN a ELSE b
Positions(ts) == [p \in 1 .. Len(ts) |-> p]
SameLanguage(a, b) == a = b \/ "und" \in {a, b}
MaxChannels(target) == IF target = "aac" THEN 2 ELSE 6
-----------------------------------------------------------------------------
(* audio-compat.py *)

\* default_audio_index: the first track flagged default, else the first.
DefaultIndex(ts) ==
    LET first(p) == ts[p].default /\ \A q \in 1 .. p - 1 : ~ts[q].default
    IN  IF \E p \in DOMAIN ts : first(p) THEN CHOOSE p \in DOMAIN ts : first(p) ELSE 1

\* Mutant: a commentary in the language is good enough.
StandsInComment(ts, p, m) ==
    /\ p # m
    /\ ts[p].codec \notin Incompatible
    /\ SameLanguage(ts[p].lang, ts[m].lang)
    /\ ts[p].channels >= Lesser(ts[m].channels, 6)

\* stand_in: a compatible track that would play in the place of track m.
StandsIn(ts, p, m) ==
    /\ p # m
    /\ ts[p].codec \notin Incompatible
    /\ ~ts[p].comment
    /\ SameLanguage(ts[p].lang, ts[m].lang)
    /\ ts[p].channels >= Lesser(ts[m].channels, 6)

\* Mutant: the default track alone.
MainTracksLeadOnly(ts) == <<DefaultIndex(ts)>>

\* main_tracks: the default track, then the first of every other language.
MainTracks(ts) ==
    LET lead == DefaultIndex(ts)
        opens(p) == /\ ~ts[p].comment
                    /\ ts[p].lang # ts[lead].lang
                    /\ \A q \in 1 .. p - 1 : ts[q].comment \/ ts[q].lang # ts[p].lang
    IN  <<lead>> \o Filter(Positions(ts), {p \in DOMAIN ts : opens(p)})

\* assess: the positions to build a track from, of those asked for or else of
\* the main ones.
Assess(ts, asked) ==
    IF \E i \in DOMAIN asked : asked[i] \notin DOMAIN ts
      THEN <<>>
      ELSE Filter(IF asked = <<>> THEN MainTracks(ts) ELSE asked,
                  {m \in DOMAIN ts : /\ ts[m].codec \in Incompatible
                                     /\ ~ \E p \in DOMAIN ts : StandsIn(ts, p, m)})

Added(ts, m, target, default) ==
    [ts[m] EXCEPT !.codec = target, !.default = default, !.comment = FALSE,
                  !.channels = Lesser(@, MaxChannels(target))]

\* remux: the new tracks first.  When the first of them is built from the
\* default track it takes the flag, and -disposition:a 0 clears all the others.
Remux(ts, sources, target) ==
    IF sources[1] = DefaultIndex(ts)
      THEN [i \in DOMAIN sources |-> Added(ts, sources[i], target, i = 1)]
           \o [p \in DOMAIN ts |-> [ts[p] EXCEPT !.default = FALSE, !.comment = FALSE]]
      ELSE [i \in DOMAIN sources |-> Added(ts, sources[i], target, FALSE)] \o ts

\* Mutant: only the codec of the new tracks is looked at.
VerifyUncounted(old, new, sources, target) ==
    \A i \in DOMAIN sources : new[i].codec = target

\* verify: every stream is there, and the first ones are the new ones.
Verify(old, new, sources, target) ==
    /\ Len(new) = Len(old) + Len(sources)
    /\ \A i \in DOMAIN sources : new[i].codec = target
-----------------------------------------------------------------------------
(* plan.go *)

\* mainTrack: the played track when the session said which, else the default.
Lead(ts) == IF played # 0 THEN played ELSE DefaultIndex(ts)

\* mainTracks: walk the tracks, keeping the first of every language not seen.
PlanMains(ts) ==
    LET visit(mains, p) ==
            IF ts[p].comment \/ \E i \in DOMAIN mains : ts[mains[i]].lang = ts[p].lang
              THEN mains ELSE Append(mains, p)
        kept[p \in 0 .. Len(ts)] == IF p = 0 THEN <<Lead(ts)>> ELSE visit(kept[p - 1], p)
    IN  kept[Len(ts)]

\* Mutant: the twin that was not changed together: channels are not compared.
PlayableAnyChannels(ts, m) ==
    \E p \in DOMAIN ts \ {m} : /\ ts[p].codec \notin Incompatible /\ ~ts[p].comment
                               /\ SameLanguage(ts[p].lang, ts[m].lang)

\* standIn
Playable(ts, m) ==
    LET wanted == IF ts[m].channels > 6 THEN 6 ELSE ts[m].channels
    IN  \E p \in DOMAIN ts \ {m} :
            /\ ts[p].codec \notin Incompatible /\ ~ts[p].comment
            /\ SameLanguage(ts[p].lang, ts[m].lang)
            /\ ts[p].channels >= wanted

\* decide: the sources of the plan of a codec entry in the library.
Decide(ts) ==
    Filter(PlanMains(ts), {m \in DOMAIN ts : ts[m].codec \in Incompatible /\ ~Playable(ts, m)})
-----------------------------------------------------------------------------
Release(n) ==
    {ts \in [1 .. n -> [codec : Codecs, lang : Languages, channels : Channels,
                        default : BOOLEAN, comment : BOOLEAN]] :
        Cardinality({p \in 1 .. n : ts[p].default}) <= 1}

Init ==
    /\ \E n \in 1 .. MaxTracks : tracks \in Release(n) /\ played \in 0 .. n
    /\ plan = <<>>
    /\ original = tracks
    /\ nights = 0 /\ conversions = 0

\* The session is read and its file's entry decided.  The session names the
\* stream of the release, so the entry is the release's.
Observe ==
    /\ tracks = original /\ plan = <<>>
    /\ plan' = Decide(tracks)
    /\ UNCHANGED <<tracks, played, original, nights, conversions>>

\* convert: ffmpeg may lose the last stream; what does not verify is dropped.
Convert(sources, target) ==
    /\ sources # <<>>
    /\ conversions < MaxConversions
    /\ LET whole == Remux(tracks, sources, target) IN
       \E new \in {whole, Front(whole)} :
           Verify(tracks, new, sources, target) /\ tracks' = new
    /\ conversions' = conversions + 1

\* Convert is pressed: the script decides again, on the file and the positions.
Press(target) ==
    /\ plan # <<>>
    /\ Convert(Assess(tracks, plan), target)
    /\ UNCHANGED <<played, plan, original, nights>>

\* The nightly pass reaches the file.
Night ==
    /\ Convert(Assess(tracks, <<>>), "ac3")
    /\ nights' = nights + 1
    /\ UNCHANGED <<played, plan, original>>

Next == Observe \/ Night \/ \E t \in Targets : Press(t)

Spec == Init /\ [][Next]_vars
-----------------------------------------------------------------------------
\* "assess in the script and decide in plan.go are the same rule": when the
\* session named no track, both pick the same tracks in the same order.
TwinsAgree == played = 0 => Decide(original) = Assess(original, <<>>)

\* What the page lists as fixable can be fixed: given the plan's positions, the
\* script builds from all of them, as long as the file is the one described.
PlanIsAccepted == tracks = original /\ plan # <<>> => Assess(tracks, plan) = plan

\* "Every original track stays in the file": codec, language and channels.
Essence(t) == <<t.codec, t.lang, t.channels>>
EveryTrackStays ==
    \A p \in DOMAIN original :
        /\ Len(tracks) >= Len(original)
        /\ Essence(tracks[Len(tracks) - Len(original) + p]) = Essence(original[p])

\* Once a night has converted the file, with whatever was pressed before (a commentary
\* may no longer be marked as one) and after: whatever language the TV is told to
\* play, one of its tracks does, unless all it has are commentaries.
EveryLanguagePlays ==
    nights > 0 =>
        \A p \in DOMAIN original :
            ~original[p].comment =>
                \E q \in DOMAIN tracks : /\ tracks[q].codec \notin Incompatible
                                         /\ SameLanguage(tracks[q].lang, original[p].lang)

\* remux: "copying everything else untouched": a commentary is still one.
CommentariesStay ==
    [][\A p \in DOMAIN tracks :
         tracks[p].comment => tracks'[Len(tracks') - Len(tracks) + p].comment]_tracks

\* remux: a conversion that does not give the default flag to a new track says
\* "the default language already plays; the added ones must not take its place".
DefaultLanguagePlays ==
    [][LET d == DefaultIndex(tracks) IN
       DefaultIndex(tracks') > Len(tracks') - Len(tracks) =>
         \/ tracks[d].codec \notin Incompatible
         \/ \E p \in DOMAIN tracks : StandsIn(tracks, p, d)]_tracks
=============================================================================
