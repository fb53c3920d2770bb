----------------------------- MODULE BairdLists -----------------------------
(***************************************************************************)
(* The shared lists of services/baird (lists.go): every two minutes their  *)
(* channels are read and folded into what they carried before, keeping for *)
(* a while some of the sources they dropped, by how each did in the        *)
(* player.  A group they start carrying is hidden until somebody switches  *)
(* it on; groups and single channels are switched on the page.             *)
(* A read is the code's one critical section; the order of the channels in *)
(* the list is left out, that of a channel's sources is not.               *)
(***************************************************************************)
EXTENDS Naturals, SequencesExt, FiniteSets, Filters

CONSTANTS
    Channel, Source, Group,
    Carries,      \* the sources the lists may carry under each channel
    In,           \* the groups they may put it in
    Answers,      \* what the player may say: source -> unknown, played or failed
    For,          \* KEEP_DROPPED, in reads
    MaxKept,      \* MAX_KEPT
    MaxReads,     \* bound: reads, each switch turned before one counting as one
    MaxEdits      \* bound: switches turned on the page

VARIABLES
    listed,        \* channel -> its group, and its sources: id and reads since seen
    hiddenGroups, hidden, shown,   \* the switches of the page
    knownGroups, newGroups,
    read,          \* history: what the lists carried at the last read
    outcome,       \* history: what the player answered then, by source
    on,            \* history: the groups last decided to be on
    touched,       \* history: the channels somebody switched one by one
    cut,           \* history: the process died in the middle of the last read
    reads, edits

choices == <<hiddenGroups, hidden, shown, knownGroups, newGroups>>
history == <<read, outcome, on, touched, cut>>
vars == <<listed, choices, history, reads, edits>>

Nothing == [c \in {} |-> {}]

Init ==
    /\ listed = Nothing
    /\ hiddenGroups = {} /\ hidden = {} /\ shown = {} /\ knownGroups = {} /\ newGroups = {}
    /\ read = Nothing /\ outcome = [s \in Source |-> "unknown"]
    /\ on = {} /\ touched = {} /\ cut = FALSE
    /\ reads = 0 /\ edits = 0
-----------------------------------------------------------------------------
\* What a read may bring: some of the channels, each in a group with sources.
MayBring(c) == [group : In[c], ids : (SUBSET Carries[c]) \ {{}}]
Readings ==
    UNION {{f \in [C -> UNION {MayBring(c) : c \in C}] : \A c \in C : f[c] \in MayBring(c)} :
           C \in SUBSET Channel}

Played == {"played", "probed"}

Ids(sources) == {s.id : s \in ToSet(sources)}
Carried(r) == UNION {r[c].ids : c \in DOMAIN r}

\* The sources of a channel with this read's folded in: those it carries are seen
\* now, where they stood before, and new ones go last.
Fold(before, ids) ==
    [i \in DOMAIN before |->
       [id |-> before[i].id,
        age |-> IF before[i].id \in ids THEN 0
                ELSE IF before[i].age < For THEN before[i].age + 1 ELSE For]]
    \o [i \in 1 .. Cardinality(ids \ Ids(before)) |->
          [id |-> SetToSeq(ids \ Ids(before))[i], age |-> 0]]

\* The sources that are so many reads old, the youngest first.
Newest(sources) ==
    LET upTo[a \in 0 .. For] ==
            IF a = 0 THEN <<>>
            ELSE upTo[a - 1] \o Filter(sources, {s \in ToSet(sources) : s.age = a})
    IN  upTo[For]

\* Mutant: only the most recently dropped.
RankByAge(sources, o) == Newest(sources)

\* Kept sources that played first, then the most recently dropped.
Rank(sources, o) ==
    LET good == {s \in ToSet(sources) : o[s.id] \in Played}
    IN  Newest(Filter(sources, good)) \o Newest(Filter(sources, ToSet(sources) \ good))

\* Mutant: the cap counts what the lists carry too.
RememberedCapped(sources, carried, o) ==
    LET kept == {s \in ToSet(sources) : /\ s.id \notin carried /\ s.age < For
                                        /\ o[s.id] # "failed"}
        all  == Filter(sources, {s \in ToSet(sources) : s.id \in carried})
                \o Rank(Filter(sources, kept), o)
    IN  SubSeq(all, 1, IF Len(all) < MaxKept THEN Len(all) ELSE MaxKept)

\* remember, for one channel: what the lists carry, and the best of the rest.
Remembered(sources, carried, o) ==
    LET now  == Filter(sources, {s \in ToSet(sources) : s.id \in carried})
        kept == {s \in ToSet(sources) : /\ s.id \notin carried /\ s.age < For
                                        /\ o[s.id] # "failed"
                                        /\ now = <<>> => o[s.id] \in Played}
        rank == Rank(Filter(sources, kept), o)
    IN  now \o SubSeq(rank, 1, IF Len(rank) < MaxKept THEN Len(rank) ELSE MaxKept)

Remember(r, o) ==
    LET Was(c)  == IF c \in DOMAIN listed THEN listed[c].sources ELSE <<>>
        IdsIn(c) == IF c \in DOMAIN r THEN r[c].ids ELSE {}
        all     == [c \in DOMAIN listed \cup DOMAIN r |->
                      [group   |-> IF c \in DOMAIN r THEN r[c].group ELSE listed[c].group,
                       sources |-> Remembered(Fold(Was(c), IdsIn(c)), Carried(r), o)]]
    IN  [c \in {d \in DOMAIN all : all[d].sources # <<>>} |-> all[c]]

Groups(l) == {l[c].group : c \in DOMAIN l}

\* Mutant: the first read is the first one, and not the first that brought a group.
HoldNewGroupsByCount(l) ==
    LET fresh == Groups(l) \ knownGroups
    IN  /\ knownGroups' = knownGroups \cup fresh
        /\ hiddenGroups' = IF reads > 0 THEN hiddenGroups \cup fresh ELSE hiddenGroups
        /\ newGroups' = IF reads > 0 THEN newGroups \cup fresh ELSE newGroups
        /\ on' = IF knownGroups # {} THEN on ELSE fresh

\* holdNewGroups: a group that comes up after the first read is hidden and new.
HoldNewGroups(l) ==
    LET fresh == Groups(l) \ knownGroups
    IN  /\ knownGroups' = knownGroups \cup fresh
        /\ IF knownGroups # {}
             THEN /\ hiddenGroups' = hiddenGroups \cup fresh
                  /\ newGroups' = newGroups \cup fresh
                  /\ on' = on
             ELSE /\ UNCHANGED <<hiddenGroups, newGroups>>
                  /\ on' = fresh

\* setUpstream.
Read(r, o) ==
    /\ reads + edits < MaxReads
    /\ reads' = reads + 1
    /\ read' = r /\ outcome' = o /\ cut' = FALSE
    /\ listed' = Remember(r, o)
    /\ HoldNewGroups(listed')
    /\ UNCHANGED <<hidden, shown, touched, edits>>

\* The process dies with the choices saved, a group being new, and the channels
\* not: it comes back with the channels of the read before.
ReadCut(r, o) ==
    /\ reads + edits < MaxReads
    /\ reads' = reads + 1
    /\ cut' = TRUE
    /\ Groups(r) \ knownGroups # {}
    /\ HoldNewGroups(Remember(r, o))
    /\ UNCHANGED <<listed, hidden, shown, read, outcome, touched, edits>>
-----------------------------------------------------------------------------
\* shown: a hidden group hides its channels, a channel can be hidden or shown on
\* its own on top.
Shown(c) ==
    c \in shown \/ (listed[c].group \notin hiddenGroups /\ c \notin hidden)

Toggle(S, T, yes) == IF yes THEN S \cup T ELSE S \ T

SetListGroups(g, yes) ==
    /\ edits < MaxEdits
    /\ edits' = edits + 1
    /\ hiddenGroups' = Toggle(hiddenGroups, {g}, ~yes)
    /\ newGroups' = newGroups \ {g}
    /\ on' = Toggle(on, {g}, yes)
    /\ UNCHANGED <<listed, hidden, shown, knownGroups, read, outcome, touched, cut, reads>>

SetListChannels(c, yes) ==
    /\ edits < MaxEdits
    /\ edits' = edits + 1
    /\ hidden' = Toggle(hidden, {c}, ~yes)
    /\ shown' = Toggle(shown, {c}, yes /\ c \in DOMAIN listed /\ listed[c].group \in hiddenGroups)
    /\ touched' = touched \cup {c}
    /\ UNCHANGED <<listed, hiddenGroups, knownGroups, newGroups, read, outcome, on, cut, reads>>

\* The page offers what is listed.
Next ==
    \/ \E r \in Readings, o \in Answers : Read(r, o) \/ ReadCut(r, o)
    \/ \E g \in Groups(listed), yes \in BOOLEAN : SetListGroups(g, yes)
    \/ \E c \in DOMAIN listed, yes \in BOOLEAN : SetListChannels(c, yes)

Spec == Init /\ [][Next]_vars
-----------------------------------------------------------------------------
\* "Nothing reaches the list without a decision": a channel nobody switched
\* itself is shown exactly when the last decision on its group was to show it,
\* the first read deciding for every group it brings.
GroupsAreDecided ==
    \A c \in DOMAIN listed \ touched : Shown(c) <=> listed[c].group \in on

\* "Every source the lists carry now goes in", before any that is kept.
CarriedGoIn ==
    ~cut => \A c \in DOMAIN read :
        /\ c \in DOMAIN listed
        /\ \E n \in 0 .. Len(listed[c].sources) :
            /\ read[c].ids \subseteq Ids(SubSeq(listed[c].sources, 1, n))
            /\ Ids(SubSeq(listed[c].sources, 1, n)) \subseteq Carried(read)

\* The better of two dropped sources: it played and the other did not, or it was
\* dropped later.
Better(s, t, o) ==
    \/ o[s.id] \in Played /\ o[t.id] \notin Played
    \/ (o[s.id] \in Played <=> o[t.id] \in Played) /\ s.age < t.age

\* Of a channel that is still carried, what a read lets go of has failed, is too
\* old, or is no better than what fills its place.
LetsGoOfTheWorst ==
    reads' # reads /\ ~cut' =>
        \A c \in DOMAIN listed \cap DOMAIN read' :
            LET old  == Fold(listed[c].sources, read'[c].ids)
                kept == {s \in ToSet(listed'[c].sources) : s.id \notin Carried(read')}
            IN  /\ Cardinality(kept) <= MaxKept
                /\ \A s \in ToSet(old) :
                    \/ s.id \in Ids(listed'[c].sources) \/ outcome'[s.id] = "failed"
                    \/ s.age >= For
                    \/ Cardinality(kept) = MaxKept /\ \A k \in kept : ~Better(s, k, outcome')

\* "At most three per channel: those the player saw play first, then the most
\* recently dropped": every read lets go of the worst only.
KeptAreTheBest == [][LetsGoOfTheWorst]_vars

\* "A channel the lists dropped whole stays only while one of its sources has
\* played" (false of the code: a source the lists now carry under another name
\* counts as carried by the dropped channel too, for ever).
RenamedGoes ==
    ~cut => \A c \in DOMAIN listed \ DOMAIN read :
        \E s \in ToSet(listed[c].sources) : outcome[s.id] \in Played

\* "When it does not answer, the time limit is all there is": with no answer from
\* the player a source is let go of only when it is too old, or there are more.
LimitIsAll ==
    [][reads' # reads /\ ~cut' /\ (\A s \in Source : outcome'[s] = "unknown") =>
        \A c \in DOMAIN listed : \A i \in DOMAIN listed[c].sources :
            listed[c].sources[i].age + 1 < For =>
                /\ c \in DOMAIN listed'
                /\ \/ listed[c].sources[i].id \in Ids(listed'[c].sources)
                   \/ Len(listed'[c].sources) >= MaxKept]_vars
=============================================================================
