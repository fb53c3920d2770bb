----------------------------- MODULE MCServices -----------------------------
\* The five services for TLC.
EXTENDS Services

CONSTANTS t1, t2

MCOrder == <<t1, t2>>

\* Two films and a series; codes of two kinds, a picture track, names that meet.
Track(index, lang, title) ==
    [type |-> "Subtitle", text |-> TRUE, index |-> index, lang |-> lang, title |-> title,
     hearingImpaired |-> FALSE, forced |-> FALSE]
Film(id, order, title, streams) == [id |-> id, order |-> order, title |-> title, streams |-> streams]
Episode(id, season, episode, streams) ==
    [id |-> id, season |-> season, episode |-> episode, streams |-> streams]
MCLibrary ==
    [movies |-> <<
        Film("m2", 2, "Up", <<[Track(0, "es", "") EXCEPT !.type = "Audio"], Track(1, "es", ""),
                              [Track(2, "spa", "") EXCEPT !.forced = TRUE],
                              [Track(3, "eng", "") EXCEPT !.text = FALSE]>>),
        Film("m1", 1, "Alien", <<Track(0, "fre", ""), Track(1, "fra", "")>>)>>,
     series |-> <<[id |-> "s1", order |-> 1, title |-> "Bluey", episodes |-> <<
        Episode("e2", 1, 2, <<Track(0, "en", "SDH")>>),
        Episode("e1", 1, 1, <<Track(4, "und", "")>>)>>]>>]
MCWishes == {{}, {"es"}, {"fra", "eng"}}

\* Two seasons of two, and a special.
Number(season, number) == [season |-> season, number |-> number]
MCEpisodes == [e1 |-> Number(1, 1), e2 |-> Number(1, 2), e3 |-> Number(2, 1),
               e4 |-> Number(2, 2), special |-> Number(0, 1)]
MCStarts == {[monitored |-> {"e1", "e2"}, hasFile |-> {"e1", "e3"}]}
MCWatches == {Number(1, 1), Number(1, 2), Number(0, 1)}
=============================================================================
