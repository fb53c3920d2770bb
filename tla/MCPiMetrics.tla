---------------------------- MODULE MCPiMetrics ----------------------------
\* The three parts of pi-metrics for TLC.
EXTENDS PiMetrics

\* AudioPlan: DTS stands for every codec a client was refused, AAC for every one it
\* was not.
MCCodecs == {"dts", "aac"}
MCIncompatible == {"dts"}
MCLanguages == {"und", "en", "es"}
MCChannels == {2, 8}
MCTargets == {"ac3", "aac"}

\* AudioLedger: a television that refuses DTS, one whose video is re-encoded, one that
\* refuses nothing and turns direct play off for some films, a browser, and a client
\* that refuses what is converted to.
MCClients == {"tv", "old", "samsung", "web", "shield"}
Client(app, browser, refuses, directPlay, video) ==
    [app |-> app, browser |-> browser, refuses |-> refuses, directPlay |-> directPlay, video |-> video]
MCProfile ==
    [tv |-> Client("plex", FALSE, {"dca"}, {"1"}, FALSE),
     old |-> Client("plex", FALSE, {}, {"1"}, TRUE),
     samsung |-> Client("plex", FALSE, {}, {"0", "1"}, FALSE),
     web |-> Client("jellyfin", TRUE, {"dca", "eac3"}, {"0"}, FALSE),
     shield |-> Client("jellyfin", FALSE, {"eac3", "ac3"}, {"0"}, FALSE)]
MCFiles == {"f1", "f2", "f3"}
MCFile ==
    [f1 |-> [tracks |-> <<"dca", "eac3">>, library |-> TRUE],
     f2 |-> [tracks |-> <<"eac3">>, library |-> FALSE],
     f3 |-> [tracks |-> <<"ac3">>, library |-> TRUE]]
MCListed == {"f3"}
MCPlays == {<<"tv", "f1">>, <<"old", "f2">>, <<"samsung", "f1">>, <<"web", "f2">>, <<"shield", "f2">>}

\* MediaPass: a film larger than the links' threshold's half, and its double.
MCBytes == [a |-> 2, b |-> 4]

Standing == [codec |-> "aac", lang |-> "und", channels |-> 2, default |-> TRUE, comment |-> FALSE]

\* A language has no more than its name, so the first one named may be English; and
\* a session on the default track is one that named none.
Representative ==
    /\ \A p \in DOMAIN tracks :
          tracks[p].lang = "es" => \E q \in 1 .. p - 1 : tracks[q].lang = "en"
    /\ played # DefaultIndex(tracks)

\* PartsInit, the parts that are not at hand standing at one start.
MCInit ==
    /\ which \in AtHand
    /\ M!Init /\ (which = "media" \/ \A f \in Films : names[f] = {} /\ f \notin monitored)
    \* A ledger with an old file: an empty one goes the same way, and sooner.
    /\ L!Init /\ (which = "ledger" <=> file.files # <<>>)
    /\ IF which = "plan" THEN Init /\ Representative
       ELSE tracks = <<Standing>> /\ played = 0 /\ Init

MCSpec == MCInit /\ [][PartsNext]_allVars
=============================================================================
