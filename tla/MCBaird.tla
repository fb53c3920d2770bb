------------------------------ MODULE MCBaird ------------------------------
\* baird for TLC.
EXTENDS BairdService

\* Baird: one listed channel, one page that may link to either of two ids, one
\* channel of the engine's catalogue.
MCLinking == [u |-> {"1"}]
MCCategory == [c |-> "sport"]
MCCountry == [c |-> "es"]

\* BairdLists: a channel with three sources, and one that may be moved to another
\* group and may carry the first's.  The player does not answer, or saw one source
\* play and one fail, or two play.
MCCarries == [A |-> {"x", "y", "z"}, B |-> {"x"}]
MCIn == [A |-> {"g"}, B |-> {"g", "h"}]
MCAnswers == {[x |-> "unknown", y |-> "unknown", z |-> "unknown"],
              [x |-> "played", y |-> "failed", z |-> "unknown"],
              [x |-> "unknown", y |-> "probed", z |-> "played"]}
=============================================================================
