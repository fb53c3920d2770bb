-------------------------- MODULE MCTrackerControl --------------------------
\* TrackerControl for TLC: the three tiers of rules.json with ceilings 1 and 2
\* for 25 and 100 GB and a headroom on either of them, the disk below the floor,
\* on it and at the margin, and a hold of 2, 3 or 4 by the disk for torrents of
\* 1, 2 and 1, which is another set of them each time.
EXTENDS TrackerControl

MCTiers == <<[below |-> 1, grabs |-> 3, freeleech |-> TRUE],
             [below |-> 2, grabs |-> 2, freeleech |-> TRUE],
             [below |-> NoCeiling, grabs |-> 1, freeleech |-> FALSE]>>
MCEarning == <<"t1", "t2", "t3">>
MCSize == [t1 |-> 1, t2 |-> 2, t3 |-> 1]
MCSpaces == {0, 1, 2}
MCHeadrooms == {1, 2}
=============================================================================
